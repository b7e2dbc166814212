------------------------------- MODULE Wagering -------------------------------
(***************************************************************************)
(* WageringService.execute and WalletService.create over their PostgreSQL  *)
(* tables.  Sessions are concurrent calls (HTTP requests and SQS messages, *)
(* on any number of instances) running at READ COMMITTED: each statement   *)
(* of the service's transaction is a step of its own, and what a step      *)
(* writes stays with the session until the COMMIT publishes it at once.    *)
(*                                                                         *)
(* Abstractions.  A row's id is its position in `txns` (assigned when it   *)
(* commits, so the id order is the commit order); the SHA-256 payload hash *)
(* is the payload itself; gameId, timestamps, correlation ids and metrics  *)
(* are left out.                                                           *)
(***************************************************************************)
EXTENDS WagerRules

CONSTANTS
  Sessions,      \* concurrently running calls of execute
  Wallets,       \* wallet ids
  Players, Currencies, Providers, Rounds,
  Keys,          \* idempotency keys
  ExtIds,        \* external transaction ids
  Msgs,          \* SQS message ids
  Calls,         \* the calls clients make
  Openings,      \* initial balances of new wallets
  Internal,      \* the provider name of OPENING transactions
  Faults         \* the failures that may happen: "contention", "crash"

WalletRecords ==
  [player : Players, currency : Currencies, balance : Nat, version : Nat \ {0}]

OperationPayloads ==
  [provider : Providers, ext : ExtIds, player : Players, wallet : Wallets,
   currency : Currencies, kind : ProviderKinds, round : Rounds,
   amount : Nat \ {0}, refExt : ExtIds \cup {Null}]

(* Calls come with a valid DTO and a positive amount (the amount check of  *)
(* wager_transactions); msg is Null for HTTP.  The key "opening:<uuid>" and *)
(* the INTERNAL provider are never a client's.                             *)
ASSUME CallsAssumption ==
  /\ Calls \subseteq [msg : Msgs \cup {Null}, key : Keys,
                      payload : OperationPayloads]
  /\ Openings \subseteq Nat

ASSUME NamesAssumption ==
  /\ Keys \cap Wallets = {}
  /\ Internal \notin Providers
  /\ Null \notin Sessions \cup Wallets \cup Msgs \cup ExtIds
                 \cup Players \cup Currencies
  /\ Null \notin WalletRecords /\ Null \notin Int

VARIABLES
  wallets,   \* wallets table: Null or [player, currency, balance, version]
  txns,      \* wager_transactions table, committed rows in commit order
  ledger,    \* wallet_ledger_entries of each wallet, oldest first
  inbox,     \* inbox_messages table: {[msg, hash]}
  outbox,    \* outbox_messages table, in insertion order
  lock,      \* FOR UPDATE row lock of each wallet: Null or its session
  pc,        \* the statement each session executes next
  call,      \* the call a session serves
  attempt,   \* index of the transaction attempt, from 0
  seen,      \* the inbox row of this message was found
  copy,      \* the wallet read under its lock
  draft,     \* the outcome decided, not yet flushed
  answer     \* the output or error of the session's last (or current) call

tables == <<wallets, txns, ledger, inbox, outbox>>
locals == <<call, attempt, seen, copy, draft>>
vars   == <<tables, lock, pc, locals, answer>>

MaxAttempts == 3

-------------------------------------------------------------------------------
(* Rows, events and answers                                                *)

OpeningPayload(w) ==
  [provider |-> Internal, ext |-> w, player |-> Null, wallet |-> Null,
   currency |-> Null, kind |-> "OPENING", round |-> Null, amount |-> 0,
   refExt |-> Null]

Row(key, payload, o) ==
  [key |-> key, payload |-> payload, ref |-> o.ref, status |-> o.status,
   failure |-> o.failure, observed |-> o.observed]

(* The row createInitialTransaction inserts before the rules are applied.  *)
PendingRow(c) ==
  Row(c.key, c.payload, [ref |-> NoTx, status |-> "PENDING",
                         failure |-> "NONE", observed |-> NoBalance])

Entry(t, direction, amount, before, after) ==
  [tx |-> t, direction |-> direction, amount |-> amount,
   before |-> before, after |-> after]

(* Mutant: the balance event is staged whatever the outcome.               *)
EventsWithBalanceAlways(t, kind, w, o) ==
  LET event(type) == [type |-> type, tx |-> t, wallet |-> w,
                      failure |-> o.failure, balance |-> o.wallet.balance]
  IN  <<event(o.status), event("BALANCE_CHANGED")>>

(* stageEvents: one event named by the status, and WalletBalanceChanged    *)
(* when a processed operation other than LOSS moved money.                 *)
Events(t, kind, w, o) ==
  LET event(type) == [type |-> type, tx |-> t, wallet |-> w,
                      failure |-> o.failure, balance |-> o.wallet.balance]
  IN  IF o.status = "PROCESSED" /\ kind # "LOSS"
      THEN <<event("PROCESSED"), event("BALANCE_CHANGED")>>
      ELSE <<event(o.status)>>

NoAnswer == [call |-> Null, code |-> "NONE", tx |-> NoTx, replay |-> FALSE,
             status |-> "NONE", failure |-> "NONE", balance |-> NoBalance]

Failed(c, code) == [NoAnswer EXCEPT !.call = c, !.code = code]

Output(c, t, row, replay) ==
  [call |-> c, code |-> "NONE", tx |-> t, replay |-> replay,
   status |-> row.status, failure |-> row.failure, balance |-> row.observed]

RowsWithKey(key) == {i \in DOMAIN txns : txns[i].key = key}

RowsWithExt(p) ==
  {i \in DOMAIN txns : /\ txns[i].payload.provider = p.provider
                       /\ txns[i].payload.ext = p.ext}

InboxRows(msg) == {r \in inbox : r.msg = msg}

(* Mutant: no unique index on (provider_id, external_transaction_id).      *)
DuplicateKeyOnly(c) == RowsWithKey(c.key) # {}

(* The unique indexes an INSERT of the call's transaction row meets.       *)
Duplicate(c) == RowsWithKey(c.key) # {} \/ RowsWithExt(c.payload) # {}

(* An uncommitted INSERT of another session on the same index entry: the   *)
(* statement waits for that transaction to end.                            *)
Collides(c, d) ==
  \/ c.key = d.key
  \/ c.payload.provider = d.payload.provider /\ c.payload.ext = d.payload.ext

InsertBlocked(s) ==
  \E o \in Sessions \ {s} : /\ pc[o] \in {"apply", "flush"}
                            /\ Collides(call[s], call[o])

(* Mutant: no unique index on (reference_transaction_id, kind).            *)
ReferenceKindTakenNever(ref, kind, status) == FALSE

(* The partial unique index wager_transactions_reference_kind_unique.      *)
ReferenceKindTaken(ref, kind, status) ==
  /\ ref # NoTx
  /\ status \in ActiveStatus
  /\ \E j \in DOMAIN txns : /\ txns[j].ref = ref
                            /\ txns[j].payload.kind = kind
                            /\ txns[j].status \in ActiveStatus

-------------------------------------------------------------------------------
(* How a transaction attempt ends                                          *)

Released(s) == [w \in Wallets |-> IF lock[w] = s THEN Null ELSE lock[w]]

(* A call enters its transaction with the inbox lookup, or, without a      *)
(* message, with the idempotency lookup.                                   *)
FirstStep(c) == IF c.msg = Null THEN "findKey" ELSE "inbox"

GoTo(s, step) == pc' = [pc EXCEPT ![s] = step]

Finish(s, a) ==
  /\ GoTo(s, "idle")
  /\ answer'  = [answer EXCEPT ![s] = a]
  /\ lock'    = Released(s)
  /\ call'    = [call EXCEPT ![s] = Null]
  /\ attempt' = [attempt EXCEPT ![s] = 0]
  /\ seen'    = [seen EXCEPT ![s] = FALSE]
  /\ copy'    = [copy EXCEPT ![s] = Null]
  /\ draft'   = [draft EXCEPT ![s] = Null]

(* ROLLBACK, then continue outside the transaction at `step`.              *)
Rollback(s, step, n) ==
  /\ GoTo(s, step)
  /\ lock'    = Released(s)
  /\ attempt' = [attempt EXCEPT ![s] = n]
  /\ seen'    = [seen EXCEPT ![s] = FALSE]
  /\ copy'    = [copy EXCEPT ![s] = Null]
  /\ draft'   = [draft EXCEPT ![s] = Null]
  /\ UNCHANGED <<call, answer>>

(* Mutant: a retry is not counted and does not look into the inbox again.  *)
RetryForever(s) == Rollback(s, "findKey", attempt[s])

(* The next turn of execute's attempt loop, or its final error.            *)
Retry(s) ==
  \/ /\ attempt[s] + 1 < MaxAttempts
     /\ Rollback(s, FirstStep(call[s]), attempt[s] + 1)
  \/ /\ attempt[s] + 1 >= MaxAttempts
     /\ Finish(s, Failed(call[s], "DEPENDENCY_UNAVAILABLE"))

-------------------------------------------------------------------------------
(* WalletService.create: one transaction, serialised by the unique index   *)
(* on (player, currency); the loser gets WALLET_ALREADY_EXISTS.            *)

WalletExists(player, currency) ==
  \E w \in Wallets : /\ wallets[w] # Null
                     /\ wallets[w].player = player
                     /\ wallets[w].currency = currency

OpeningRow(w) ==
  Row(w, OpeningPayload(w), [ref |-> NoTx, status |-> "PROCESSED",
                             failure |-> "NONE", observed |-> NoBalance])

CreateWallet(w, player, currency, amount) ==
  /\ wallets[w] = Null
  /\ ~WalletExists(player, currency)
  /\ wallets' = [wallets EXCEPT ![w] = [player |-> player,
                   currency |-> currency, balance |-> amount, version |-> 1]]
  /\ \/ /\ amount = 0
        /\ UNCHANGED <<txns, ledger>>
     \/ /\ amount # 0
        /\ txns' = Append(txns, OpeningRow(w))
        /\ ledger' = [ledger EXCEPT ![w] =
             Append(@, Entry(Len(txns) + 1, "CREDIT", amount, 0, amount))]
  /\ UNCHANGED <<inbox, outbox, lock, pc, locals, answer>>

-------------------------------------------------------------------------------
(* WageringService.execute, statement by statement                         *)

Execute(s, c) ==
  /\ pc[s] = "idle"
  /\ call' = [call EXCEPT ![s] = c]
  /\ GoTo(s, FirstStep(c))
  /\ UNCHANGED <<tables, lock, attempt, seen, copy, draft, answer>>

(* Mutant: a message found in the inbox is refused whatever it asks for.   *)
CheckInboxRefusesStored(s) ==
  LET rows == InboxRows(call[s].msg) IN
  /\ pc[s] = "inbox"
  /\ UNCHANGED tables
  /\ \/ /\ rows # {}
        /\ Finish(s, Failed(call[s], "MESSAGE_PERMANENT_FAILURE"))
     \/ /\ rows = {}
        /\ GoTo(s, "findKey")
        /\ UNCHANGED <<lock, locals, answer>>

CheckInbox(s) ==
  LET rows == InboxRows(call[s].msg) IN
  /\ pc[s] = "inbox"
  /\ UNCHANGED tables
  /\ \/ /\ \E r \in rows : r.hash # call[s].payload
        /\ Finish(s, Failed(call[s], "MESSAGE_PERMANENT_FAILURE"))
     \/ /\ \A r \in rows : r.hash = call[s].payload
        /\ seen' = [seen EXCEPT ![s] = rows # {}]
        /\ GoTo(s, "findKey")
        /\ UNCHANGED <<lock, call, attempt, copy, draft, answer>>

(* An existing row i: conflict, replay, or replay after staging the inbox  *)
(* row of a message that is new.                                           *)
Existing(s, i) ==
  \/ /\ txns[i].payload # call[s].payload
     /\ Finish(s, Failed(call[s], "IDEMPOTENCY_CONFLICT"))
  \/ /\ txns[i].payload = call[s].payload
     /\ call[s].msg = Null \/ seen[s]
     /\ Finish(s, Output(call[s], i, txns[i], TRUE))
  \/ /\ txns[i].payload = call[s].payload
     /\ call[s].msg # Null /\ ~seen[s]
     /\ answer' = [answer EXCEPT ![s] = Output(call[s], i, txns[i], TRUE)]
     /\ GoTo(s, "stage")
     /\ UNCHANGED <<lock, locals>>

FindByKey(s) ==
  /\ pc[s] = "findKey"
  /\ UNCHANGED tables
  /\ \/ \E i \in RowsWithKey(call[s].key) : Existing(s, i)
     \/ /\ RowsWithKey(call[s].key) = {}
        /\ GoTo(s, "findExt")
        /\ UNCHANGED <<lock, locals, answer>>

FindByExternalId(s) ==
  /\ pc[s] = "findExt"
  /\ UNCHANGED tables
  /\ \/ \E i \in RowsWithExt(call[s].payload) : Existing(s, i)
     \/ /\ RowsWithExt(call[s].payload) = {}
        /\ seen[s]
        /\ Finish(s, Failed(call[s], "DEPENDENCY_UNAVAILABLE"))
     \/ /\ RowsWithExt(call[s].payload) = {}
        /\ ~seen[s]
        /\ GoTo(s, "lock")
        /\ UNCHANGED <<lock, locals, answer>>

(* Flush and COMMIT of a replay that stages its inbox row.                 *)
StageInbox(s) ==
  /\ pc[s] = "stage"
  /\ UNCHANGED <<wallets, txns, ledger, outbox>>
  /\ \/ /\ InboxRows(call[s].msg) = {}
        /\ inbox' = inbox \cup {[msg |-> call[s].msg, hash |-> call[s].payload]}
        /\ Finish(s, answer[s])
     \/ /\ InboxRows(call[s].msg) # {}
        /\ Rollback(s, "rereadKey", attempt[s])
        /\ UNCHANGED inbox

(* Mutant: the wallet is read without FOR UPDATE.                          *)
LockWalletWithoutWaiting(s) ==
  LET w == call[s].payload.wallet IN
  /\ pc[s] = "lock"
  /\ wallets[w] # Null
  /\ copy' = [copy EXCEPT ![s] = wallets[w]]
  /\ GoTo(s, "insert")
  /\ UNCHANGED <<tables, lock, call, attempt, seen, draft, answer>>

LockWallet(s) ==
  LET w == call[s].payload.wallet IN
  /\ pc[s] = "lock"
  /\ UNCHANGED tables
  /\ \/ /\ wallets[w] = Null
        /\ Finish(s, Failed(call[s], "WALLET_NOT_FOUND"))
     \/ /\ wallets[w] # Null
        /\ lock[w] = Null
        /\ lock' = [lock EXCEPT ![w] = s]
        /\ copy' = [copy EXCEPT ![s] = wallets[w]]
        /\ GoTo(s, "insert")
        /\ UNCHANGED <<call, attempt, seen, draft, answer>>

InsertPending(s) ==
  /\ pc[s] = "insert"
  /\ ~InsertBlocked(s)
  /\ UNCHANGED tables
  /\ \/ /\ ~Duplicate(call[s])
        /\ GoTo(s, "apply")
        /\ UNCHANGED <<lock, locals, answer>>
     \/ /\ Duplicate(call[s])
        /\ Rollback(s, "rereadKey", attempt[s])

(* The statement's snapshot: the committed rows and the session's own.  A  *)
(* reference to itself is kept as Own until the commit gives it its id.    *)
Own == -1
Relink(o, from, to) == IF o.ref = from THEN [o EXCEPT !.ref = to] ELSE o
Visible(s) == Append(txns, PendingRow(call[s]))

ApplyRules(s) ==
  /\ pc[s] = "apply"
  /\ \E o \in ProcessWagerMovement(copy[s], Visible(s), Len(txns) + 1,
                                   call[s].payload) :
       draft' = [draft EXCEPT ![s] = Relink(o, Len(txns) + 1, Own)]
  /\ GoTo(s, "flush")
  /\ UNCHANGED <<tables, lock, call, attempt, seen, copy, answer>>

(* Mutant: no unique index on (consumer_name, message_id).                 *)
InboxTakenNever(s) == FALSE

InboxTaken(s) == call[s].msg # Null /\ InboxRows(call[s].msg) # {}

(* The final flush violates inbox_messages' or the reference index.        *)
FlushInboxConflict(s) ==
  /\ pc[s] = "flush"
  /\ InboxTaken(s)
  /\ Rollback(s, "rereadKey", attempt[s])
  /\ UNCHANGED tables

FlushReferenceConflict(s) ==
  /\ pc[s] = "flush"
  /\ ~InboxTaken(s)
  /\ ReferenceKindTaken(draft[s].ref, call[s].payload.kind, draft[s].status)
  /\ Finish(s, Failed(call[s], "REFERENCE_ALREADY_REVERSED"))
  /\ UNCHANGED tables

(* The final flush succeeds and the transaction commits.                   *)
WriteLedger(w, t, amount, before, o) ==
  ledger' = IF o.move = NoMove THEN ledger
            ELSE [ledger EXCEPT ![w] =
                   Append(@, Entry(t, o.move, amount, before, o.wallet.balance))]

Commit(s) ==
  LET c == call[s]
      p == c.payload
      o == draft[s]
      t == Len(txns) + 1
      row == Row(c.key, p, Relink(o, Own, t))
  IN
  /\ pc[s] = "flush"
  /\ ~InboxTaken(s)
  /\ ~ReferenceKindTaken(o.ref, p.kind, o.status)
  /\ txns' = Append(txns, row)
  /\ wallets' = [wallets EXCEPT ![p.wallet] = o.wallet]
  /\ WriteLedger(p.wallet, t, p.amount, copy[s].balance, o)
  /\ outbox' = outbox \o Events(t, p.kind, p.wallet, o)
  /\ inbox' = IF c.msg = Null THEN inbox
              ELSE inbox \cup {[msg |-> c.msg, hash |-> p]}
  /\ Finish(s, Output(c, t, row, FALSE))

(* handleIdempotencyConflict: the loser of a unique index reads the winner *)
(* outside the transaction; with no winner the attempt loop continues.     *)
Winner(s, i) ==
  \/ /\ txns[i].payload # call[s].payload
     /\ Finish(s, Failed(call[s], "IDEMPOTENCY_CONFLICT"))
  \/ /\ txns[i].payload = call[s].payload
     /\ Finish(s, Output(call[s], i, txns[i], TRUE))

RereadByKey(s) ==
  /\ pc[s] = "rereadKey"
  /\ UNCHANGED tables
  /\ \/ \E i \in RowsWithKey(call[s].key) : Winner(s, i)
     \/ /\ RowsWithKey(call[s].key) = {}
        /\ GoTo(s, "rereadExt")
        /\ UNCHANGED <<lock, locals, answer>>

RereadByExternalId(s) ==
  /\ pc[s] = "rereadExt"
  /\ UNCHANGED tables
  /\ \/ \E i \in RowsWithExt(call[s].payload) : Winner(s, i)
     \/ /\ RowsWithExt(call[s].payload) = {}
        /\ Retry(s)

-------------------------------------------------------------------------------
(* Failures                                                                *)

(* PostgreSQL ends a waiting or writing statement with 40P01 or 40001.     *)
Contended(s) ==
  /\ "contention" \in Faults
  /\ pc[s] \in {"lock", "insert", "flush"}
  /\ Retry(s)
  /\ UNCHANGED tables

(* The instance or its connection dies, in a statement or at the COMMIT:   *)
(* the transaction is rolled back and the caller learns nothing.           *)
Crash(s) ==
  /\ "crash" \in Faults
  /\ pc[s] # "idle"
  /\ Finish(s, NoAnswer)
  /\ UNCHANGED tables

-------------------------------------------------------------------------------
Init ==
  /\ wallets = [w \in Wallets |-> Null]
  /\ txns    = << >>
  /\ ledger  = [w \in Wallets |-> << >>]
  /\ inbox   = {}
  /\ outbox  = << >>
  /\ lock    = [w \in Wallets |-> Null]
  /\ pc      = [s \in Sessions |-> "idle"]
  /\ call    = [s \in Sessions |-> Null]
  /\ attempt = [s \in Sessions |-> 0]
  /\ seen    = [s \in Sessions |-> FALSE]
  /\ copy    = [s \in Sessions |-> Null]
  /\ draft   = [s \in Sessions |-> Null]
  /\ answer  = [s \in Sessions |-> NoAnswer]

(* What a session does on its own once it serves a call.                   *)
Progress(s) ==
  \/ CheckInbox(s) \/ FindByKey(s) \/ FindByExternalId(s) \/ StageInbox(s)
  \/ LockWallet(s) \/ InsertPending(s) \/ ApplyRules(s)
  \/ FlushInboxConflict(s) \/ FlushReferenceConflict(s) \/ Commit(s)
  \/ RereadByKey(s) \/ RereadByExternalId(s)

Session(s) ==
  \/ \E c \in Calls : Execute(s, c)
  \/ Progress(s) \/ Contended(s) \/ Crash(s)

Next ==
  \/ \E w \in Wallets, player \in Players, currency \in Currencies,
        amount \in Openings : CreateWallet(w, player, currency, amount)
  \/ \E s \in Sessions : Session(s)

(* PostgreSQL serves lock waiters in their queue's order, and a call that  *)
(* is not waiting is run by the event loop.                                *)
Fairness == \A s \in Sessions : SF_vars(Progress(s))

Spec     == Init /\ [][Next]_vars
FairSpec == Spec /\ Fairness
-------------------------------------------------------------------------------
(* Types                                                                   *)

Payloads == OperationPayloads \cup {OpeningPayload(w) : w \in Wallets}

Statuses == {"PENDING_REFERENCE", "PROCESSED", "REJECTED"}

Rows ==
  [key : Keys \cup Wallets, payload : Payloads, ref : Nat, status : Statuses,
   failure : RejectionCodes \cup {"NONE"}, observed : Nat \cup {NoBalance}]

Entries ==
  [tx : Nat \ {0}, direction : Directions, amount : Nat \ {0}, before : Nat,
   after : Nat]

EventRecords ==
  [type : Statuses \cup {"BALANCE_CHANGED"}, tx : Nat \ {0}, wallet : Wallets,
   failure : RejectionCodes \cup {"NONE"}, balance : Nat]

Outcomes ==
  [status : Statuses, failure : RejectionCodes \cup {"NONE"}, ref : Nat \cup {Own},
   observed : Nat \cup {NoBalance}, wallet : WalletRecords,
   move : Directions \cup {NoMove}]

ErrorCodes ==
  {"MESSAGE_PERMANENT_FAILURE", "IDEMPOTENCY_CONFLICT", "WALLET_NOT_FOUND",
   "DEPENDENCY_UNAVAILABLE", "REFERENCE_ALREADY_REVERSED"}

Answers ==
  [call : Calls \cup {Null}, code : ErrorCodes \cup {"NONE"}, tx : Nat,
   replay : BOOLEAN, status : Statuses \cup {"NONE"},
   failure : RejectionCodes \cup {"NONE"}, balance : Nat \cup {NoBalance}]

Steps ==
  {"idle", "inbox", "findKey", "findExt", "stage", "lock", "insert", "apply",
   "flush", "rereadKey", "rereadExt"}

TablesTypeOK ==
  /\ wallets \in [Wallets -> WalletRecords \cup {Null}]
  /\ txns    \in Seq(Rows)
  /\ ledger  \in [Wallets -> Seq(Entries)]
  /\ inbox   \subseteq [msg : Msgs, hash : OperationPayloads]
  /\ outbox  \in Seq(EventRecords)

SessionsTypeOK ==
  /\ pc      \in [Sessions -> Steps]
  /\ call    \in [Sessions -> Calls \cup {Null}]
  /\ attempt \in [Sessions -> 0 .. MaxAttempts - 1]
  /\ seen    \in [Sessions -> BOOLEAN]
  /\ copy    \in [Sessions -> WalletRecords \cup {Null}]
  /\ draft   \in [Sessions -> Outcomes \cup {Null}]
  /\ answer  \in [Sessions -> Answers]

(* Every variable holds a value of its type: no committed row is left      *)
(* PENDING, and no balance, recorded or current, is negative.              *)
TypeOK ==
  /\ TablesTypeOK
  /\ SessionsTypeOK
  /\ lock \in [Wallets -> Sessions \cup {Null}]

-------------------------------------------------------------------------------
(* Safety                                                                  *)

Sign(e) == IF e.direction = "CREDIT" THEN e.amount ELSE -e.amount

(* Each ledger entry continues the one before it.                          *)
Chained(l) ==
  \A i \in DOMAIN l :
    /\ l[i].before = IF i = 1 THEN 0 ELSE l[i - 1].after
    /\ l[i].after  = l[i].before + Sign(l[i])

LastBalance(l) == IF l = << >> THEN 0 ELSE l[Len(l)].after

(* A wallet's ledger is an unbroken chain from zero and its balance is the *)
(* last balance of the chain, whatever the interleaving of sessions: no    *)
(* update is lost and none is written without its entry (ARCHITECTURE.md:  *)
(* wallet.balance equals the balance rebuilt from the ledger).             *)
WalletMatchesLedger ==
  \A w \in Wallets :
    /\ Chained(ledger[w])
    /\ wallets[w] = Null => ledger[w] = << >>
    /\ wallets[w] # Null => wallets[w].balance = LastBalance(ledger[w])

(* An operation takes effect at most once, whatever keys, channels and     *)
(* messages it came by: no two rows share the idempotency key or the       *)
(* provider's external id.                                                 *)
OneRowPerOperation ==
  \A i, j \in DOMAIN txns :
    i # j => /\ txns[i].key # txns[j].key
             /\ \/ txns[i].payload.provider # txns[j].payload.provider
                \/ txns[i].payload.ext # txns[j].payload.ext

EntriesOf(w, t) == {i \in DOMAIN ledger[w] : ledger[w][i].tx = t}

(* The wallet whose ledger holds the entry of row t.                       *)
WalletOf(t) ==
  IF txns[t].payload.kind = "OPENING" THEN txns[t].payload.ext
                                      ELSE txns[t].payload.wallet

FundsCodes == {"INSUFFICIENT_FUNDS", "REVERSAL_WOULD_NEGATIVE"}

(* Rows and ledger tell the same story: a row that moved money has exactly *)
(* one entry, in its own wallet, of its amount, ending at the balance the  *)
(* row reports; any other row has none, and one refused for want of funds  *)
(* saw a balance short of its amount: a debit of all there is passes.      *)
EntriesMatchRows ==
  /\ \A w \in Wallets : \A i \in DOMAIN ledger[w] :
       ledger[w][i].tx \in DOMAIN txns /\ WalletOf(ledger[w][i].tx) = w
  /\ \A t \in DOMAIN txns :
       LET entries == EntriesOf(WalletOf(t), t) IN
       IF txns[t].status = "PROCESSED" /\ txns[t].payload.kind # "LOSS"
       THEN \E i \in entries :
              LET e == ledger[WalletOf(t)][i] IN
              /\ entries = {i}
              /\ txns[t].payload.kind # "OPENING" =>
                   e.amount = txns[t].payload.amount /\ e.after = txns[t].observed
       ELSE /\ entries = {}
            /\ txns[t].failure \in FundsCodes =>
                 txns[t].observed < txns[t].payload.amount

(* A processed REFUND or ROLLBACK undoes the movement of the operation it  *)
(* references: both have their entry, in one wallet and of opposite sign.  *)
ReversalsUndoMovements ==
  \A t \in DOMAIN txns :
    LET r == txns[t].ref
        w == WalletOf(t)
    IN  txns[t].status = "PROCESSED" /\ txns[t].payload.kind \in {"REFUND", "ROLLBACK"}
        => /\ r \in DOMAIN txns
           /\ \A i \in EntriesOf(w, t), j \in EntriesOf(w, r) :
                Sign(ledger[w][i]) = -Sign(ledger[w][j])
           /\ EntriesOf(w, r) # {}

(* An operation is refunded, rolled back or paid out at most once each: no *)
(* two processed rows of one kind name the same operation of a provider,   *)
(* whichever sessions or workers decided them and whatever the column      *)
(* reference_transaction_id, on which every check relies, holds.           *)
ReferencesUsedOnce ==
  \A t, u \in DOMAIN txns :
    LET p == txns[t].payload
        q == txns[u].payload
    IN  /\ t # u
        /\ txns[t].status = "PROCESSED" /\ ShouldResolveReference(p)
        /\ txns[u].status = "PROCESSED" /\ ShouldResolveReference(q)
        => <<p.kind, p.provider, p.refExt>> # <<q.kind, q.provider, q.refExt>>

(* A message recorded in the inbox was recorded once and together with (or *)
(* after) the transaction it asked for, so that acknowledging it loses     *)
(* nothing.                                                                *)
InboxHasTransaction ==
  \A r \in inbox :
    /\ \E t \in DOMAIN txns : txns[t].payload = r.hash
    /\ \A q \in inbox : q.msg = r.msg => q = r

(* The events of row t, by their places in the outbox.                     *)
EventsOf(t) == {i \in DOMAIN outbox : outbox[i].tx = t}

EventTypes(row) ==
  IF row.status = "PROCESSED" /\ row.payload.kind # "LOSS"
  THEN <<"PROCESSED", "BALANCE_CHANGED">> ELSE <<row.status>>

(* Row t was announced by events of exactly these types in this order, and *)
(* those after the first n report the result the row stores.               *)
Tells(t, types, n) ==
  \E at \in [DOMAIN types -> EventsOf(t)] :
    /\ EventsOf(t) = {at[i] : i \in DOMAIN types}
    /\ \A i, j \in DOMAIN types : i < j => at[i] < at[j]
    /\ \A i \in DOMAIN types : outbox[at[i]].type = types[i]
    /\ \A i \in DOMAIN types :
         i > n => /\ outbox[at[i]].failure = txns[t].failure
                  /\ txns[t].observed # NoBalance =>
                       outbox[at[i]].balance = txns[t].observed

(* An event is about a stored transaction of a client.                     *)
EventsHaveRows ==
  \A i \in DOMAIN outbox : /\ outbox[i].tx \in DOMAIN txns
                            /\ txns[outbox[i].tx].payload.kind # "OPENING"

(* The outbox announces every client transaction exactly as it was stored: *)
(* its result, and the new balance if and only if money moved.  Nothing    *)
(* else is announced.                                                      *)
OutboxTellsRows ==
  /\ EventsHaveRows
  /\ \A t \in DOMAIN txns :
       txns[t].payload.kind # "OPENING" => Tells(t, EventTypes(txns[t]), 0)

(* Another operation owns the call's key or external id.                   *)
Contradicted(c) ==
  \E i \in DOMAIN txns :
    /\ txns[i].payload # c.payload
    /\ \/ txns[i].key = c.key
       \/ /\ txns[i].payload.provider = c.payload.provider
          /\ txns[i].payload.ext = c.payload.ext

(* Another operation owns the call's message id.                           *)
Misaddressed(c) == \E r \in InboxRows(c.msg) : r.hash # c.payload

(* A caller who was given a result was given the stored one: the row is    *)
(* committed, it is the row of the very operation called, and every caller *)
(* of that operation gets the same transaction.  A caller refused for good *)
(* is in conflict with another operation: the redelivery of a stored       *)
(* message is a replay, never an error that dead-letters it.               *)
AnswersAreDurable ==
  \A s \in Sessions :
    LET a == answer[s] IN
    /\ a.tx # NoTx =>
         /\ a.tx \in DOMAIN txns
         /\ txns[a.tx].payload = a.call.payload
         /\ a = Output(a.call, a.tx, txns[a.tx], a.replay)
    /\ a.code = "IDEMPOTENCY_CONFLICT" => Contradicted(a.call)
    /\ a.code = "MESSAGE_PERMANENT_FAILURE" => Misaddressed(a.call)

(* Every reference the operation could name lies in its own wallet, whose  *)
(* rows the wallet lock freezes.                                           *)
LocalReferences(p) ==
  \A i \in Named(txns, p.refExt) : txns[i].payload.wallet = p.wallet

(* Each commit is serial: what it stores is what the rules would decide on *)
(* the tables as they are at the commit, with no other session in between, *)
(* although the rules ran several statements earlier.                      *)
CommitsAreSerial ==
  [][\A t \in DOMAIN txns' \ DOMAIN txns :
       LET row == txns'[t]
           p   == row.payload
       IN  p.kind # "OPENING" /\ LocalReferences(p) =>
             \E o \in ProcessWagerMovement(wallets[p.wallet],
                        Append(txns, PendingRow(row)), t, p) :
               /\ row = Row(row.key, p, o)
               /\ wallets'[p.wallet] = o.wallet]_vars

-------------------------------------------------------------------------------
(* The promise of WalletBook, read off the tables                          *)

Operations == (Providers \X ExtIds)

BookBalance == [w \in Wallets |-> IF wallets[w] = Null THEN Null
                                                       ELSE wallets[w].balance]

BookResult ==
  [op \in Operations |->
     LET rows == {i \in DOMAIN txns : /\ txns[i].payload.provider = op[1]
                                      /\ txns[i].payload.ext = op[2]}
     IN  IF rows = {} THEN Null
         ELSE LET i == CHOOSE i \in rows : TRUE IN
              [payload |-> txns[i].payload, status |-> txns[i].status]]

CallPayloads == {c.payload : c \in Calls}

Book == INSTANCE WalletBook WITH balance <- BookBalance, result <- BookResult,
                                 Payloads <- CallPayloads

(* The service implements WalletBook: sessions, retries, conflicts and     *)
(* crashes are invisible in the balances and results, which change         *)
(* together, once per operation.                                           *)
ImplementsWalletBook == Book!BookSpec

-------------------------------------------------------------------------------
(* The promise of LedgerBook, read off the tables                          *)

SignedLedger ==
  [w \in Wallets |-> [i \in DOMAIN ledger[w] |-> Sign(ledger[w][i])]]

Changes == UNION {{p.amount, -p.amount} : p \in CallPayloads}

Money == INSTANCE LedgerBook WITH balance <- BookBalance,
                                  ledger <- SignedLedger, Movements <- Changes

(* The service implements LedgerBook, on which its readers rely: a step    *)
(* that changes a balance appends the one entry that explains it to that   *)
(* wallet's ledger, and nothing else ever touches either.                  *)
ImplementsLedgerBook == Money!BookSpec

-------------------------------------------------------------------------------
(* Liveness                                                                *)

(* Every call ends with an answer: no two sessions wait for each other     *)
(* forever and the attempt loop is bounded.                                *)
EveryCallEnds == \A s \in Sessions : pc[s] # "idle" ~> pc[s] = "idle"

-------------------------------------------------------------------------------
(* Claims of the documentation the code does not keep                      *)

(* Business rejections are persisted results, not exceptions that erase    *)
(* the audit (docs/brain/functions/WageringService.md:34).                 *)
RejectionsArePersisted ==
  \A s \in Sessions : answer[s].code \notin RejectionCodes
===============================================================================
