----------------------------- MODULE PendingProofs -----------------------------
(***************************************************************************)
(* Theorems about PendingReference, for any number of sessions, workers,   *)
(* wallets and calls: the sessions' invariants hold beside the workers,    *)
(* and the workers settle each parked row once.  A session's step is a     *)
(* step of Wagering, so the lemmas about those serve again; what is added  *)
(* here is the worker, and that neither disturbs the other.                *)
(***************************************************************************)
EXTENDS PendingReference, WageringEffects, WageringRefinement, HttpWageringProofs

-------------------------------------------------------------------------------
(* The inductive invariant                                                 *)

(* The statements between locking the row and the end of its transaction,  *)
(* and those at which the worker holds the wallet too.                     *)
RowSteps    == {"wallet", "apply", "flush", "read", "reject"}
WalletSteps == {"apply", "flush"}

WorkerTypes ==
  /\ lock \in [Wallets -> Parties \cup {Null}]
  /\ meta \in [DOMAIN txns -> MetaRecords]
  /\ rowLock \in [DOMAIN txns -> Workers \cup {Null}]
  /\ step \in [Workers -> WorkerSteps]
  /\ batch \in [Workers -> SUBSET [tx : DOMAIN txns, count : 1 .. MaxRefAttempts]]
  /\ current \in [Workers -> {NoTx} \cup DOMAIN txns]
  /\ held \in [Workers -> [copy : WalletRecords \cup {Null}, draft : Outcomes \cup {Null}]]

(* A worker holds the row it works on and no other.                        *)
HoldsRow(k) ==
  \A t \in DOMAIN txns : rowLock[t] = k <=> current[k] = t /\ step[k] \in RowSteps

(* The row a worker works on is parked, its wallet is the worker's own,    *)
(* and its decision is the rules' about them.                              *)
WorksOn(k, t, w) ==
  /\ step[k] \in {"resolve", "expire"} \cup RowSteps => t \in DOMAIN txns
  /\ step[k] \in RowSteps => Pending(t)
  /\ step[k] \in WalletSteps =>
       lock[w] = k /\ held[k].copy = wallets[w] /\ held[k].copy \in WalletRecords
  /\ step[k] = "reject" => held[k].copy \in WalletRecords

Decides(o, wal, p) ==
  /\ Decision(o, wal, p) /\ Settles(o, wal, p) /\ Moves(o, p)
  /\ o.status = "PROCESSED" /\ p.kind \in Reversals =>
       o.ref \in DOMAIN txns /\ Undoes(txns[o.ref], p, o.move)

WorkerOK(k) ==
  /\ HoldsRow(k)
  /\ WorksOn(k, current[k], txns[current[k]].payload.wallet)
  /\ step[k] = "flush" => Decides(held[k].draft, held[k].copy, txns[current[k]].payload)

(* A parked row is a client's, and its wallet exists.                      *)
ParkedRows ==
  \A t \in DOMAIN txns : Pending(t) =>
    txns[t].payload \in CallPayloads /\ wallets[txns[t].payload.wallet] # Null

SharedInv == EffectsInv /\ SettledInv /\ ParkedRows

PendingInv ==
  /\ SharedInv
  /\ WorkerTypes
  /\ \A k \in Workers : WorkerOK(k)

-------------------------------------------------------------------------------
(* Steps of the service beside the workers                                 *)

LEMMA RowsNumbered ==
  ASSUME TypeInv
  PROVE  txns \in Seq(Rows) /\ DOMAIN txns = 1 .. Len(txns) /\ Len(txns) \in Nat
BY LenProperties DEF TypeInv, TablesTypeOK

LEMMA Appended ==
  ASSUME NEW S, NEW q \in Seq(S), NEW e \in S
  PROVE  LET r == Append(q, e) IN
         /\ r \in [1 .. Len(q) + 1 -> S] /\ DOMAIN r = 1 .. Len(q) + 1 /\ Len(r) = Len(q) + 1
         /\ \A i \in 1 .. Len(q) : r[i] = q[i]
         /\ r[Len(q) + 1] = e
<1> DEFINE r == Append(q, e)
<1>1. /\ r \in Seq(S) /\ Len(r) = Len(q) + 1
      /\ \A i \in 1 .. Len(q) : r[i] = q[i]
      /\ r[Len(q) + 1] = e
  BY AppendProperties
<1> HIDE DEF r
<1>2. r \in [1 .. Len(r) -> S] /\ DOMAIN r = 1 .. Len(r)
  BY <1>1, LenProperties
<1>3. QED BY <1>1, <1>2 DEF r

(* Once created, a wallet stays.                                           *)
LEMMA WalletsStay ==
  ASSUME TypeInv, LocksInv, [Next]_vars, NEW w \in Wallets, wallets[w] # Null
  PROVE  wallets'[w] # Null
<1>1. CASE UNCHANGED vars
  BY <1>1 DEF vars, tables
<1>2. ASSUME NEW v \in Wallets, NEW player \in Players, NEW currency \in Currencies,
             NEW amount \in Openings, CreateWallet(v, player, currency, amount)
      PROVE  wallets'[w] # Null
  BY <1>2 DEF CreateWallet, TypeInv, TablesTypeOK
<1>3. ASSUME NEW s \in Sessions, Session(s), ~Commit(s) PROVE wallets'[w] # Null
  BY <1>3, SessionKeepsLocks
<1>4. ASSUME NEW s \in Sessions, Commit(s) PROVE wallets'[w] # Null
  <2>1. draft[s].wallet # Null
    BY <1>4, CommitFinds, NamesAssumption DEF Commit, Outcomes
  <2> QED BY <1>4, <2>1 DEF Commit, TypeInv, TablesTypeOK
<1> QED BY <1>1, <1>2, <1>3, <1>4 DEF Next

(* A step of the service appends at most one row; if it is parked, its     *)
(* wallet exists.                                                          *)
ParkedNow(row) ==
  row.status = "PENDING_REFERENCE" =>
    /\ row.payload \in CallPayloads
    /\ row.payload.wallet \in Wallets /\ wallets'[row.payload.wallet] # Null

LEMMA RowsAppended ==
  ASSUME TypeInv, LocksInv, [Next]_vars
  PROVE  txns' = txns \/ \E row \in Rows : txns' = Append(txns, row) /\ ParkedNow(row)
<1>1. CASE UNCHANGED vars
  BY <1>1 DEF vars, tables
<1>2. ASSUME NEW w \in Wallets, NEW player \in Players, NEW currency \in Currencies,
             NEW amount \in Openings, CreateWallet(w, player, currency, amount)
      PROVE  txns' = txns \/ \E row \in Rows : txns' = Append(txns, row) /\ ParkedNow(row)
  <2>1. OpeningRow(w) \in Rows /\ OpeningRow(w).status = "PROCESSED"
    BY DEF OpeningRow, Row, Rows, Payloads, Statuses, NoTx, NoBalance
  <2> QED BY <1>2, <2>1 DEF CreateWallet, ParkedNow
<1>3. ASSUME NEW s \in Sessions, Session(s), ~Commit(s) PROVE txns' = txns
  BY <1>3, WritersEnter
<1>4. ASSUME NEW s \in Sessions, Commit(s)
      PROVE  \E row \in Rows : txns' = Append(txns, row) /\ ParkedNow(row)
  <2> DEFINE p   == call[s].payload
             row == Row(call[s].key, p, Relink(draft[s], Own, Len(txns) + 1))
  <2>1. /\ call[s] \in Calls /\ call[s].key \in Keys /\ p \in OperationPayloads
        /\ p.wallet \in Wallets /\ draft[s] \in Outcomes /\ Len(txns) \in Nat
    BY <1>4, CommitFinds DEF Commit
  <2>2. row \in Rows /\ row.payload = p
    BY <2>1, RowOK DEF Row
  <2>3. txns' = Append(txns, row) /\ wallets' = [wallets EXCEPT ![p.wallet] = draft[s].wallet]
    BY <1>4 DEF Commit
  <2>4. wallets'[p.wallet] # Null
    BY <2>1, <2>3, NamesAssumption DEF Outcomes, TypeInv, TablesTypeOK
  <2> HIDE DEF row
  <2> QED BY <2>1, <2>2, <2>3, <2>4 DEF ParkedNow, CallPayloads
<1> QED BY <1>1, <1>2, <1>3, <1>4 DEF Next

(* The sessions' invariants, and what the workers rely on, survive it.     *)
LEMMA ServiceKeepsShared ==
  ASSUME SharedInv, [Next]_vars
  PROVE  SharedInv'
<1>inv. TypeInv /\ LocksInv
  BY DEF SharedInv, EffectsInv, UniqueInv, LedgerInv
<1>1. EffectsInv'
  BY EffectsStep DEF SharedInv
<1>2. SettledInv'
  BY <1>inv, SettledStep DEF SharedInv
<1>3. ASSUME NEW t \in DOMAIN txns, txns[t].status = "PENDING_REFERENCE"
      PROVE  txns[t].payload \in CallPayloads /\ wallets'[txns[t].payload.wallet] # Null
  <2>1. txns[t].payload \in CallPayloads /\ wallets[txns[t].payload.wallet] # Null
    BY <1>3 DEF SharedInv, ParkedRows, Pending
  <2>2. txns[t].payload.wallet \in Wallets
    BY <2>1, CallsAssumption DEF CallPayloads, OperationPayloads
  <2> QED BY <1>inv, <2>1, <2>2, WalletsStay
<1>4. ParkedRows'
  <2>1. CASE txns' = txns
    BY <1>3, <2>1 DEF ParkedRows, Pending
  <2>2. ASSUME NEW row \in Rows, txns' = Append(txns, row), ParkedNow(row)
        PROVE  ParkedRows'
    <3>1. /\ \A t \in DOMAIN txns' : t \in DOMAIN txns \/ t = Len(txns) + 1
          /\ \A t \in DOMAIN txns : txns'[t] = txns[t]
          /\ txns'[Len(txns) + 1] = row
      BY <1>inv, <2>2, RowsNumbered, AppendProperties, LenProperties
    <3> QED BY <1>3, <2>2, <3>1 DEF ParkedRows, Pending, ParkedNow
  <2> QED BY <1>inv, <2>1, <2>2, RowsAppended
<1> QED BY <1>1, <1>2, <1>4 DEF SharedInv

(* New rows get free locks and fresh columns, the others keep theirs.      *)
LEMMA RowsExtended ==
  ASSUME TypeInv, WorkerTypes, ExtendRows,
         txns' = txns \/ \E row \in Rows : txns' = Append(txns, row)
  PROVE  /\ DOMAIN txns \subseteq DOMAIN txns'
         /\ meta' \in [DOMAIN txns' -> MetaRecords]
         /\ rowLock' \in [DOMAIN txns' -> Workers \cup {Null}]
         /\ \A t \in DOMAIN txns : meta'[t] = meta[t] /\ rowLock'[t] = rowLock[t]
         /\ \A t \in DOMAIN txns' \ DOMAIN txns : meta'[t] = FreshMeta /\ rowLock'[t] = Null
<1>1. /\ txns \in Seq(Rows) /\ DOMAIN txns = 1 .. Len(txns) /\ Len(txns) \in Nat
      /\ meta \in [1 .. Len(txns) -> MetaRecords]
      /\ rowLock \in [1 .. Len(txns) -> Workers \cup {Null}]
  BY RowsNumbered DEF WorkerTypes
<1>2. CASE txns' = txns
  BY <1>1, <1>2 DEF ExtendRows
<1>3. ASSUME NEW row \in Rows, txns' = Append(txns, row)
      PROVE  /\ DOMAIN txns \subseteq DOMAIN txns'
             /\ meta' \in [DOMAIN txns' -> MetaRecords]
             /\ rowLock' \in [DOMAIN txns' -> Workers \cup {Null}]
             /\ \A t \in DOMAIN txns : meta'[t] = meta[t] /\ rowLock'[t] = rowLock[t]
             /\ \A t \in DOMAIN txns' \ DOMAIN txns : meta'[t] = FreshMeta /\ rowLock'[t] = Null
  <2>1. DOMAIN txns' = 1 .. Len(txns) + 1 /\ Len(txns') = Len(txns) + 1
    BY <1>1, <1>3, Appended
  <2>2. meta' = Append(meta, FreshMeta) /\ rowLock' = Append(rowLock, Null)
    BY <1>1, <2>1 DEF ExtendRows
  <2>3. FreshMeta \in MetaRecords
    BY WorkersAssumption DEF FreshMeta, MetaRecords
  <2>4. meta \in Seq(MetaRecords) /\ rowLock \in Seq(Workers \cup {Null})
        /\ Len(meta) = Len(txns) /\ Len(rowLock) = Len(txns)
    BY <1>1
  <2>5. /\ meta' \in [1 .. Len(txns) + 1 -> MetaRecords]
        /\ \A t \in 1 .. Len(txns) : meta'[t] = meta[t]
        /\ meta'[Len(txns) + 1] = FreshMeta
    BY <2>2, <2>3, <2>4, Appended
  <2>6. /\ rowLock' \in [1 .. Len(txns) + 1 -> Workers \cup {Null}]
        /\ \A t \in 1 .. Len(txns) : rowLock'[t] = rowLock[t]
        /\ rowLock'[Len(txns) + 1] = Null
    BY <2>2, <2>4, Appended
  <2> QED BY <1>1, <2>1, <2>5, <2>6
<1> QED BY <1>2, <1>3

-------------------------------------------------------------------------------
(* What a step must leave alone for a worker not to notice it              *)

Undisturbed(k) ==
  /\ step'[k] = step[k] /\ current'[k] = current[k] /\ held'[k] = held[k]
  /\ \A t \in DOMAIN txns : t \in DOMAIN txns'
  /\ \A t \in DOMAIN txns' : rowLock'[t] = k <=> t \in DOMAIN txns /\ rowLock[t] = k
  /\ \A t \in DOMAIN txns :
       rowLock[t] = k \/ txns[t].status = "PROCESSED" => txns'[t] = txns[t]
  /\ \A w \in Wallets :
       lock[w] = k /\ wallets[w] # Null => lock'[w] = k /\ wallets'[w] = wallets[w]

(* The row a worker holds, and its wallet.                                 *)
LEMMA WorkerHolds ==
  ASSUME PendingInv, NEW k \in Workers, step[k] \in RowSteps
  PROVE  LET t == current[k]
             p == txns[t].payload
         IN  /\ t \in DOMAIN txns /\ rowLock[t] = k
             /\ txns[t] \in Rows /\ txns[t].status = "PENDING_REFERENCE"
             /\ p \in OperationPayloads /\ p \in CallPayloads
             /\ p.wallet \in Wallets /\ p.amount \in Nat \ {0} /\ p.kind \in ProviderKinds
             /\ wallets[p.wallet] \in WalletRecords
<1> DEFINE t == current[k]
           p == txns[t].payload
<1>1. t \in DOMAIN txns /\ rowLock[t] = k /\ Pending(t)
  BY DEF PendingInv, WorkerOK, HoldsRow, WorksOn
<1>2. p \in CallPayloads /\ wallets[p.wallet] # Null
  BY <1>1 DEF PendingInv, SharedInv, ParkedRows
<1>3. p \in OperationPayloads
  BY <1>2, CallsAssumption DEF CallPayloads
<1>4. txns[t] \in Rows /\ wallets \in [Wallets -> WalletRecords \cup {Null}]
  BY <1>1, ElementOfSeq, RowsNumbered
     DEF PendingInv, SharedInv, EffectsInv, UniqueInv, LedgerInv, TypeInv, TablesTypeOK
<1> QED BY <1>1, <1>2, <1>3, <1>4 DEF Pending, OperationPayloads

LEMMA UndisturbedOK ==
  ASSUME PendingInv, NEW k \in Workers, Undisturbed(k)
  PROVE  WorkerOK(k)'
<1> DEFINE t == current[k]
           p == txns[t].payload
           o == held[k].draft
<1>1. WorkerOK(k)
  BY DEF PendingInv
<1>2. HoldsRow(k)'
  BY <1>1 DEF WorkerOK, WorksOn, HoldsRow, Undisturbed
<1>3. CASE step[k] \notin RowSteps
  BY <1>1, <1>2, <1>3 DEF WorkerOK, WorksOn, Undisturbed, RowSteps, WalletSteps
<1>4. CASE step[k] \in RowSteps
  <2>1. /\ t \in DOMAIN txns /\ rowLock[t] = k
        /\ p.wallet \in Wallets /\ wallets[p.wallet] # Null
    BY <1>4, WorkerHolds, NamesAssumption
  <2>2. txns'[t] = txns[t] /\ t \in DOMAIN txns' /\ current'[k] = t
    BY <2>1 DEF Undisturbed
  <2>3. WorksOn(k, current[k], txns[current[k]].payload.wallet)'
    BY <1>1, <2>1, <2>2 DEF WorkerOK, WorksOn, Undisturbed, Pending, RowSteps, WalletSteps
  <2>4. ASSUME step[k] = "flush" PROVE Decides(o, held[k].copy, p)'
    <3>1. Decides(o, held[k].copy, p)
      BY <1>1, <2>4 DEF WorkerOK
    <3>2. /\ Decision(o, held[k].copy, p) /\ Settles(o, held[k].copy, p) /\ Moves(o, p)
          /\ o.status = "PROCESSED" /\ p.kind \in Reversals =>
               o.ref \in DOMAIN txns /\ Undoes(txns[o.ref], p, o.move)
      BY <3>1 DEF Decides
    <3>3. o.status = "PROCESSED" /\ p.kind \in Reversals =>
            o.ref \in DOMAIN txns' /\ txns'[o.ref] = txns[o.ref]
      BY <3>2 DEF Undoes, Undisturbed
    <3>4. held'[k] = held[k]
      BY DEF Undisturbed
    <3> QED BY <2>2, <3>2, <3>3, <3>4 DEF Decides
  <2> QED BY <1>2, <2>2, <2>3, <2>4 DEF WorkerOK, Undisturbed
<1> QED BY <1>3, <1>4

(* A session or a new wallet disturbs no worker.                           *)
LEMMA ServiceStepOK ==
  ASSUME PendingInv, CreateWalletStep \/ \E s \in Sessions : SessionStep(s)
  PROVE  PendingInv'
<1>inv. /\ SharedInv /\ WorkerTypes /\ TypeInv /\ LocksInv /\ \A k \in Workers : WorkerOK(k)
  BY DEF PendingInv, SharedInv, EffectsInv, UniqueInv, LedgerInv
<1>1. Next /\ ExtendRows /\ UNCHANGED workerVars
  BY DEF CreateWalletStep, SessionStep, Next
<1>2. SharedInv'
  BY <1>inv, <1>1, ServiceKeepsShared
<1>3. /\ \A t \in DOMAIN txns : t \in DOMAIN txns' /\ txns'[t] = txns[t]
      /\ txns' = txns \/ \E row \in Rows : txns' = Append(txns, row)
  BY <1>inv, <1>1, RowsAreKept, RowsAppended
<1>4. /\ meta' \in [DOMAIN txns' -> MetaRecords]
      /\ rowLock' \in [DOMAIN txns' -> Workers \cup {Null}]
      /\ \A t \in DOMAIN txns : rowLock'[t] = rowLock[t]
      /\ \A t \in DOMAIN txns' \ DOMAIN txns : rowLock'[t] = Null
  BY <1>inv, <1>1, <1>3, RowsExtended
<1>5. ASSUME NEW w \in Wallets
      PROVE  /\ \/ lock'[w] = lock[w]
                \/ lock[w] \in Sessions /\ lock'[w] = Null
                \/ lock[w] = Null /\ lock'[w] \in Sessions
             /\ lock[w] \in Workers /\ wallets[w] # Null => wallets'[w] = wallets[w]
  <2>1. ASSUME NEW v \in Wallets, NEW player \in Players, NEW currency \in Currencies,
               NEW amount \in Openings, CreateWallet(v, player, currency, amount)
        PROVE  lock'[w] = lock[w] /\ (wallets[w] # Null => wallets'[w] = wallets[w])
    BY <1>inv, <2>1 DEF CreateWallet, TypeInv, TablesTypeOK
  <2>2. ASSUME NEW s \in Sessions, Session(s), ~Commit(s) PROVE wallets' = wallets
    BY <1>inv, <2>2, SessionKeepsLocks
  <2>3. ASSUME NEW s \in Sessions, Commit(s), lock[w] \in Workers
        PROVE  wallets'[w] = wallets[w]
    <3>1. lock[call[s].payload.wallet] = s
      BY <1>inv, <2>3 DEF LocksInv, HoldsWallet, Commit, LockedSteps
    <3>2. call[s].payload.wallet # w
      BY <2>3, <3>1, WorkersAssumption
    <3> QED BY <1>inv, <2>3, <3>2 DEF Commit, TypeInv, TablesTypeOK
  <2>4. ASSUME NEW s \in Sessions, Session(s)
        PROVE  /\ \/ lock'[w] = lock[w]
                  \/ lock[w] \in Sessions /\ lock'[w] = Null
                  \/ lock[w] = Null /\ lock'[w] \in Sessions
               /\ lock[w] \in Workers => wallets'[w] = wallets[w]
    BY <1>inv, <2>2, <2>3, <2>4, SessionLocks
  <2> QED BY <2>1, <2>4 DEF CreateWalletStep, SessionStep
<1>6. WorkerTypes'
  <2>1. lock' = [w \in Wallets |-> lock'[w]]
    BY <1>2 DEF SharedInv, EffectsInv, UniqueInv, LedgerInv, TypeInv, LocksOK
  <2>2. lock' \in [Wallets -> Parties \cup {Null}]
    <3>1. \A w \in Wallets : lock'[w] \in Parties \cup {Null}
      BY <1>inv, <1>5 DEF WorkerTypes, Parties
    <3> QED BY <2>1, <3>1
  <2>3. batch' \in [Workers -> SUBSET [tx : DOMAIN txns', count : 1 .. MaxRefAttempts]]
    BY <1>inv, <1>1, <1>3 DEF WorkerTypes, workerVars
  <2>4. current' \in [Workers -> {NoTx} \cup DOMAIN txns']
    BY <1>inv, <1>1, <1>3 DEF WorkerTypes, workerVars
  <2> QED BY <1>inv, <1>1, <1>4, <2>2, <2>3, <2>4 DEF WorkerTypes, workerVars
<1>7. ASSUME NEW k \in Workers PROVE WorkerOK(k)'
  <2>1. Undisturbed(k)
    BY <1>1, <1>3, <1>4, <1>5, NamesAssumption, WorkersAssumption DEF Undisturbed, workerVars
  <2> QED BY <2>1, UndisturbedOK
<1> QED BY <1>2, <1>6, <1>7 DEF PendingInv

(* So does the end of an attempt that PostgreSQL ended as a deadlock.      *)
LEMMA RetryStops ==
  ASSUME TypeInv, NEW s \in Sessions, Retry(s)
  PROVE  /\ \A x \in Sessions \ {s} :
              /\ pc'[x] = pc[x] /\ call'[x] = call[x]
              /\ copy'[x] = copy[x] /\ draft'[x] = draft[x]
         /\ pc'[s] \notin LockedSteps \cup WritingSteps
         /\ lock' = Released(s)
BY DEF Retry, Rollback, Finish, FirstStep, GoTo, TypeInv, SessionsTypeOK, LockedSteps, WritingSteps

LEMMA RetryKeepsShared ==
  ASSUME SharedInv, NEW s \in Sessions, pc[s] # "idle", Retry(s), UNCHANGED tables
  PROVE  SharedInv'
<1>inv. /\ TypeInv /\ LocksInv /\ WalletMatchesLedger /\ WritersInv /\ RowOrigins
        /\ OneRowPerOperation
  BY DEF SharedInv, EffectsInv, UniqueInv, LedgerInv
<1>0. UNCHANGED <<wallets, txns, ledger, inbox, outbox>>
  BY DEF tables
<1>1. TypeInv'
  BY <1>inv, <1>0, RetryOK DEF TypeInv, LocalInv, TablesTypeOK
<1>2. LocksInv'
  BY <1>inv, <1>0, RetryEnds, EndKeepsLocks
<1>3. /\ \A x \in Sessions \ {s} :
           /\ pc'[x] = pc[x] /\ call'[x] = call[x]
           /\ copy'[x] = copy[x] /\ draft'[x] = draft[x]
      /\ pc'[s] \notin LockedSteps \cup WritingSteps
  BY <1>inv, RetryStops
<1>4. WalletMatchesLedger' /\ RowOrigins' /\ OneRowPerOperation'
  BY <1>inv, <1>0 DEF WalletMatchesLedger, Chained, LastBalance, RowOrigins, FromClient,
                      FromOpening, OneRowPerOperation
<1>5. WritersInv'
  BY <1>inv, <1>0, <1>3 DEF WritersInv, WritingSteps, Duplicate, RowsWithKey, RowsWithExt
<1>6. DraftsInv' /\ SettledInv'
  BY <1>0, <1>3 DEF SharedInv, EffectsInv, DraftsInv, DraftMoves, SettledInv, LockedSteps
<1>7. /\ EntriesMatchRows' /\ DirectionsFollowKind' /\ ReversalsUndo'
      /\ ParkedRows' /\ ParkedUnlinked'
  <2>1. EntriesMatchRows' /\ DirectionsFollowKind' /\ ReversalsUndo'
    BY <1>0, EntriesStay DEF SharedInv, EffectsInv
  <2>2. ParkedRows'
    BY <1>0 DEF SharedInv, ParkedRows, Pending
  <2>3. ParkedUnlinked'
    BY <1>0 DEF SharedInv, EffectsInv, ParkedUnlinked
  <2> QED BY <2>1, <2>2, <2>3
<1> QED BY <1>1, <1>2, <1>4, <1>5, <1>6, <1>7 DEF SharedInv, EffectsInv, UniqueInv, LedgerInv

LEMMA SessionVictimOK ==
  ASSUME PendingInv, NEW s \in Sessions, SessionVictim(s)
  PROVE  PendingInv'
<1>inv. SharedInv /\ WorkerTypes /\ TypeInv
  BY DEF PendingInv, SharedInv, EffectsInv, UniqueInv, LedgerInv
<1>1. Retry(s) /\ UNCHANGED <<tables, meta, rowLock, workerVars>> /\ pc[s] # "idle"
  BY WorkersAssumption DEF SessionVictim, InCycle, WaitsFor
<1>2. SharedInv'
  BY <1>inv, <1>1, RetryKeepsShared
<1>3. lock' = Released(s) /\ UNCHANGED <<wallets, txns, step, batch, current, held>>
  BY <1>inv, <1>1, RetryStops DEF tables, workerVars
<1>4. WorkerTypes'
  BY <1>inv, <1>1, <1>3 DEF WorkerTypes, Released
<1>5. ASSUME NEW k \in Workers PROVE WorkerOK(k)'
  <2>1. \A w \in Wallets : lock[w] = k => lock'[w] = k
    BY <1>3, WorkersAssumption DEF Released
  <2>2. Undisturbed(k)
    BY <1>1, <1>3, <2>1 DEF Undisturbed
  <2> QED BY <2>2, UndisturbedOK
<1> QED BY <1>2, <1>4, <1>5 DEF PendingInv

(* Time touches the columns no transaction decides by.                     *)
LEMMA TimeOK ==
  ASSUME PendingInv,
         \E t \in DOMAIN txns : LeaseEnds(t) \/ BackoffEnds(t) \/ GrowsOld(t)
  PROVE  PendingInv'
<1>1. UNCHANGED <<vars, rowLock, workerVars>>
  BY DEF LeaseEnds, BackoffEnds, GrowsOld
<1>2. SharedInv'
  <2>1. [Next]_vars
    BY <1>1
  <2> QED BY <2>1, ServiceKeepsShared DEF PendingInv
<1>3. UNCHANGED <<wallets, txns, lock, step, batch, current, held>>
  BY <1>1 DEF vars, tables, workerVars
<1>4. meta' \in [DOMAIN txns -> MetaRecords]
  <2>1. meta \in [DOMAIN txns -> MetaRecords]
    BY DEF PendingInv, WorkerTypes
  <2>2. ASSUME NEW t \in DOMAIN txns, meta' = [meta EXCEPT ![t].leased = FALSE]
        PROVE  meta' \in [DOMAIN txns -> MetaRecords]
    BY <2>1, <2>2 DEF MetaRecords
  <2>3. ASSUME NEW t \in DOMAIN txns, meta' = [meta EXCEPT ![t].backoff = FALSE, ![t].due = TRUE]
        PROVE  meta' \in [DOMAIN txns -> MetaRecords]
    BY <2>1, <2>3 DEF MetaRecords
  <2>4. ASSUME NEW t \in DOMAIN txns, meta' = [meta EXCEPT ![t].old = TRUE]
        PROVE  meta' \in [DOMAIN txns -> MetaRecords]
    BY <2>1, <2>4 DEF MetaRecords
  <2> QED BY <2>2, <2>3, <2>4 DEF LeaseEnds, BackoffEnds, GrowsOld
<1>5. WorkerTypes'
  BY <1>1, <1>3, <1>4 DEF PendingInv, WorkerTypes
<1>6. ASSUME NEW k \in Workers PROVE WorkerOK(k)'
  <2>1. Undisturbed(k)
    BY <1>1, <1>3 DEF Undisturbed
  <2> QED BY <2>1, UndisturbedOK
<1> QED BY <1>2, <1>5, <1>6 DEF PendingInv

-------------------------------------------------------------------------------
(* The worker's statements                                                 *)

(* What a step of worker k leaves to the sessions and the other workers.   *)
WorkerFrame(k) ==
  /\ UNCHANGED <<pc, locals, answer>>
  /\ \A j \in Workers \ {k} :
       step'[j] = step[j] /\ current'[j] = current[j] /\ held'[j] = held[j]
  /\ DOMAIN txns' = DOMAIN txns
  /\ \A t \in DOMAIN txns : \A j \in Workers \ {k} : rowLock'[t] = j <=> rowLock[t] = j
  /\ \A w \in Wallets : \A a \in Parties \ {k} : lock[w] = a => lock'[w] = a

WorkerLocal(k) == WorkerFrame(k) /\ WorkerTypes' /\ WorkerOK(k)'

(* A transaction that ends gives back its locks.                           *)
LEMMA EndOK ==
  ASSUME WorkerTypes, NEW k \in Workers, (EndRow(k) /\ UNCHANGED batch) \/ Abort(k),
         DOMAIN txns' = DOMAIN txns, meta' \in [DOMAIN txns -> MetaRecords],
         UNCHANGED <<pc, locals, answer>>
  PROVE  WorkerLocal(k)
<1>1. PICK next \in {"idle", "next"} : step' = [step EXCEPT ![k] = next]
  BY DEF EndRow, Abort, Goto
<1>2. /\ current' = [current EXCEPT ![k] = NoTx] /\ held' = [held EXCEPT ![k] = NothingHeld]
      /\ lock' = [w \in Wallets |-> IF lock[w] = k THEN Null ELSE lock[w]]
      /\ rowLock' = [t \in DOMAIN txns |-> IF rowLock[t] = k THEN Null ELSE rowLock[t]]
  BY DEF EndRow, Abort, Released, WorkerTypes
<1>3. batch' = batch \/ batch' = [batch EXCEPT ![k] = {}]
  BY DEF Abort
<1>4. WorkerFrame(k)
  BY <1>1, <1>2, WorkersAssumption, NamesAssumption DEF WorkerFrame, WorkerTypes, Parties
<1>5. WorkerTypes'
  <2>1. step' \in [Workers -> WorkerSteps]
    BY <1>1 DEF WorkerTypes, WorkerSteps
  <2>2. current' \in [Workers -> {NoTx} \cup DOMAIN txns]
    BY <1>2 DEF WorkerTypes, NoTx
  <2>3. held' \in [Workers -> [copy : WalletRecords \cup {Null}, draft : Outcomes \cup {Null}]]
    BY <1>2 DEF WorkerTypes, NothingHeld
  <2>4. batch' \in [Workers -> SUBSET [tx : DOMAIN txns, count : 1 .. MaxRefAttempts]]
    BY <1>3 DEF WorkerTypes
  <2>5. lock' \in [Wallets -> Parties \cup {Null}] /\ rowLock' \in [DOMAIN txns -> Workers \cup {Null}]
    BY <1>2 DEF WorkerTypes
  <2> QED BY <2>1, <2>2, <2>3, <2>4, <2>5 DEF WorkerTypes
<1>6. WorkerOK(k)'
  <2>1. step'[k] \in {"idle", "next"}
    BY <1>1 DEF WorkerTypes
  <2>2. \A t \in DOMAIN txns' : rowLock'[t] # k
    BY <1>2, WorkersAssumption
  <2> QED BY <2>1, <2>2 DEF WorkerOK, HoldsRow, WorksOn, RowSteps, WalletSteps
<1> QED BY <1>4, <1>5, <1>6 DEF WorkerLocal

LEMMA ClaimOK ==
  ASSUME PendingInv, NEW k \in Workers, Claim(k)
  PROVE  WorkerLocal(k)
<1>1. /\ WorkerTypes /\ WorkerOK(k) /\ step[k] = "idle"
      /\ step' = [step EXCEPT ![k] = "next"]
      /\ UNCHANGED <<wallets, txns, lock, pc, locals, answer, rowLock, current, held>>
  BY DEF PendingInv, Claim, Goto, vars, tables
<1>2. \A t \in DOMAIN txns : meta[t].attempts \in 0 .. MaxRefAttempts
                             /\ Counted(meta[t].attempts) \in 1 .. MaxRefAttempts
  <2>1. \A t \in DOMAIN txns : meta[t].attempts \in 0 .. MaxRefAttempts
    BY <1>1 DEF WorkerTypes, MetaRecords
  <2> QED BY <2>1, WorkersAssumption DEF Counted
<1>3. meta' \in [DOMAIN txns -> MetaRecords]
  <2>1. ASSUME NEW t \in DOMAIN txns
        PROVE  [meta[t] EXCEPT !.attempts = Counted(@), !.leased = TRUE, !.due = FALSE,
                               !.backoff = TRUE] \in MetaRecords
    <3>1. meta[t] \in MetaRecords
      BY <1>1 DEF WorkerTypes
    <3>2. Counted(meta[t].attempts) \in 0 .. MaxRefAttempts
      BY <1>2
    <3> QED BY <3>1, <3>2 DEF MetaRecords
  <2> QED BY <1>1, <2>1 DEF Claim, WorkerTypes
<1>4. batch' \in [Workers -> SUBSET [tx : DOMAIN txns, count : 1 .. MaxRefAttempts]]
  <2> DEFINE C == {[tx |-> t, count |-> Counted(meta[t].attempts)] : t \in Claimable}
  <2>1. C \in SUBSET [tx : DOMAIN txns, count : 1 .. MaxRefAttempts]
    BY <1>2 DEF Claimable
  <2>2. batch' = [batch EXCEPT ![k] = C]
    BY DEF Claim
  <2> HIDE DEF C
  <2> QED BY <1>1, <2>1, <2>2 DEF WorkerTypes
<1>5. WorkerTypes'
  <2>1. step' \in [Workers -> WorkerSteps]
    BY <1>1 DEF WorkerTypes, WorkerSteps
  <2> QED BY <1>1, <1>3, <1>4, <2>1 DEF WorkerTypes
<1>6. WorkerOK(k)'
  BY <1>1 DEF WorkerTypes, WorkerOK, HoldsRow, WorksOn, RowSteps, WalletSteps
<1>7. WorkerFrame(k)
  BY <1>1 DEF WorkerFrame, WorkerTypes
<1> QED BY <1>5, <1>6, <1>7 DEF WorkerLocal

LEMMA NextRowOK ==
  ASSUME PendingInv, NEW k \in Workers, NextRow(k)
  PROVE  WorkerLocal(k)
<1>1. /\ WorkerTypes /\ WorkerOK(k) /\ step[k] = "next"
      /\ UNCHANGED <<wallets, txns, lock, pc, locals, answer, meta, rowLock, held>>
  BY DEF PendingInv, NextRow, vars, tables
<1>2. PICK r \in batch[k], next \in {"expire", "resolve"} :
        /\ batch'   = [batch EXCEPT ![k] = @ \ {r}]
        /\ current' = [current EXCEPT ![k] = r.tx]
        /\ step' = [step EXCEPT ![k] = next]
  BY DEF NextRow, Goto
<1>3. r.tx \in DOMAIN txns /\ r.tx \in Nat
  BY <1>1, RowsNumbered DEF WorkerTypes, PendingInv, SharedInv, EffectsInv, UniqueInv, LedgerInv
<1>4. WorkerTypes'
  <2>1. step' \in [Workers -> WorkerSteps]
    BY <1>1, <1>2 DEF WorkerTypes, WorkerSteps
  <2>2. current' \in [Workers -> {NoTx} \cup DOMAIN txns]
    BY <1>1, <1>2, <1>3 DEF WorkerTypes
  <2>3. batch' \in [Workers -> SUBSET [tx : DOMAIN txns, count : 1 .. MaxRefAttempts]]
    BY <1>1, <1>2 DEF WorkerTypes
  <2> QED BY <1>1, <2>1, <2>2, <2>3 DEF WorkerTypes
<1>5. WorkerOK(k)'
  BY <1>1, <1>2, <1>3 DEF WorkerTypes, WorkerOK, HoldsRow, WorksOn, RowSteps, WalletSteps
<1>6. WorkerFrame(k)
  BY <1>1, <1>2 DEF WorkerFrame, WorkerTypes
<1> QED BY <1>4, <1>5, <1>6 DEF WorkerLocal

LEMMA LockRowOK ==
  ASSUME PendingInv, NEW k \in Workers, LockRow(k)
  PROVE  WorkerLocal(k)
<1> DEFINE t == current[k]
<1>1. /\ WorkerTypes /\ WorkerOK(k) /\ step[k] \in {"resolve", "expire"}
      /\ UNCHANGED <<wallets, txns, pc, locals, answer, meta, batch>> /\ rowLock[t] = Null
  BY DEF PendingInv, LockRow, tables
<1>2. t \in DOMAIN txns
  BY <1>1 DEF WorkerOK, WorksOn
<1>3. CASE EndRow(k)
  BY <1>1, <1>3, EndOK DEF WorkerTypes
<1>4. ASSUME NEW next \in {"wallet", "read"}, Pending(t), rowLock' = [rowLock EXCEPT ![t] = k],
             step' = [step EXCEPT ![k] = next], UNCHANGED <<lock, current, held>>
      PROVE  WorkerLocal(k)
  <2>1. WorkerTypes'
    <3>1. step' \in [Workers -> WorkerSteps] /\ rowLock' \in [DOMAIN txns -> Workers \cup {Null}]
      BY <1>1, <1>4 DEF WorkerTypes, WorkerSteps
    <3> QED BY <1>1, <1>4, <3>1 DEF WorkerTypes
  <2>2. WorkerOK(k)'
    <3>1. step'[k] = next
      BY <1>1, <1>4 DEF WorkerTypes
    <3>2. HoldsRow(k)'
      BY <1>1, <1>2, <1>4, <3>1 DEF WorkerTypes, WorkerOK, HoldsRow, RowSteps
    <3>3. Pending(t)'
      BY <1>1, <1>4 DEF Pending
    <3> QED BY <1>1, <1>2, <1>4, <3>1, <3>2, <3>3 DEF WorkerOK, WorksOn, WalletSteps
  <2>3. WorkerFrame(k)
    BY <1>1, <1>2, <1>4, WorkersAssumption DEF WorkerFrame, WorkerTypes
  <2> QED BY <2>1, <2>2, <2>3 DEF WorkerLocal
<1> QED BY <1>3, <1>4 DEF LockRow, Goto, Pending

LEMMA LockPendingWalletOK ==
  ASSUME PendingInv, NEW k \in Workers, LockPendingWallet(k)
  PROVE  WorkerLocal(k)
<1> DEFINE t == current[k]
           w == txns[t].payload.wallet
<1>1. /\ WorkerTypes /\ WorkerOK(k) /\ step[k] = "wallet"
      /\ UNCHANGED <<wallets, txns, pc, locals, answer, meta, rowLock, batch, current>>
  BY DEF PendingInv, LockPendingWallet, tables
<1>2. t \in DOMAIN txns /\ w \in Wallets /\ wallets[w] \in WalletRecords /\ Pending(t)
  BY <1>1, WorkerHolds DEF RowSteps, Pending
<1>3. /\ lock[w] = Null /\ lock' = [lock EXCEPT ![w] = k]
      /\ held' = [held EXCEPT ![k].copy = wallets[w]]
      /\ step' = [step EXCEPT ![k] = "apply"]
  BY DEF LockPendingWallet, Goto
<1>4. /\ step'[k] = "apply" /\ held'[k].copy = wallets[w] /\ lock'[w] = k
      /\ current'[k] = t
  BY <1>1, <1>2, <1>3 DEF WorkerTypes
<1>5. WorkerTypes'
  <2>1. step' \in [Workers -> WorkerSteps] /\ lock' \in [Wallets -> Parties \cup {Null}]
    BY <1>1, <1>3 DEF WorkerTypes, WorkerSteps, Parties
  <2>2. held' \in [Workers -> [copy : WalletRecords \cup {Null}, draft : Outcomes \cup {Null}]]
    BY <1>1, <1>2, <1>3 DEF WorkerTypes
  <2> QED BY <1>1, <2>1, <2>2 DEF WorkerTypes
<1>6. WorkerOK(k)'
  <2>1. HoldsRow(k)'
    BY <1>1, <1>4 DEF WorkerOK, HoldsRow, RowSteps
  <2>2. WorksOn(k, current[k], txns[current[k]].payload.wallet)'
    BY <1>1, <1>2, <1>4 DEF WorksOn, Pending
  <2> QED BY <1>4, <2>1, <2>2 DEF WorkerOK
<1>7. WorkerFrame(k)
  BY <1>1, <1>2, <1>3, WorkersAssumption, NamesAssumption DEF WorkerFrame, WorkerTypes, Parties
<1> QED BY <1>5, <1>6, <1>7 DEF WorkerLocal

(* The rules decide about the row on the wallet the worker has locked.     *)
LEMMA ApplyPendingOK ==
  ASSUME PendingInv, NEW k \in Workers, ApplyPending(k)
  PROVE  WorkerLocal(k)
<1> DEFINE t == current[k]
           p == txns[t].payload
<1>1. /\ WorkerTypes /\ WorkerOK(k) /\ step[k] = "apply"
      /\ UNCHANGED <<wallets, txns, lock, pc, locals, answer, meta, rowLock, batch, current>>
  BY DEF PendingInv, ApplyPending, vars, tables
<1>2. /\ t \in DOMAIN txns /\ Pending(t) /\ p.wallet \in Wallets
      /\ p \in OperationPayloads /\ p.kind \in ProviderKinds
  BY <1>1, WorkerHolds DEF RowSteps, Pending
<1>3. lock[p.wallet] = k /\ held[k].copy = wallets[p.wallet] /\ held[k].copy \in WalletRecords
  BY <1>1 DEF WorkerOK, WorksOn, WalletSteps
<1>4. PICK o \in Apply(held[k].copy, txns, t, p) : held' = [held EXCEPT ![k].draft = o]
  BY DEF ApplyPending
<1>5. DOMAIN txns \subseteq Nat
  BY RowsNumbered DEF PendingInv, SharedInv, EffectsInv, UniqueInv, LedgerInv
<1>6. Decides(o, held[k].copy, p)
  BY <1>2, <1>3, <1>4, <1>5, ApplyDecides, ApplySettles, ApplyMoves DEF Decides
<1>7. step' = [step EXCEPT ![k] = "flush"] /\ o \in Outcomes
  BY <1>6 DEF ApplyPending, Goto, Decides, Decision
<1>8. /\ step'[k] = "flush" /\ held'[k].copy = held[k].copy /\ held'[k].draft = o
      /\ current'[k] = t
  BY <1>1, <1>4, <1>7 DEF WorkerTypes
<1>9. WorkerTypes'
  <2>1. step' \in [Workers -> WorkerSteps]
    BY <1>1, <1>7 DEF WorkerTypes, WorkerSteps
  <2>2. held' \in [Workers -> [copy : WalletRecords \cup {Null}, draft : Outcomes \cup {Null}]]
    BY <1>1, <1>4, <1>7 DEF WorkerTypes
  <2> QED BY <1>1, <2>1, <2>2 DEF WorkerTypes
<1>10. WorkerOK(k)'
  <2>1. HoldsRow(k)'
    BY <1>1, <1>8 DEF WorkerOK, HoldsRow, RowSteps
  <2>2. WorksOn(k, current[k], txns[current[k]].payload.wallet)'
    BY <1>1, <1>2, <1>3, <1>8 DEF WorksOn, Pending
  <2>3. Decides(held[k].draft, held[k].copy, txns[current[k]].payload)'
    <3>1. Decides(o, held[k].copy, p)'
      BY <1>1, <1>6, <1>8 DEF Decides
    <3> QED BY <1>8, <3>1
  <2> QED BY <2>1, <2>2, <2>3 DEF WorkerOK
<1>11. WorkerFrame(k)
  BY <1>1, <1>4, <1>7 DEF WorkerFrame, WorkerTypes
<1> QED BY <1>9, <1>10, <1>11 DEF WorkerLocal

LEMMA ReadWalletOK ==
  ASSUME PendingInv, NEW k \in Workers, ReadWallet(k)
  PROVE  WorkerLocal(k)
<1> DEFINE t == current[k]
           w == txns[t].payload.wallet
<1>1. /\ WorkerTypes /\ WorkerOK(k) /\ step[k] = "read"
      /\ UNCHANGED <<wallets, txns, lock, pc, locals, answer, meta, rowLock, batch, current>>
  BY DEF PendingInv, ReadWallet, vars, tables
<1>2. t \in DOMAIN txns /\ wallets[w] \in WalletRecords /\ Pending(t)
  BY <1>1, WorkerHolds DEF RowSteps, Pending
<1>3. /\ held' = [held EXCEPT ![k].copy = wallets[w]]
      /\ step' = [step EXCEPT ![k] = "reject"]
  BY DEF ReadWallet, Goto
<1>4. step'[k] = "reject" /\ held'[k].copy = wallets[w] /\ current'[k] = t
  BY <1>1, <1>3 DEF WorkerTypes
<1>5. WorkerTypes'
  <2>1. step' \in [Workers -> WorkerSteps]
    BY <1>1, <1>3 DEF WorkerTypes, WorkerSteps
  <2>2. held' \in [Workers -> [copy : WalletRecords \cup {Null}, draft : Outcomes \cup {Null}]]
    BY <1>1, <1>2, <1>3 DEF WorkerTypes
  <2> QED BY <1>1, <2>1, <2>2 DEF WorkerTypes
<1>6. WorkerOK(k)'
  <2>1. HoldsRow(k)'
    BY <1>1, <1>4 DEF WorkerOK, HoldsRow, RowSteps
  <2>2. WorksOn(k, current[k], txns[current[k]].payload.wallet)'
    BY <1>1, <1>2, <1>4 DEF WorksOn, Pending, WalletSteps
  <2> QED BY <1>4, <2>1, <2>2 DEF WorkerOK
<1>7. WorkerFrame(k)
  BY <1>1, <1>3 DEF WorkerFrame, WorkerTypes
<1> QED BY <1>5, <1>6, <1>7 DEF WorkerLocal

(* Whatever the outcome, the row's lease is dropped and it is due.         *)
LEMMA MetaReset ==
  ASSUME NEW D, NEW m \in [D -> MetaRecords], NEW t
  PROVE  [m EXCEPT ![t].leased = FALSE, ![t].due = TRUE] \in [D -> MetaRecords]
<1> DEFINE half == [m EXCEPT ![t].leased = FALSE]
<1>1. half \in [D -> MetaRecords]
  BY DEF MetaRecords
<1> HIDE DEF half
<1>2. [half EXCEPT ![t].due = TRUE] \in [D -> MetaRecords]
  BY <1>1 DEF MetaRecords
<1> QED BY <1>2 DEF half

(* The transactions that end without settling the row.                     *)
Leaves(k) ==
  \/ StillPending(k) \/ ResolveConflict(k) \/ WorkerVictim(k) \/ WorkerCrash(k)

LEMMA LeavesOK ==
  ASSUME PendingInv, NEW k \in Workers, Leaves(k)
  PROVE  WorkerLocal(k) /\ UNCHANGED tables
<1>1. /\ UNCHANGED <<tables, pc, locals, answer>>
      /\ (EndRow(k) /\ UNCHANGED batch) \/ Abort(k)
      /\ meta' = meta \/ meta' = [meta EXCEPT ![current[k]].leased = FALSE, ![current[k]].due = TRUE]
  BY DEF Leaves, StillPending, ResolveConflict, WorkerVictim, WorkerCrash
<1>2. WorkerTypes /\ meta \in [DOMAIN txns -> MetaRecords]
  BY DEF PendingInv, WorkerTypes
<1>3. meta' \in [DOMAIN txns -> MetaRecords]
  BY <1>1, <1>2, MetaReset
<1>4. DOMAIN txns' = DOMAIN txns
  BY <1>1 DEF tables
<1> QED BY <1>1, <1>2, <1>3, <1>4, EndOK

-------------------------------------------------------------------------------
(* Settling a row                                                          *)

(* A parked row becomes final, the others and every key and payload stay.  *)
KeepsRows ==
  /\ DOMAIN txns' = DOMAIN txns
  /\ \A i \in DOMAIN txns :
       /\ txns'[i].key = txns[i].key /\ txns'[i].payload = txns[i].payload
       /\ ~Pending(i) \/ Pending(i)' => txns'[i] = txns[i]

LeavesSessions ==
  /\ UNCHANGED <<pc, locals, answer>> /\ LocksOK'
  /\ \A w \in Wallets :
       /\ wallets[w] # Null => wallets'[w] # Null
       /\ lock[w] \in Sessions => lock'[w] = lock[w] /\ wallets'[w] = wallets[w]

LEMMA SharedFrame ==
  ASSUME SharedInv, TablesTypeOK', KeepsRows, LeavesSessions, WalletMatchesLedger',
         (EntriesMatchRows /\ DirectionsFollowKind /\ ReversalsUndo)'
  PROVE  SharedInv'
<1>inv. /\ TypeInv /\ LocksInv /\ WritersInv /\ RowOrigins /\ OneRowPerOperation
        /\ DraftsInv /\ SettledInv /\ ParkedRows /\ ParkedUnlinked
  BY DEF SharedInv, EffectsInv, UniqueInv, LedgerInv
<1>0. /\ UNCHANGED <<pc, call, copy, draft, locals, answer>>
      /\ DOMAIN txns' = DOMAIN txns
      /\ \A i \in DOMAIN txns :
           /\ txns'[i].key = txns[i].key /\ txns'[i].payload = txns[i].payload
           /\ ~Pending(i) \/ Pending(i)' => txns'[i] = txns[i]
  BY DEF LeavesSessions, KeepsRows, locals
<1>1. TypeInv'
  <2>1. SessionsTypeOK'
    BY <1>inv, <1>0 DEF TypeInv, SessionsTypeOK, locals
  <2>2. \A s \in Sessions : SessionOK(s)'
    BY <1>inv, <1>0 DEF TypeInv, SessionOK
  <2> QED BY <2>1, <2>2 DEF TypeInv, LeavesSessions
<1>2. LocksInv'
  <2> SUFFICES ASSUME NEW s \in Sessions PROVE (HoldsWallet(s) /\ DraftFits(s))'
    BY DEF LocksInv
  <2>1. HoldsWallet(s) /\ DraftFits(s)
    BY <1>inv DEF LocksInv
  <2>2. HoldsWallet(s)'
    BY <1>inv, <1>0, <2>1, HeldWallet DEF HoldsWallet, LeavesSessions
  <2>3. DraftFits(s)'
    BY <1>0, <2>1 DEF DraftFits
  <2> QED BY <2>2, <2>3
<1>3. WritersInv'
  <2>1. \A c : Duplicate(c)' => Duplicate(c)
    BY <1>0 DEF Duplicate, RowsWithKey, RowsWithExt
  <2> QED BY <1>inv, <1>0, <2>1 DEF WritersInv, WritingSteps, Duplicate, RowsWithKey, RowsWithExt
<1>4. RowOrigins'
  BY <1>inv, <1>0 DEF RowOrigins, FromClient, FromOpening, LeavesSessions
<1>5. OneRowPerOperation'
  BY <1>inv, <1>0 DEF OneRowPerOperation
<1>6. DraftsInv'
  <2> SUFFICES ASSUME NEW s \in Sessions PROVE DraftMoves(s)'
    BY DEF DraftsInv
  <2>1. DraftMoves(s)
    BY <1>inv DEF DraftsInv
  <2> QED BY <1>0, <2>1 DEF DraftMoves, Undoes, Pending
<1>7. SettledInv'
  BY <1>inv, <1>0 DEF SettledInv
<1>8. ParkedRows'
  <2> SUFFICES ASSUME NEW t \in DOMAIN txns, Pending(t)'
               PROVE  txns[t].payload \in CallPayloads /\ wallets'[txns[t].payload.wallet] # Null
    BY <1>0 DEF ParkedRows
  <2>1. Pending(t)
    BY <1>0 DEF Pending
  <2>2. txns[t].payload \in CallPayloads /\ wallets[txns[t].payload.wallet] # Null
    BY <1>inv, <2>1 DEF ParkedRows
  <2>3. txns[t].payload.wallet \in Wallets
    BY <2>2, CallsAssumption DEF CallPayloads, OperationPayloads
  <2> QED BY <2>2, <2>3 DEF LeavesSessions
<1>9. ParkedUnlinked'
  BY <1>inv, <1>0 DEF ParkedUnlinked, Pending
<1> QED BY <1>1, <1>2, <1>3, <1>4, <1>5, <1>6, <1>7, <1>8, <1>9
        DEF SharedInv, EffectsInv, UniqueInv, LedgerInv

(* The parked row t takes the outcome o, decided on its stored wallet.     *)
Settlement(t, o) ==
  LET p == txns[t].payload IN
  /\ t \in DOMAIN txns /\ Pending(t) /\ o.status # "PENDING_REFERENCE"
  /\ Decides(o, wallets[p.wallet], p)
  /\ ~ReferenceKindTaken(o.ref, p.kind, o.status)
  /\ Writes(p.wallet, t, p.amount, wallets[p.wallet], o)
  /\ txns' = [txns EXCEPT ![t] = Row(@.key, p, o)]
  /\ outbox' \in Seq(EventRecords)
  /\ UNCHANGED inbox

LEMMA SettlementStores ==
  ASSUME SharedInv, NEW t, NEW o, Settlement(t, o)
  PROVE  LET p == txns[t].payload
             row == Row(txns[t].key, p, o)
         IN  /\ row \in Rows /\ KeepsRows
             /\ \E e : /\ Stores(t, row, p.wallet, e)
                       /\ Reverses(row) => FirstReversal(row, e.direction)
<1> DEFINE p == txns[t].payload
           row == Row(txns[t].key, p, o)
           e == Entry(t, o.move, p.amount, wallets[p.wallet].balance, o.wallet.balance)
<1>inv. TypeInv /\ ParkedRows
  BY DEF SharedInv, EffectsInv, UniqueInv, LedgerInv
<1>1. /\ t \in DOMAIN txns /\ txns[t].status = "PENDING_REFERENCE" /\ t \in Nat \ {0}
      /\ txns[t] \in Rows /\ txns \in Seq(Rows)
  BY <1>inv, RowsNumbered, ElementOfSeq DEF Settlement, Pending
<1>2. /\ p \in CallPayloads /\ p \in OperationPayloads /\ p.wallet \in Wallets
      /\ p.amount \in Nat \ {0} /\ p.kind \in ProviderKinds
  BY <1>inv, <1>1, CallsAssumption DEF ParkedRows, Pending, CallPayloads, OperationPayloads
<1>3. /\ o \in Outcomes /\ o.ref \in Nat /\ Moves(o, p) /\ o.status # "PENDING_REFERENCE"
      /\ o.status = "PROCESSED" /\ p.kind \in Reversals =>
           o.ref \in DOMAIN txns /\ Undoes(txns[o.ref], p, o.move)
      /\ wallets[p.wallet] \in WalletRecords
      /\ WriteLedger(p.wallet, t, p.amount, wallets[p.wallet].balance, o)
      /\ ~ReferenceKindTaken(o.ref, p.kind, o.status)
      /\ txns' = [txns EXCEPT ![t] = row]
  BY DEF Settlement, Decides, Decision, Writes
<1>4. /\ row \in Rows /\ row.payload = p /\ row.status = o.status /\ row.key = txns[t].key
      /\ row.observed = o.observed /\ row.failure = o.failure /\ row.ref = o.ref
  BY <1>1, <1>2, <1>3 DEF Row, Rows, Outcomes, Payloads
<1>5. /\ e.tx = t /\ e.amount = p.amount /\ e.after = o.wallet.balance
      /\ e.direction = o.move
      /\ o.move # NoMove => e \in Entries
  BY <1>1, <1>2, <1>3 DEF Entry, Entries, Outcomes, WalletRecords
<1>6. ledger' = IF o.move = NoMove THEN ledger
                ELSE [ledger EXCEPT ![p.wallet] = Append(ledger[p.wallet], e)]
  BY <1>3 DEF WriteLedger
<1>7. p.kind # "OPENING"
  BY <1>2 DEF ProviderKinds
<1> HIDE DEF row, e
<1>8. KeepsRows
  BY <1>1, <1>3, <1>4 DEF KeepsRows, Pending
<1>9. Stores(t, row, p.wallet, e)
  <2>1. MovesMoney(row.status, row.payload) <=> o.move # NoMove
    BY <1>3, <1>4 DEF Moves, MovesMoney
  <2>2. CASE o.move # NoMove
    <3>1. KindMoves(row.payload.kind, e.direction) /\ e.after = row.observed
      BY <1>3, <1>4, <1>5, <2>1, <2>2 DEF Moves, MovesMoney
    <3> QED BY <1>1, <1>3, <1>4, <1>5, <1>6, <1>7, <2>1, <2>2, <3>1 DEF Stores
  <2>3. CASE o.move = NoMove
    <3>1. row.failure \in FundsCodes => row.observed < row.payload.amount
      BY <1>3, <1>4 DEF Moves
    <3> QED BY <1>1, <1>3, <1>4, <1>6, <1>7, <2>1, <2>3, <3>1 DEF Stores
  <2> QED BY <2>2, <2>3
<1>10. ASSUME Reverses(row) PROVE FirstReversal(row, e.direction)
  <2>1. o.status = "PROCESSED" /\ p.kind \in Reversals
    BY <1>4, <1>10 DEF Reverses
  <2>2. o.ref \in DOMAIN txns /\ Undoes(txns[o.ref], p, o.move)
    BY <1>3, <2>1
  <2>3. o.ref # NoTx
    BY <1>inv, <2>2, RowsNumbered DEF NoTx
  <2>4. \A u \in DOMAIN txns : ~ /\ txns[u].ref = o.ref
                                 /\ txns[u].status = "PROCESSED"
                                 /\ txns[u].payload.kind = p.kind
    BY <1>3, <2>1, <2>3 DEF ReferenceKindTaken, ActiveStatus
  <2> QED BY <1>4, <1>5, <2>2, <2>4 DEF FirstReversal
<1> QED BY <1>4, <1>8, <1>9, <1>10 DEF row

LEMMA SettlementKeepsShared ==
  ASSUME SharedInv, NEW t, NEW o, Settlement(t, o),
         UNCHANGED <<pc, locals, answer>>, LocksOK',
         \A w \in Wallets : lock[w] \in Sessions => lock'[w] = lock[w] /\ wallets'[w] = wallets[w]
  PROVE  SharedInv'
<1> DEFINE p == txns[t].payload
           row == Row(txns[t].key, p, o)
<1>inv. TypeInv /\ EffectsInv /\ UniqueInv /\ WalletMatchesLedger
  BY DEF SharedInv, EffectsInv, UniqueInv, LedgerInv
<1>1. Writes(p.wallet, t, p.amount, wallets[p.wallet], o)
  BY DEF Settlement
<1>2. /\ row \in Rows /\ KeepsRows
      /\ \E e : /\ Stores(t, row, p.wallet, e)
                /\ Reverses(row) => FirstReversal(row, e.direction)
  BY SettlementStores
<1>3. /\ p.wallet \in Wallets /\ o.wallet \in WalletRecords /\ o.wallet # Null
      /\ wallets' = [wallets EXCEPT ![p.wallet] = o.wallet]
  BY <1>1, NamesAssumption DEF Writes, Outcomes
<1>4. TablesTypeOK'
  <2>1. wallets' \in [Wallets -> WalletRecords \cup {Null}]
    BY <1>inv, <1>3 DEF TypeInv, TablesTypeOK
  <2>2. txns' \in Seq(Rows)
    <3>1. txns' = [txns EXCEPT ![t] = row] /\ t \in DOMAIN txns
      BY DEF Settlement
    <3> HIDE DEF row
    <3> QED BY <1>inv, <1>2, <3>1, RowsNumbered, ExceptSeq
  <2>3. ledger' \in [Wallets -> Seq(Entries)]
    <3>1. /\ WriteLedger(p.wallet, t, p.amount, wallets[p.wallet].balance, o)
          /\ t \in Nat \ {0} /\ p.amount \in Nat \ {0} /\ o \in Outcomes
          /\ wallets[p.wallet].balance \in Nat
      BY <1>1 DEF Writes, WalletRecords
    <3> QED BY <1>inv, <1>3, <3>1, WriteLedgerOK
  <2> QED BY <1>inv, <2>1, <2>2, <2>3 DEF Settlement, TypeInv, TablesTypeOK
<1>5. LeavesSessions
  BY <1>inv, <1>3 DEF LeavesSessions, TypeInv, TablesTypeOK
<1>6. WalletMatchesLedger'
  BY <1>inv, <1>1, WritesKeepLedger
<1>7. (EntriesMatchRows /\ DirectionsFollowKind /\ ReversalsUndo)'
  <2>1. PICK e : Stores(t, row, p.wallet, e) /\ (Reverses(row) => FirstReversal(row, e.direction))
    BY <1>2
  <2> HIDE DEF row, p
  <2> QED BY <1>inv, <1>2, <1>3, <2>1, StoresKeepsEntries, StoresKeepsReversals DEF EffectsInv
<1> QED BY <1>2, <1>4, <1>5, <1>6, <1>7, SharedFrame

(* What a settling step of worker k does to its row, and to its locks.     *)
LEMMA SettleOK ==
  ASSUME PendingInv, NEW k \in Workers, NEW o \in Outcomes, Settle(k, o),
         step[k] \in RowSteps
  PROVE  /\ WorkerLocal(k)
         /\ outbox' \in Seq(EventRecords)
<1> DEFINE t == current[k]
           p == txns[t].payload
<1>1. /\ WorkerTypes /\ TypeInv /\ t \in DOMAIN txns /\ t \in Nat \ {0} /\ p.wallet \in Wallets
  <2>1. WorkerTypes /\ TypeInv
    BY DEF PendingInv, SharedInv, EffectsInv, UniqueInv, LedgerInv
  <2>2. t \in DOMAIN txns /\ p.wallet \in Wallets
    BY WorkerHolds
  <2> QED BY <2>1, <2>2, RowsNumbered
<1>2. /\ EndRow(k) /\ UNCHANGED <<pc, locals, answer, batch>>
      /\ txns' = [txns EXCEPT ![t] = Row(@.key, p, o)]
      /\ outbox' = outbox \o Events(t, p.kind, p.wallet, o)
      /\ meta' = [meta EXCEPT ![t].leased = FALSE, ![t].due = TRUE]
  BY DEF Settle
<1>3. meta' \in [DOMAIN txns -> MetaRecords]
  BY <1>1, <1>2, MetaReset DEF WorkerTypes
<1>4. DOMAIN txns' = DOMAIN txns
  BY <1>2
<1>5. WorkerLocal(k)
  BY <1>1, <1>2, <1>3, <1>4, EndOK
<1>6. outbox' \in Seq(EventRecords)
  <2>1. Events(t, p.kind, p.wallet, o) \in Seq(EventRecords)
    BY <1>1, EventsOK
  <2> QED BY <1>1, <1>2, <2>1, ConcatProperties DEF TypeInv, TablesTypeOK
<1> QED BY <1>5, <1>6

(* A resolution settles the row with what the rules decided, ...           *)
LEMMA ResolveSettles ==
  ASSUME PendingInv, NEW k \in Workers, Resolve(k)
  PROVE  /\ Settlement(current[k], held[k].draft) /\ WorkerLocal(k)
         /\ lock[txns[current[k]].payload.wallet] = k
<1> DEFINE t == current[k]
           p == txns[t].payload
           o == held[k].draft
<1>1. /\ step[k] = "flush" /\ o.status # "PENDING_REFERENCE"
      /\ ~ReferenceKindTaken(o.ref, p.kind, o.status)
      /\ wallets' = [wallets EXCEPT ![p.wallet] = o.wallet]
      /\ WriteLedger(p.wallet, t, p.amount, held[k].copy.balance, o)
      /\ Settle(k, o)
  BY DEF Resolve
<1>2. WorkerOK(k) /\ TypeInv
  BY DEF PendingInv, SharedInv, EffectsInv, UniqueInv, LedgerInv
<1>3. /\ lock[p.wallet] = k /\ held[k].copy = wallets[p.wallet]
      /\ Decides(o, held[k].copy, p)
  BY <1>1, <1>2 DEF WorkerOK, WorksOn, WalletSteps
<1>4. /\ t \in DOMAIN txns /\ txns[t].status = "PENDING_REFERENCE" /\ p.wallet \in Wallets
      /\ p.amount \in Nat \ {0} /\ wallets[p.wallet] \in WalletRecords
  BY <1>1, WorkerHolds DEF RowSteps
<1>5. t \in Nat \ {0}
  BY <1>2, <1>4, RowsNumbered
<1>6. o \in Outcomes /\ Fits(o, wallets[p.wallet], p.amount)
  BY <1>3 DEF Decides, Decision
<1>7. WorkerLocal(k) /\ outbox' \in Seq(EventRecords)
  BY <1>1, <1>6, SettleOK DEF RowSteps
<1>8. Writes(p.wallet, t, p.amount, wallets[p.wallet], o)
  BY <1>1, <1>3, <1>4, <1>5, <1>6 DEF Writes
<1>9. txns' = [txns EXCEPT ![t] = Row(@.key, p, o)] /\ UNCHANGED inbox
  BY <1>1 DEF Settle
<1> QED BY <1>1, <1>3, <1>4, <1>7, <1>8, <1>9 DEF Settlement, Pending

(* ... an expiry rejects it and touches no money.                          *)
LEMMA ExpireSettles ==
  ASSUME PendingInv, NEW k \in Workers, Expire(k)
  PROVE  /\ \E o \in Outcomes : /\ Settlement(current[k], o)
                                 /\ o.status = "REJECTED" /\ o.failure = "REFERENCE_NOT_FOUND"
         /\ WorkerLocal(k) /\ UNCHANGED <<wallets, ledger>>
<1> DEFINE t == current[k]
           p == txns[t].payload
           r == Rejected(held[k].copy, NoTx, "REFERENCE_NOT_FOUND")
           o == [status |-> "REJECTED", failure |-> "REFERENCE_NOT_FOUND", ref |-> NoTx,
                 observed |-> held[k].copy.balance, wallet |-> wallets[p.wallet],
                 move |-> NoMove]
<1>1. step[k] = "reject" /\ Settle(k, r) /\ UNCHANGED <<wallets, ledger>>
  BY DEF Expire
<1>2. WorkerOK(k) /\ TypeInv
  BY DEF PendingInv, SharedInv, EffectsInv, UniqueInv, LedgerInv
<1>3. held[k].copy \in WalletRecords /\ held[k].copy.balance \in Nat
  BY <1>1, <1>2 DEF WorkerOK, WorksOn, WalletRecords
<1>4. /\ t \in DOMAIN txns /\ txns[t].status = "PENDING_REFERENCE" /\ p.wallet \in Wallets
      /\ p.amount \in Nat \ {0} /\ wallets[p.wallet] \in WalletRecords
  BY <1>1, WorkerHolds DEF RowSteps
<1>5. t \in Nat \ {0}
  BY <1>2, <1>4, RowsNumbered
<1>6. r \in Outcomes
  BY <1>3 DEF Rejected, Outcomes, Statuses, RejectionCodes, NoTx, NoMove
<1>7. WorkerLocal(k) /\ outbox' \in Seq(EventRecords)
  BY <1>1, <1>6, SettleOK DEF RowSteps
<1>8. o \in Outcomes
  BY <1>3, <1>4 DEF Outcomes, Statuses, RejectionCodes, NoTx, NoMove
<1>9. /\ o.status = "REJECTED" /\ o.failure = "REFERENCE_NOT_FOUND" /\ o.ref = NoTx /\ o.move = NoMove
      /\ o.wallet = wallets[p.wallet]
      /\ \A key : Row(key, p, r) = Row(key, p, o)
  BY DEF Row, Rejected
<1> HIDE DEF o, r
<1>10. Decides(o, wallets[p.wallet], p)
  BY <1>8, <1>9 DEF Decides, Decision, Fits, Settles, Moves, MovesMoney, NoTx, FundsCodes
<1>11. Writes(p.wallet, t, p.amount, wallets[p.wallet], o)
  <2>1. wallets' = [wallets EXCEPT ![p.wallet] = o.wallet]
    BY <1>1, <1>2, <1>9 DEF TypeInv, TablesTypeOK
  <2>2. WriteLedger(p.wallet, t, p.amount, wallets[p.wallet].balance, o)
    BY <1>1, <1>9 DEF WriteLedger
  <2> QED BY <1>4, <1>5, <1>8, <1>9, <2>1, <2>2 DEF Writes, Fits
<1>12. txns' = [txns EXCEPT ![t] = Row(@.key, p, o)] /\ UNCHANGED inbox
  BY <1>1, <1>9 DEF Settle
<1>13. Settlement(t, o)
  BY <1>4, <1>7, <1>9, <1>10, <1>11, <1>12 DEF Settlement, Pending, ReferenceKindTaken
<1> QED BY <1>1, <1>7, <1>8, <1>9, <1>13

(* A step of worker k that changes no row but the one it holds, and no     *)
(* wallet but those it has locked, disturbs nobody.                        *)
LEMMA WorkerAlone ==
  ASSUME PendingInv, NEW k \in Workers, WorkerLocal(k), SharedInv',
         \A i \in DOMAIN txns : rowLock[i] # k => txns'[i] = txns[i],
         \A i \in DOMAIN txns : ~Pending(i) => txns'[i] = txns[i],
         \A w \in Wallets : lock[w] # k => wallets'[w] = wallets[w]
  PROVE  PendingInv'
<1>1. WorkerTypes' /\ WorkerOK(k)' /\ WorkerFrame(k)
  BY DEF WorkerLocal
<1>2. ASSUME NEW j \in Workers, j # k PROVE WorkerOK(j)'
  <2>1. \A i \in DOMAIN txns : rowLock[i] = j \/ txns[i].status = "PROCESSED" => txns'[i] = txns[i]
    BY <1>2 DEF Pending
  <2>2. \A w \in Wallets : lock[w] = j => lock'[w] = j /\ wallets'[w] = wallets[w]
    BY <1>1, <1>2, WorkersAssumption DEF WorkerFrame, Parties
  <2>3. /\ step'[j] = step[j] /\ current'[j] = current[j] /\ held'[j] = held[j]
        /\ DOMAIN txns' = DOMAIN txns
        /\ \A i \in DOMAIN txns : rowLock'[i] = j <=> rowLock[i] = j
    BY <1>1, <1>2 DEF WorkerFrame
  <2>4. Undisturbed(j)
    BY <2>1, <2>2, <2>3 DEF Undisturbed
  <2> QED BY <2>4, UndisturbedOK
<1> QED BY <1>1, <1>2 DEF PendingInv

(* The sessions hold their locks through a worker's step.                  *)
LEMMA WorkerSpares ==
  ASSUME NEW k \in Workers, WorkerLocal(k)
  PROVE  /\ UNCHANGED <<pc, locals, answer>> /\ LocksOK'
         /\ \A w \in Wallets : lock[w] \in Sessions => lock'[w] = lock[w]
<1>1. LocksOK'
  BY DEF WorkerLocal, WorkerTypes, LocksOK
<1> QED BY <1>1, WorkersAssumption DEF WorkerLocal, WorkerFrame, Parties

LEMMA QuietStepOK ==
  ASSUME PendingInv, NEW k \in Workers, WorkerLocal(k), UNCHANGED tables
  PROVE  PendingInv'
<1>1. UNCHANGED <<wallets, txns, ledger, inbox, outbox>>
  BY DEF tables
<1>2. SharedInv /\ TablesTypeOK /\ WalletMatchesLedger
  BY DEF PendingInv, SharedInv, EffectsInv, UniqueInv, LedgerInv, TypeInv
<1>3. TablesTypeOK' /\ WalletMatchesLedger' /\ KeepsRows
  <2>1. TablesTypeOK'
    BY <1>1, <1>2 DEF TablesTypeOK
  <2>2. WalletMatchesLedger'
    BY <1>1, <1>2 DEF WalletMatchesLedger, Chained, LastBalance
  <2>3. KeepsRows
    BY <1>1 DEF KeepsRows
  <2> QED BY <2>1, <2>2, <2>3
<1>4. LeavesSessions
  BY <1>1, WorkerSpares DEF LeavesSessions
<1>5. (EntriesMatchRows /\ DirectionsFollowKind /\ ReversalsUndo)'
  BY <1>1, <1>2, EntriesStay DEF SharedInv, EffectsInv
<1>6. SharedInv'
  BY <1>2, <1>3, <1>4, <1>5, SharedFrame
<1> QED BY <1>1, <1>6, WorkerAlone

LEMMA SettlingStepOK ==
  ASSUME PendingInv, NEW k \in Workers, WorkerLocal(k), NEW o, Settlement(current[k], o),
         step[k] \in RowSteps,
         \/ lock[txns[current[k]].payload.wallet] = k
         \/ UNCHANGED wallets
  PROVE  PendingInv' /\ KeepsRows
<1> DEFINE t == current[k]
           w == txns[t].payload.wallet
<1>1. SharedInv /\ TypeInv /\ t \in DOMAIN txns /\ rowLock[t] = k
  <2>1. SharedInv /\ TypeInv
    BY DEF PendingInv, SharedInv, EffectsInv, UniqueInv, LedgerInv
  <2> QED BY <2>1, WorkerHolds
<1>2. /\ txns' = [txns EXCEPT ![t] = Row(@.key, txns[t].payload, o)]
      /\ wallets' = [wallets EXCEPT ![w] = o.wallet]
  BY DEF Settlement, Writes
<1>3. \A v \in Wallets : lock[v] # k => wallets'[v] = wallets[v]
  BY <1>1, <1>2 DEF TypeInv, TablesTypeOK
<1>4. UNCHANGED <<pc, locals, answer>> /\ LocksOK'
      /\ \A v \in Wallets : lock[v] \in Sessions => lock'[v] = lock[v] /\ wallets'[v] = wallets[v]
  BY <1>3, WorkerSpares, WorkersAssumption
<1>5. SharedInv' /\ KeepsRows
  BY <1>1, <1>4, SettlementKeepsShared, SettlementStores
<1>6. \A i \in DOMAIN txns : rowLock[i] # k => txns'[i] = txns[i]
  BY <1>1, <1>2
<1>7. \A i \in DOMAIN txns : ~Pending(i) => txns'[i] = txns[i]
  BY <1>5 DEF KeepsRows
<1>8. PendingInv'
  BY <1>3, <1>5, <1>6, <1>7, WorkerAlone
<1> QED BY <1>5, <1>8

-------------------------------------------------------------------------------
(* The invariant holds                                                     *)

(* The worker's steps that write nothing to the sessions' tables.          *)
Quiet(k) ==
  \/ Claim(k) \/ NextRow(k) \/ LockRow(k) \/ LockPendingWallet(k) \/ ApplyPending(k)
  \/ ReadWallet(k) \/ Leaves(k)

LEMMA QuietOK ==
  ASSUME PendingInv, NEW k \in Workers, Quiet(k)
  PROVE  WorkerLocal(k) /\ UNCHANGED tables
<1>1. ASSUME Claim(k) PROVE WorkerLocal(k) /\ UNCHANGED tables
  BY <1>1, ClaimOK DEF Claim, vars
<1>2. ASSUME NextRow(k) PROVE WorkerLocal(k) /\ UNCHANGED tables
  BY <1>2, NextRowOK DEF NextRow, vars
<1>3. ASSUME LockRow(k) PROVE WorkerLocal(k) /\ UNCHANGED tables
  BY <1>3, LockRowOK DEF LockRow
<1>4. ASSUME LockPendingWallet(k) PROVE WorkerLocal(k) /\ UNCHANGED tables
  BY <1>4, LockPendingWalletOK DEF LockPendingWallet
<1>5. ASSUME ApplyPending(k) PROVE WorkerLocal(k) /\ UNCHANGED tables
  BY <1>5, ApplyPendingOK DEF ApplyPending, vars
<1>6. ASSUME ReadWallet(k) PROVE WorkerLocal(k) /\ UNCHANGED tables
  BY <1>6, ReadWalletOK DEF ReadWallet, vars
<1>7. ASSUME Leaves(k) PROVE WorkerLocal(k) /\ UNCHANGED tables
  BY <1>7, LeavesOK
<1> QED BY <1>1, <1>2, <1>3, <1>4, <1>5, <1>6, <1>7 DEF Quiet

(* Every step is the service's, a session's deadlock, time passing, a      *)
(* quiet step of a worker, or a settlement.                                *)
LEMMA PendingCases ==
  ASSUME [PendingNext]_pendingVars
  PROVE  \/ CreateWalletStep \/ \E s \in Sessions : SessionStep(s)
         \/ \E s \in Sessions : SessionVictim(s)
         \/ \E t \in DOMAIN txns : LeaseEnds(t) \/ BackoffEnds(t) \/ GrowsOld(t)
         \/ \E k \in Workers : Quiet(k)
         \/ \E k \in Workers : Resolve(k)
         \/ \E k \in Workers : Expire(k)
         \/ UNCHANGED pendingVars
BY DEF PendingNext, Work, TimePasses, Quiet, Leaves

LEMMA PendingStep ==
  ASSUME PendingInv, [PendingNext]_pendingVars
  PROVE  PendingInv'
<1>1. CASE CreateWalletStep \/ \E s \in Sessions : SessionStep(s)
  BY <1>1, ServiceStepOK
<1>2. CASE \E s \in Sessions : SessionVictim(s)
  BY <1>2, SessionVictimOK
<1>3. CASE \E t \in DOMAIN txns : LeaseEnds(t) \/ BackoffEnds(t) \/ GrowsOld(t)
  BY <1>3, TimeOK
<1>4. CASE \E k \in Workers : Quiet(k)
  BY <1>4, QuietOK, QuietStepOK
<1>5. ASSUME NEW k \in Workers, Resolve(k) PROVE PendingInv'
  BY <1>5, ResolveSettles, SettlingStepOK DEF Resolve, RowSteps
<1>6. ASSUME NEW k \in Workers, Expire(k) PROVE PendingInv'
  BY <1>6, ExpireSettles, SettlingStepOK DEF Expire, RowSteps
<1>7. CASE UNCHANGED pendingVars
  <2>1. UNCHANGED <<vars, wallets, txns, lock, meta, rowLock, step, batch, current, held>>
    BY <1>7 DEF pendingVars, vars, tables, workerVars
  <2>2. SharedInv'
    BY <2>1, ServiceKeepsShared DEF PendingInv
  <2>3. WorkerTypes'
    BY <2>1 DEF PendingInv, WorkerTypes
  <2>4. \A k \in Workers : Undisturbed(k)
    BY <2>1 DEF Undisturbed
  <2> QED BY <2>2, <2>3, <2>4, UndisturbedOK DEF PendingInv
<1> QED BY <1>1, <1>2, <1>3, <1>4, <1>5, <1>6, <1>7, PendingCases

LEMMA PendingInitOK ==
  ASSUME PendingInit
  PROVE  PendingInv
<1>1. Init /\ txns = << >> /\ DOMAIN txns = {}
  BY DEF PendingInit, Init
<1>2. SharedInv
  BY <1>1, EffectsInit DEF Init, SharedInv, SettledInv, ParkedRows
<1>3. WorkerTypes
  BY <1>1 DEF PendingInit, Init, WorkerTypes, WorkerSteps, NoTx, NothingHeld
<1>4. ASSUME NEW k \in Workers PROVE WorkerOK(k)
  BY <1>1 DEF PendingInit, WorkerOK, HoldsRow, WorksOn, RowSteps, WalletSteps
<1> QED BY <1>2, <1>3, <1>4 DEF PendingInv

LEMMA PendingInvHolds == PendingSpec => []PendingInv
BY PendingInitOK, PendingStep, PTL DEF PendingSpec

-------------------------------------------------------------------------------
(* The theorems                                                            *)

(* Every variable holds a value of its type, and a row is locked exactly   *)
(* by the worker that is between locking it and ending its transaction.    *)
THEOREM WorkersTypeCorrect == PendingSpec => []PendingTypeOK
<1>1. ASSUME PendingInv PROVE PendingTypeOK
  <2>1. /\ WorkerTypes /\ TablesTypeOK /\ SessionsTypeOK
        /\ \A k \in Workers : HoldsRow(k)
        /\ DOMAIN txns = 1 .. Len(txns) /\ Len(txns) \in Nat
    BY <1>1, RowsNumbered
       DEF PendingInv, SharedInv, EffectsInv, UniqueInv, LedgerInv, TypeInv, WorkerOK
  <2>2. /\ meta \in Seq(MetaRecords) /\ Len(meta) = Len(txns)
        /\ rowLock \in Seq(Workers \cup {Null}) /\ Len(rowLock) = Len(txns)
    <3>1. /\ meta \in [1 .. Len(txns) -> MetaRecords]
          /\ rowLock \in [1 .. Len(txns) -> Workers \cup {Null}]
      BY <2>1 DEF WorkerTypes
    <3> QED BY <2>1, <3>1
  <2>3. current \in [Workers -> 0 .. Len(txns)]
    BY <2>1 DEF WorkerTypes, NoTx
  <2>4. ASSUME NEW k \in Workers
        PROVE  /\ batch[k] \subseteq [tx : DOMAIN txns, count : 1 .. MaxRefAttempts]
               /\ held[k].copy \in WalletRecords \cup {Null}
               /\ held[k].draft \in Outcomes \cup {Null}
    BY <2>1 DEF WorkerTypes
  <2> QED BY <2>1, <2>2, <2>3, <2>4 DEF PendingTypeOK, WorkerTypes, HoldsRow, RowSteps
<1> QED BY <1>1, PendingInvHolds, PTL

(* The sessions' invariants hold with the workers as writers: the balance  *)
(* follows from the ledger, ...                                            *)
THEOREM WorkersKeepLedger == PendingSpec => []WalletMatchesLedger
<1>1. PendingInv => WalletMatchesLedger
  BY DEF PendingInv, SharedInv, EffectsInv, UniqueInv, LedgerInv
<1> QED BY <1>1, PendingInvHolds, PTL

(* ... a row that a worker processed has its one entry, at the balance it  *)
(* reports, and a row it rejected or left parked has none, ...             *)
THEOREM WorkersMatchEntries == PendingSpec => []EntriesMatchRows
<1>1. PendingInv => EntriesMatchRows
  BY DEF PendingInv, SharedInv, EffectsInv
<1> QED BY <1>1, PendingInvHolds, PTL

(* ... and a reversal undoes the movement of its reference, whether a      *)
(* session or a worker processed it.                                       *)
THEOREM WorkersReverseExactly == PendingSpec => []ReversalsUndoMovements
<1>1. PendingInv => ReversalsUndoMovements
  BY ReversalsOppose DEF PendingInv, SharedInv
<1> QED BY <1>1, PendingInvHolds, PTL

(* What a settlement does to the rows.                                     *)
SettlesOne(t) ==
  /\ t \in DOMAIN txns /\ Pending(t) /\ KeepsRows
  /\ txns'[t].status \in {"PROCESSED", "REJECTED"}
  /\ \A i \in DOMAIN txns \ {t} : txns'[i] = txns[i]

LEMMA SettlementFinal ==
  ASSUME NEW t, NEW o, Settlement(t, o), KeepsRows
  PROVE  SettlesOne(t)
<1>1. /\ t \in DOMAIN txns /\ Pending(t)
      /\ txns' = [txns EXCEPT ![t] = Row(@.key, txns[t].payload, o)]
      /\ o \in Outcomes /\ o.status # "PENDING_REFERENCE"
  BY DEF Settlement, Writes
<1>2. o.status \in {"PROCESSED", "REJECTED"}
  BY <1>1 DEF Outcomes, Statuses
<1> QED BY <1>1, <1>2 DEF SettlesOne, Row

(* Every step leaves the rows alone, adds to them, or settles one.         *)
LEMMA RowsOfStep ==
  ASSUME PendingInv, [PendingNext]_pendingVars
  PROVE  \/ \A t \in DOMAIN txns : t \in DOMAIN txns' /\ txns'[t] = txns[t]
         \/ \E t \in DOMAIN txns : SettlesOne(t)
<1>inv. TypeInv
  BY DEF PendingInv, SharedInv, EffectsInv, UniqueInv, LedgerInv
<1>1. CASE CreateWalletStep \/ \E s \in Sessions : SessionStep(s)
  <2>1. Next
    BY <1>1 DEF CreateWalletStep, SessionStep, Next
  <2> QED BY <1>inv, <2>1, RowsAreKept
<1>2. CASE UNCHANGED tables
  BY <1>2 DEF tables
<1>3. ASSUME NEW k \in Workers, Resolve(k) PROVE \E t \in DOMAIN txns : SettlesOne(t)
  <2>1. Settlement(current[k], held[k].draft) /\ KeepsRows
    BY <1>3, ResolveSettles, SettlingStepOK DEF Resolve, RowSteps
  <2> QED BY <2>1, SettlementFinal DEF Settlement
<1>4. ASSUME NEW k \in Workers, Expire(k) PROVE \E t \in DOMAIN txns : SettlesOne(t)
  <2>1. PICK o \in Outcomes : Settlement(current[k], o) /\ KeepsRows
    BY <1>4, ExpireSettles, SettlingStepOK DEF Expire, RowSteps
  <2> QED BY <2>1, SettlementFinal DEF Settlement
<1>5. CASE \E s \in Sessions : SessionVictim(s)
  BY <1>2, <1>5 DEF SessionVictim
<1>6. CASE \E t \in DOMAIN txns : LeaseEnds(t) \/ BackoffEnds(t) \/ GrowsOld(t)
  BY <1>2, <1>6 DEF LeaseEnds, BackoffEnds, GrowsOld, vars
<1>7. CASE \E k \in Workers : Quiet(k)
  BY <1>2, <1>7, QuietOK
<1>8. CASE UNCHANGED pendingVars
  BY <1>2, <1>8 DEF pendingVars, vars
<1> QED BY <1>1, <1>3, <1>4, <1>5, <1>6, <1>7, <1>8, PendingCases

(* A stored row changes at most once, from parked to final, whatever       *)
(* workers, expired leases, deadlocks, crashes and sessions interleave.    *)
THEOREM RowsSettleOnceHolds == PendingSpec => RowsSettleOnce
<1> DEFINE Once ==
      \A t \in DOMAIN txns :
        /\ t \in DOMAIN txns'
        /\ txns'[t] # txns[t] =>
             /\ txns[t].status = "PENDING_REFERENCE"
             /\ txns'[t].status \in {"PROCESSED", "REJECTED"}
             /\ txns'[t].key = txns[t].key
             /\ txns'[t].payload = txns[t].payload
<1>1. ASSUME PendingInv, [PendingNext]_pendingVars PROVE Once
  <2>1. CASE \A t \in DOMAIN txns : t \in DOMAIN txns' /\ txns'[t] = txns[t]
    BY <2>1
  <2>2. ASSUME NEW t \in DOMAIN txns, SettlesOne(t) PROVE Once
    BY <2>2 DEF SettlesOne, KeepsRows, Pending
  <2> QED BY <1>1, <2>1, <2>2, RowsOfStep
<1>2. PendingInv /\ [PendingNext]_pendingVars => [Once]_pendingVars
  BY <1>1
<1> HIDE DEF Once
<1>3. PendingSpec => [][Once]_pendingVars
  BY <1>2, PendingInvHolds, PTL DEF PendingSpec
<1> QED BY <1>3 DEF Once, RowsSettleOnce

-------------------------------------------------------------------------------
(* The promises of the abstract specifications, kept beside the workers    *)

LEMMA MoneyOfStep ==
  ASSUME PendingInv, [PendingNext]_pendingVars
  PROVE  [Money!BookNext]_(Money!bookVars)
<1>inv. LedgerInv /\ TypeInv
  BY DEF PendingInv, SharedInv, EffectsInv, UniqueInv, LedgerInv
<1>1. CASE CreateWalletStep \/ \E s \in Sessions : SessionStep(s)
  <2>1. Next
    BY <1>1 DEF CreateWalletStep, SessionStep, Next
  <2> QED BY <1>inv, <2>1, LedgerBookStep
<1>2. ASSUME UNCHANGED <<wallets, ledger>> PROVE UNCHANGED Money!bookVars
  BY <1>2, MoneyStutters DEF Money!bookVars
<1>3. CASE UNCHANGED tables
  BY <1>2, <1>3 DEF tables
<1>4. ASSUME NEW k \in Workers, Resolve(k) PROVE [Money!BookNext]_(Money!bookVars)
  <2> DEFINE t == current[k]
             p == txns[t].payload
             o == held[k].draft
  <2>1. Writes(p.wallet, t, p.amount, wallets[p.wallet], o)
    BY <1>4, ResolveSettles DEF Settlement
  <2>2. p \in CallPayloads
    BY <1>4, WorkerHolds DEF Resolve, RowSteps
  <2>3. {p.amount, -p.amount} \subseteq Changes
    BY <2>2 DEF Changes
  <2> HIDE DEF t, p, o
  <2> QED BY <1>inv, <2>1, <2>3, WritesPost DEF Money!BookNext, Money!bookVars
<1>5. ASSUME NEW k \in Workers, Expire(k) PROVE UNCHANGED Money!bookVars
  BY <1>2, <1>5 DEF Expire
<1>6. CASE \E s \in Sessions : SessionVictim(s)
  BY <1>3, <1>6 DEF SessionVictim
<1>7. CASE \E t \in DOMAIN txns : LeaseEnds(t) \/ BackoffEnds(t) \/ GrowsOld(t)
  BY <1>3, <1>7 DEF LeaseEnds, BackoffEnds, GrowsOld, vars
<1>8. CASE \E k \in Workers : Quiet(k)
  BY <1>3, <1>8, QuietOK
<1>9. CASE UNCHANGED pendingVars
  BY <1>3, <1>9 DEF pendingVars, vars
<1> QED BY <1>1, <1>4, <1>5, <1>6, <1>7, <1>8, <1>9, PendingCases

(* Sessions and workers together keep the promise the readers of ledgers   *)
(* rely on: balance and ledger change together, by one entry at a time,    *)
(* and never below zero.                                                   *)
THEOREM WorkersKeepLedgerBook == PendingSpec => ImplementsLedgerBook
<1>1. PendingInit => Money!BookInit
  BY LedgerBookInit DEF PendingInit
<1> QED BY <1>1, MoneyOfStep, PendingInvHolds, PTL
        DEF PendingSpec, ImplementsLedgerBook, Money!BookSpec

(* A settlement changes the result of its own operation, which was parked. *)
LEMMA SettlementResult ==
  ASSUME SharedInv, NEW t, NEW o, Settlement(t, o), KeepsRows, NEW op,
         op = <<txns[t].payload.provider, txns[t].payload.ext>>, op \in Operations
  PROVE  /\ BookResult[op] = [payload |-> txns[t].payload, status |-> "PENDING_REFERENCE"]
         /\ BookResult' = [BookResult EXCEPT ![op] = [payload |-> txns[t].payload,
                                                      status |-> o.status]]
<1> DEFINE p == txns[t].payload
<1>1. /\ t \in DOMAIN txns /\ txns[t].status = "PENDING_REFERENCE"
      /\ txns' = [txns EXCEPT ![t] = Row(@.key, p, o)]
      /\ \A i, j \in DOMAIN txns :
           i # j => \/ txns[i].payload.provider # txns[j].payload.provider
                    \/ txns[i].payload.ext # txns[j].payload.ext
  BY DEF Settlement, Pending, SharedInv, EffectsInv, UniqueInv, OneRowPerOperation
<1>2. txns'[t].payload = p /\ txns'[t].status = o.status
  BY <1>1 DEF Row
<1>3. \A q : RowsOf(q)' = RowsOf(q)
  BY DEF RowsOf, KeepsRows
<1>4. RowsOf(op) = {t}
  BY <1>1 DEF RowsOf
<1>5. (CHOOSE i \in RowsOf(op) : TRUE) = t /\ (CHOOSE i \in RowsOf(op)' : TRUE) = t
  BY <1>3, <1>4
<1>6. /\ ResultOf(op) = [payload |-> p, status |-> "PENDING_REFERENCE"]
      /\ ResultOf(op)' = [payload |-> p, status |-> o.status]
  <2>1. RowsOf(op) # {} /\ RowsOf(op)' # {}
    BY <1>3, <1>4
  <2> QED BY <1>1, <1>2, <1>5, <2>1 DEF ResultOf
<1>7. ASSUME NEW q \in Operations, q # op PROVE BookResult'[q] = BookResult[q]
  <2>1. t \notin RowsOf(q)
    <3>1. q = <<q[1], q[2]>>
      BY DEF Operations
    <3> QED BY <1>7, <3>1 DEF RowsOf
  <2>2. CASE RowsOf(q) = {}
    BY <1>3, <2>2, ResultOfRows DEF ResultOf
  <2>3. CASE RowsOf(q) # {}
    <3> DEFINE i == CHOOSE i \in RowsOf(q) : TRUE
    <3>1. i \in RowsOf(q)
      BY <2>3
    <3>2. txns'[i] = txns[i]
      BY <1>1, <2>1, <3>1 DEF RowsOf
    <3>3. ResultOf(q) = [payload |-> txns[i].payload, status |-> txns[i].status]
      BY <2>3 DEF ResultOf
    <3>4. (CHOOSE j \in RowsOf(q)' : TRUE) = i
      BY <1>3
    <3>5. ResultOf(q)' = [payload |-> txns'[i].payload, status |-> txns'[i].status]
      BY <1>3, <2>3, <3>4 DEF ResultOf
    <3> QED BY <3>2, <3>3, <3>5, ResultOfRows
  <2> QED BY <2>2, <2>3
<1>8. BookResult = [q \in Operations |-> BookResult[q]]
      /\ BookResult' = [q \in Operations |-> BookResult'[q]]
  BY DEF BookResult
<1> QED BY <1>6, <1>7, <1>8, ResultOfRows

LEMMA SettlementBook ==
  ASSUME SharedInv, NEW t, NEW o, Settlement(t, o), KeepsRows
  PROVE  Book!BookNext
<1> DEFINE p == txns[t].payload
           op == <<p.provider, p.ext>>
<1>1. TypeInv /\ ParkedRows
  BY DEF SharedInv, EffectsInv, UniqueInv, LedgerInv
<1>2. p \in CallPayloads /\ p \in OperationPayloads
  BY <1>1, CallsAssumption DEF Settlement, ParkedRows, CallPayloads
<1>3. op \in Operations /\ p.wallet \in Wallets
  BY <1>2 DEF Operations, OperationPayloads
<1>4. /\ o \in Outcomes /\ wallets[p.wallet] \in WalletRecords
      /\ wallets' = [wallets EXCEPT ![p.wallet] = o.wallet]
      /\ Settles(o, wallets[p.wallet], p) /\ o.status # "PENDING_REFERENCE"
  BY DEF Settlement, Writes, Decides
<1>5. /\ BookResult[op] = [payload |-> p, status |-> "PENDING_REFERENCE"]
      /\ BookResult' = [BookResult EXCEPT ![op] = [payload |-> p, status |-> o.status]]
  BY <1>3, SettlementResult
<1> HIDE DEF p
<1> QED BY <1>1, <1>2, <1>3, <1>4, <1>5, SettlesBook

LEMMA BookOfStep ==
  ASSUME PendingInv, [PendingNext]_pendingVars
  PROVE  [Book!BookNext]_(Book!bookVars)
<1>inv. SharedInv /\ BookInv
  BY DEF PendingInv, SharedInv, EffectsInv, BookInv
<1>1. CASE CreateWalletStep \/ \E s \in Sessions : SessionStep(s)
  <2>1. Next
    BY <1>1 DEF CreateWalletStep, SessionStep, Next
  <2> QED BY <1>inv, <2>1, WalletBookStep
<1>2. CASE UNCHANGED tables
  BY <1>2 DEF tables, Book!bookVars, BookBalance, BookResult
<1>3. ASSUME NEW k \in Workers, Resolve(k) PROVE Book!BookNext
  <2>1. Settlement(current[k], held[k].draft) /\ KeepsRows
    BY <1>3, ResolveSettles, SettlingStepOK DEF Resolve, RowSteps
  <2> QED BY <1>inv, <2>1, SettlementBook
<1>4. ASSUME NEW k \in Workers, Expire(k) PROVE Book!BookNext
  <2>1. PICK o \in Outcomes : Settlement(current[k], o) /\ KeepsRows
    BY <1>4, ExpireSettles, SettlingStepOK DEF Expire, RowSteps
  <2> QED BY <1>inv, <2>1, SettlementBook
<1>5. CASE \E s \in Sessions : SessionVictim(s)
  BY <1>2, <1>5 DEF SessionVictim
<1>6. CASE \E t \in DOMAIN txns : LeaseEnds(t) \/ BackoffEnds(t) \/ GrowsOld(t)
  BY <1>2, <1>6 DEF LeaseEnds, BackoffEnds, GrowsOld, vars
<1>7. CASE \E k \in Workers : Quiet(k)
  BY <1>2, <1>7, QuietOK
<1>8. CASE UNCHANGED pendingVars
  BY <1>2, <1>8 DEF pendingVars, vars
<1> QED BY <1>1, <1>3, <1>4, <1>5, <1>6, <1>7, <1>8, PendingCases

(* They keep the promise made to the clients: an operation parked by a     *)
(* session is settled or rejected by a worker once, with the effect of its *)
(* kind on its wallet in the same step.                                    *)
THEOREM WorkersKeepWalletBook == PendingSpec => ImplementsWalletBook
<1>1. PendingInit => Book!BookInit
  BY WalletBookInit DEF PendingInit
<1> QED BY <1>1, BookOfStep, PendingInvHolds, PTL
        DEF PendingSpec, ImplementsWalletBook, Book!BookSpec

-------------------------------------------------------------------------------
(* Resolutions are serial                                                  *)

(* What a worker is about to flush is what the rules decide on the rows as *)
(* they are now, whatever was stored since they ran.                       *)
SerialResolution(k) ==
  LET t == current[k]
      p == txns[t].payload
  IN  step[k] = "flush" /\ LocalReferences(p) => held[k].draft \in Apply(held[k].copy, txns, t, p)

ResolutionsInv == PendingInv /\ \A k \in Workers : SerialResolution(k)

(* The rules alone lead a worker to its flush.                             *)
LEMMA RulesLeadToFlush ==
  ASSUME WorkerTypes, NEW k \in Workers, step'[k] = "flush",
         Quiet(k) \/ Resolve(k) \/ Expire(k)
  PROVE  ApplyPending(k)
<1>1. ASSUME NEW next \in WorkerSteps \ {"flush"} PROVE ~Goto(k, next)
  BY DEF Goto, WorkerTypes
<1>2. ~EndRow(k) /\ ~Abort(k)
  BY <1>1 DEF EndRow, Abort, WorkerSteps
<1>3. ~Claim(k) /\ ~NextRow(k) /\ ~LockPendingWallet(k) /\ ~ReadWallet(k)
  BY <1>1 DEF Claim, NextRow, LockPendingWallet, ReadWallet, WorkerSteps
<1>4. ~LockRow(k)
  BY <1>1, <1>2 DEF LockRow, WorkerSteps
<1>5. ~Leaves(k) /\ ~Resolve(k) /\ ~Expire(k)
  BY <1>2 DEF Leaves, StillPending, ResolveConflict, WorkerVictim, WorkerCrash, Resolve, Expire,
              Settle
<1> QED BY <1>3, <1>4, <1>5 DEF Quiet

LEMMA FlushEntered ==
  ASSUME PendingInv, [PendingNext]_pendingVars, NEW k \in Workers,
         step'[k] = "flush", step[k] # "flush"
  PROVE  ApplyPending(k)
<1>1. ASSUME NEW j \in Workers, Quiet(j) \/ Resolve(j) \/ Expire(j) PROVE ApplyPending(k)
  <2>1. WorkerFrame(j)
    BY <1>1, QuietOK, ResolveSettles, ExpireSettles DEF WorkerLocal
  <2>2. j = k
    BY <2>1 DEF WorkerFrame
  <2> QED BY <1>1, <2>2, RulesLeadToFlush DEF PendingInv
<1>2. step' # step
  OBVIOUS
<1>3. ~CreateWalletStep /\ \A s \in Sessions : ~SessionStep(s) /\ ~SessionVictim(s)
  BY <1>2 DEF CreateWalletStep, SessionStep, SessionVictim, workerVars
<1>4. \A t \in DOMAIN txns : ~LeaseEnds(t) /\ ~BackoffEnds(t) /\ ~GrowsOld(t)
  BY <1>2 DEF LeaseEnds, BackoffEnds, GrowsOld, workerVars
<1>5. ~UNCHANGED pendingVars
  BY <1>2 DEF pendingVars, workerVars
<1> QED BY <1>1, <1>3, <1>4, <1>5, PendingCases

(* A settlement moves the rows of its own wallet, or rejects one.          *)
LEMMA SettlingRows ==
  ASSUME NEW t, SettlesOne(t), NEW w,
         txns[t].payload.wallet # w \/ txns'[t].status = "REJECTED"
  PROVE  RowsMove(w)
BY DEF SettlesOne, RowsMove, KeepsRows, Pending

(* While a worker waits to flush, the rows its decision rests on stay.     *)
LEMMA HeldRows ==
  ASSUME PendingInv, [PendingNext]_pendingVars, NEW k \in Workers,
         step[k] = "flush", step'[k] = "flush"
  PROVE  /\ held'[k] = held[k] /\ current'[k] = current[k]
         /\ RowsMove(txns[current[k]].payload.wallet)
<1> DEFINE w == txns[current[k]].payload.wallet
<1>inv. /\ TypeInv /\ LocksInv /\ WorkerTypes
  BY DEF PendingInv, SharedInv, EffectsInv, UniqueInv, LedgerInv
<1>1. w \in Wallets /\ lock[w] = k
  BY WorkerHolds DEF PendingInv, WorkerOK, WorksOn, RowSteps, WalletSteps
<1>2. PICK v : v = w
  OBVIOUS
<1> HIDE DEF w
<1>3. SUFFICES held'[k] = held[k] /\ current'[k] = current[k] /\ RowsMove(v)
  BY <1>2 DEF w
<1>4. CASE CreateWalletStep \/ \E s \in Sessions : SessionStep(s)
  <2>1. Next /\ UNCHANGED <<current, held>>
    BY <1>4 DEF CreateWalletStep, SessionStep, Next, workerVars
  <2>2. ASSUME NEW s \in Sessions, Commit(s) PROVE call[s].payload.wallet # v
    BY <1>inv, <1>1, <1>2, <2>2, WorkersAssumption DEF Commit, LocksInv, HoldsWallet, LockedSteps
  <2>3. RowsMove(v)
    BY <1>inv, <1>1, <1>2, <2>1, <2>2, ServiceRows
  <2> QED BY <2>1, <2>3
<1>5. ASSUME UNCHANGED txns PROVE RowsMove(v)
  BY <1>5 DEF RowsMove
<1>6. CASE UNCHANGED <<txns, current, held>>
  BY <1>5, <1>6
<1>7. ASSUME NEW j \in Workers, Quiet(j) \/ Resolve(j) \/ Expire(j)
      PROVE  j # k
  <2>1. ~ApplyPending(k)
    BY DEF ApplyPending
  <2> QED BY <1>inv, <1>7, <2>1, RulesLeadToFlush
<1>8. ASSUME NEW j \in Workers, Quiet(j)
      PROVE  held'[k] = held[k] /\ current'[k] = current[k] /\ RowsMove(v)
  <2>1. WorkerFrame(j) /\ txns' = txns
    BY <1>8, QuietOK DEF WorkerLocal, tables
  <2> QED BY <1>5, <1>7, <1>8, <2>1 DEF WorkerFrame
<1>9. ASSUME NEW j \in Workers, Resolve(j)
      PROVE  held'[k] = held[k] /\ current'[k] = current[k] /\ RowsMove(v)
  <2>1. /\ Settlement(current[j], held[j].draft) /\ KeepsRows /\ WorkerFrame(j)
        /\ lock[txns[current[j]].payload.wallet] = j
    BY <1>9, ResolveSettles, SettlingStepOK DEF Resolve, RowSteps, WorkerLocal
  <2>2. txns[current[j]].payload.wallet # v /\ j # k
    BY <1>1, <1>2, <1>7, <1>9, <2>1
  <2>3. SettlesOne(current[j])
    BY <2>1, SettlementFinal
  <2>4. RowsMove(v)
    BY <2>2, <2>3, SettlingRows
  <2> QED BY <2>1, <2>2, <2>4 DEF WorkerFrame
<1>10. ASSUME NEW j \in Workers, Expire(j)
       PROVE  held'[k] = held[k] /\ current'[k] = current[k] /\ RowsMove(v)
  <2>1. PICK o \in Outcomes : /\ Settlement(current[j], o) /\ KeepsRows /\ WorkerFrame(j)
                              /\ o.status = "REJECTED"
    BY <1>10, ExpireSettles, SettlingStepOK DEF Expire, RowSteps, WorkerLocal
  <2>2. SettlesOne(current[j]) /\ txns'[current[j]].status = "REJECTED"
    BY <2>1, SettlementFinal DEF Settlement, Row
  <2>3. RowsMove(v)
    BY <2>2, SettlingRows
  <2> QED BY <1>7, <1>10, <2>1, <2>3 DEF WorkerFrame
<1>11. CASE \E s \in Sessions : SessionVictim(s)
  BY <1>6, <1>11 DEF SessionVictim, tables, workerVars
<1>12. CASE \E t \in DOMAIN txns : LeaseEnds(t) \/ BackoffEnds(t) \/ GrowsOld(t)
  BY <1>6, <1>12 DEF LeaseEnds, BackoffEnds, GrowsOld, vars, tables, workerVars
<1>13. CASE UNCHANGED pendingVars
  BY <1>6, <1>13 DEF pendingVars, vars, tables, workerVars
<1> QED BY <1>4, <1>8, <1>9, <1>10, <1>11, <1>12, <1>13, PendingCases

LEMMA ResolutionStays ==
  ASSUME PendingInv, ReversalsLocal', NEW k \in Workers, SerialResolution(k), step[k] = "flush",
         held'[k] = held[k], current'[k] = current[k],
         RowsMove(txns[current[k]].payload.wallet)
  PROVE  SerialResolution(k)'
<1>1. PICK t, p, wal, d : /\ t = current[k] /\ p = txns[t].payload
                          /\ wal = held[k].copy /\ d = held[k].draft
  OBVIOUS
<1>2. t \in DOMAIN txns /\ EffectsInv
  BY <1>1, WorkerHolds DEF RowSteps, PendingInv, SharedInv
<1>3. RowsMove(p.wallet) /\ txns'[t].payload = p
  BY <1>1, <1>2 DEF RowsMove
<1>4. SUFFICES ASSUME LocalReferences(p)' PROVE d \in Apply(wal, txns', t, p)
  BY <1>1, <1>3 DEF SerialResolution
<1>5. LocalReferences(p) /\ Apply(wal, txns', t, p) = Apply(wal, txns, t, p)
  BY <1>2, <1>3, <1>4, RulesStable
<1> QED BY <1>1, <1>5 DEF SerialResolution

LEMMA ResolutionsStep ==
  ASSUME ResolutionsInv, [PendingNext]_pendingVars
  PROVE  ResolutionsInv'
<1>inv. PendingInv /\ WorkerTypes
  BY DEF ResolutionsInv, PendingInv
<1>1. PendingInv' /\ ReversalsLocal'
  <2>1. PendingInv'
    BY <1>inv, PendingStep
  <2>2. EffectsInv'
    BY <2>1 DEF PendingInv, SharedInv
  <2> QED BY <2>1, <2>2, ReversalsStay, PTL
<1> SUFFICES ASSUME NEW k \in Workers PROVE SerialResolution(k)'
  BY <1>1 DEF ResolutionsInv
<1>2. CASE step'[k] # "flush"
  BY <1>2 DEF SerialResolution
<1>3. CASE step'[k] = "flush" /\ step[k] = "flush"
  BY <1>inv, <1>1, <1>3, HeldRows, ResolutionStays DEF ResolutionsInv
<1>4. CASE ApplyPending(k)
  <2>1. /\ txns' = txns /\ current' = current
        /\ \E o \in Apply(held[k].copy, txns, current[k], txns[current[k]].payload) :
             held' = [held EXCEPT ![k].draft = o]
    BY <1>4 DEF ApplyPending, vars, tables
  <2>2. /\ held'[k].copy = held[k].copy
        /\ held'[k].draft \in Apply(held[k].copy, txns, current[k], txns[current[k]].payload)
    BY <1>inv, <2>1 DEF WorkerTypes
  <2> QED BY <2>1, <2>2 DEF SerialResolution
<1>5. ASSUME step'[k] = "flush", step[k] # "flush" PROVE ApplyPending(k)
  BY <1>inv, <1>5, FlushEntered
<1> QED BY <1>2, <1>3, <1>4, <1>5

LEMMA ResolutionsInit ==
  ASSUME PendingInit
  PROVE  ResolutionsInv
BY PendingInitOK DEF PendingInit, ResolutionsInv, SerialResolution

(* A parked row that a worker resolves gets what the rules decide on the   *)
(* tables of that commit, whatever sessions and other workers did since    *)
(* the row was claimed, its reference looked up and its wallet read.       *)
THEOREM SerialResolutions == PendingSpec => ResolutionsAreSerial
<1> DEFINE Serial ==
      \A t \in DOMAIN txns :
        LET p == txns[t].payload IN
        /\ txns'[t] # txns[t]
        /\ txns'[t].failure # "REFERENCE_NOT_FOUND"
        /\ LocalReferences(p)
        => \E o \in Apply(wallets[p.wallet], txns, t, p) :
             /\ txns'[t] = Row(txns[t].key, p, o)
             /\ wallets'[p.wallet] = o.wallet
<1>1. ASSUME ResolutionsInv, [PendingNext]_pendingVars PROVE Serial
  <2> SUFFICES ASSUME NEW t \in DOMAIN txns, txns'[t] # txns[t],
                      txns'[t].failure # "REFERENCE_NOT_FOUND",
                      LocalReferences(txns[t].payload)
               PROVE  \E o \in Apply(wallets[txns[t].payload.wallet], txns, t, txns[t].payload) :
                        /\ txns'[t] = Row(txns[t].key, txns[t].payload, o)
                        /\ wallets'[txns[t].payload.wallet] = o.wallet
    OBVIOUS
  <2>inv. PendingInv /\ TypeInv
    BY <1>1 DEF ResolutionsInv, PendingInv, SharedInv, EffectsInv, UniqueInv, LedgerInv
  <2>1. ASSUME NEW k \in Workers, Expire(k) PROVE FALSE
    <3>1. PICK o \in Outcomes : Settlement(current[k], o) /\ o.failure = "REFERENCE_NOT_FOUND"
      BY <2>inv, <2>1, ExpireSettles
    <3> QED BY <3>1 DEF Settlement, Row
  <2>2. PICK k \in Workers : Resolve(k)
    <3>1. CASE CreateWalletStep \/ \E s \in Sessions : SessionStep(s)
      <4>1. Next
        BY <3>1 DEF CreateWalletStep, SessionStep, Next
      <4> QED BY <2>inv, <4>1, RowsAreKept
    <3>2. txns' # txns
      OBVIOUS
    <3>3. CASE \E s \in Sessions : SessionVictim(s)
      BY <3>2, <3>3 DEF SessionVictim, tables
    <3>4. CASE \E u \in DOMAIN txns : LeaseEnds(u) \/ BackoffEnds(u) \/ GrowsOld(u)
      BY <3>2, <3>4 DEF LeaseEnds, BackoffEnds, GrowsOld, vars, tables
    <3>5. CASE \E k \in Workers : Quiet(k)
      BY <2>inv, <3>2, <3>5, QuietOK DEF tables
    <3>6. CASE UNCHANGED pendingVars
      BY <3>2, <3>6 DEF pendingVars, vars, tables
    <3> QED BY <1>1, <2>1, <3>1, <3>3, <3>4, <3>5, <3>6, PendingCases
  <2>3. Settlement(current[k], held[k].draft) /\ step[k] = "flush"
    BY <2>inv, <2>2, ResolveSettles DEF Resolve
  <2>4. /\ t = current[k] /\ txns'[t] = Row(txns[t].key, txns[t].payload, held[k].draft)
    BY <2>3 DEF Settlement
  <2>5. wallets'[txns[t].payload.wallet] = held[k].draft.wallet
    BY <2>inv, <2>3, <2>4 DEF Settlement, Writes, TypeInv, TablesTypeOK
  <2>6. held[k].copy = wallets[txns[t].payload.wallet]
    BY <2>inv, <2>3, <2>4 DEF PendingInv, WorkerOK, WorksOn, WalletSteps
  <2>7. held[k].draft \in Apply(wallets[txns[t].payload.wallet], txns, t, txns[t].payload)
    BY <1>1, <2>3, <2>4, <2>6 DEF ResolutionsInv, SerialResolution
  <2> QED BY <2>4, <2>5, <2>7
<1>2. ResolutionsInv /\ [PendingNext]_pendingVars => [Serial]_pendingVars
  BY <1>1
<1> HIDE DEF Serial
<1>3. PendingSpec => [][Serial]_pendingVars
  BY <1>2, ResolutionsInit, ResolutionsStep, PTL DEF PendingSpec
<1> QED BY <1>3 DEF Serial, ResolutionsAreSerial

-------------------------------------------------------------------------------
(* What the outbox tells                                                   *)

BusySteps == {"resolve", "expire"} \cup RowSteps

(* A worker deals only with rows it has claimed, so an attempt is counted. *)
Counts(k) ==
  /\ \A r \in batch[k] : meta[r.tx].attempts > 0
  /\ step[k] \in BusySteps => meta[current[k]].attempts > 0

ParkedFirst(t) == IF meta[t].attempts > 0 /\ ~Pending(t) THEN <<"PENDING_REFERENCE">> ELSE << >>

Story(t) ==
  txns[t].payload.kind # "OPENING" =>
    Tells(t, ParkedFirst(t) \o EventTypes(txns[t]), Len(ParkedFirst(t)))

StoryInv ==
  /\ PendingInv /\ DraftsObserve /\ EventsHaveRows
  /\ \A k \in Workers : Counts(k) /\ (step[k] = "flush" => Observes(held[k].draft))
  /\ \A t \in DOMAIN txns : Story(t)

(* Attempts are never forgotten, and a final row's are not counted on.     *)
AttemptsGrow ==
  \A t \in DOMAIN txns :
    /\ meta[t].attempts > 0 => meta'[t].attempts > 0
    /\ ~Pending(t) => meta'[t].attempts = meta[t].attempts

LEMMA ClaimCounts ==
  ASSUME PendingInv, NEW k \in Workers, Claim(k)
  PROVE  AttemptsGrow /\ \A r \in batch'[k] : meta'[r.tx].attempts > 0
<1>1. /\ meta \in [DOMAIN txns -> MetaRecords] /\ batch \in [Workers -> SUBSET [tx : DOMAIN txns, count : 1 .. MaxRefAttempts]]
      /\ UNCHANGED txns
  BY DEF PendingInv, WorkerTypes, Claim, vars, tables
<1>2. ASSUME NEW t \in DOMAIN txns
      PROVE  /\ t \in Claimable => meta'[t].attempts = Counted(meta[t].attempts)
             /\ t \notin Claimable => meta'[t] = meta[t]
             /\ meta[t].attempts \in 0 .. MaxRefAttempts
             /\ Counted(meta[t].attempts) > 0
  <2>1. meta[t].attempts \in 0 .. MaxRefAttempts /\ meta[t] \in MetaRecords
    BY <1>1 DEF MetaRecords
  <2>2. Counted(meta[t].attempts) > 0
    BY <2>1, WorkersAssumption DEF Counted
  <2>3. meta'[t] = IF t \in Claimable
                   THEN [meta[t] EXCEPT !.attempts = Counted(@), !.leased = TRUE,
                                        !.due = FALSE, !.backoff = TRUE]
                   ELSE meta[t]
    BY <1>1 DEF Claim
  <2> QED BY <2>1, <2>2, <2>3 DEF MetaRecords
<1>3. AttemptsGrow
  BY <1>2 DEF AttemptsGrow, Claimable, Pending
<1>4. batch'[k] = {[tx |-> t, count |-> Counted(meta[t].attempts)] : t \in Claimable}
  BY <1>1 DEF Claim
<1>5. ASSUME NEW r \in batch'[k] PROVE meta'[r.tx].attempts > 0
  <2>1. r.tx \in Claimable /\ r.tx \in DOMAIN txns
    BY <1>4 DEF Claimable
  <2> QED BY <1>2, <2>1
<1> QED BY <1>3, <1>5

LEMMA ColumnsReset ==
  ASSUME meta \in [DOMAIN txns -> MetaRecords],
         \/ UNCHANGED meta
         \/ \E t : meta' = [meta EXCEPT ![t].leased = FALSE, ![t].due = TRUE]
         \/ \E t : meta' = [meta EXCEPT ![t].leased = FALSE]
         \/ \E t : meta' = [meta EXCEPT ![t].backoff = FALSE, ![t].due = TRUE]
         \/ \E t : meta' = [meta EXCEPT ![t].old = TRUE]
  PROVE  AttemptsGrow
<1>1. SUFFICES ASSUME NEW i \in DOMAIN txns PROVE meta'[i].attempts = meta[i].attempts
  BY DEF AttemptsGrow
<1>2. meta[i] \in MetaRecords
  OBVIOUS
<1>3. ASSUME NEW t, meta' = [meta EXCEPT ![t].leased = FALSE, ![t].due = TRUE]
      PROVE  meta'[i].attempts = meta[i].attempts
  <2> DEFINE half == [meta EXCEPT ![t].leased = FALSE]
  <2>1. half \in [DOMAIN txns -> MetaRecords] /\ half[i].attempts = meta[i].attempts
    BY <1>2 DEF MetaRecords
  <2>2. meta' = [half EXCEPT ![t].due = TRUE]
    BY <1>3
  <2> HIDE DEF half
  <2> QED BY <2>1, <2>2 DEF MetaRecords
<1>4. ASSUME NEW t, meta' = [meta EXCEPT ![t].backoff = FALSE, ![t].due = TRUE]
      PROVE  meta'[i].attempts = meta[i].attempts
  <2> DEFINE half == [meta EXCEPT ![t].backoff = FALSE]
  <2>1. half \in [DOMAIN txns -> MetaRecords] /\ half[i].attempts = meta[i].attempts
    BY <1>2 DEF MetaRecords
  <2>2. meta' = [half EXCEPT ![t].due = TRUE]
    BY <1>4
  <2> HIDE DEF half
  <2> QED BY <2>1, <2>2 DEF MetaRecords
<1>5. ASSUME NEW t, meta' = [meta EXCEPT ![t].leased = FALSE] \/ meta' = [meta EXCEPT ![t].old = TRUE]
      PROVE  meta'[i].attempts = meta[i].attempts
  BY <1>2, <1>5 DEF MetaRecords
<1> QED BY <1>3, <1>4, <1>5

(* Every step keeps the counts.                                            *)
LEMMA AttemptsStep ==
  ASSUME PendingInv, [PendingNext]_pendingVars
  PROVE  AttemptsGrow
<1>inv. TypeInv /\ LocksInv /\ WorkerTypes /\ meta \in [DOMAIN txns -> MetaRecords]
  BY DEF PendingInv, WorkerTypes, SharedInv, EffectsInv, UniqueInv, LedgerInv
<1>1. CASE CreateWalletStep \/ \E s \in Sessions : SessionStep(s)
  <2>1. Next /\ ExtendRows
    BY <1>1 DEF CreateWalletStep, SessionStep, Next
  <2> QED BY <1>inv, <2>1, RowsAppended, RowsExtended DEF AttemptsGrow
<1>2. CASE \E s \in Sessions : SessionVictim(s)
  BY <1>inv, <1>2, ColumnsReset DEF SessionVictim
<1>3. CASE \E t \in DOMAIN txns : LeaseEnds(t) \/ BackoffEnds(t) \/ GrowsOld(t)
  BY <1>inv, <1>3, ColumnsReset DEF LeaseEnds, BackoffEnds, GrowsOld
<1>4. ASSUME NEW k \in Workers, Quiet(k) PROVE AttemptsGrow
  <2>1. CASE Claim(k)
    BY <2>1, ClaimCounts
  <2>2. CASE NextRow(k) \/ LockRow(k) \/ LockPendingWallet(k) \/ ApplyPending(k) \/ ReadWallet(k)
    BY <1>inv, <2>2, ColumnsReset DEF NextRow, LockRow, LockPendingWallet, ApplyPending, ReadWallet
  <2>3. CASE Leaves(k)
    BY <1>inv, <2>3, ColumnsReset
       DEF Leaves, StillPending, ResolveConflict, WorkerVictim, WorkerCrash
  <2> QED BY <1>4, <2>1, <2>2, <2>3 DEF Quiet
<1>5. ASSUME NEW k \in Workers, Resolve(k) \/ Expire(k) PROVE AttemptsGrow
  BY <1>inv, <1>5, ColumnsReset DEF Resolve, Expire, Settle
<1>6. CASE UNCHANGED pendingVars
  BY <1>inv, <1>6, ColumnsReset DEF pendingVars
<1> QED BY <1>1, <1>2, <1>3, <1>4, <1>5, <1>6, PendingCases

(* A worker that neither claims nor takes up a row stays with its own.     *)
Keeps(k) ==
  /\ batch'[k] \subseteq batch[k]
  /\ step'[k] \in BusySteps => step[k] \in BusySteps /\ current'[k] = current[k]

LEMMA EndKeeps ==
  ASSUME WorkerTypes, NEW k \in Workers, NEW j \in Workers, (EndRow(k) /\ UNCHANGED batch) \/ Abort(k)
  PROVE  Keeps(j)
BY DEF EndRow, Abort, Goto, WorkerTypes, Keeps, BusySteps, RowSteps

LEMMA OthersKeep ==
  ASSUME PendingInv, [PendingNext]_pendingVars, NEW j \in Workers,
         ~Claim(j), ~NextRow(j)
  PROVE  Keeps(j)
<1>inv. WorkerTypes
  BY DEF PendingInv
<1>1. CASE UNCHANGED workerVars
  BY <1>1 DEF workerVars, Keeps
<1>2. ASSUME NEW k \in Workers, Quiet(k) PROVE Keeps(j)
  <2>1. CASE Claim(k)
    BY <1>inv, <2>1 DEF Claim, Goto, Keeps, WorkerTypes
  <2>2. CASE NextRow(k)
    BY <1>inv, <2>2 DEF NextRow, Goto, Keeps, WorkerTypes
  <2>3. CASE LockRow(k)
    <3>1. CASE EndRow(k) /\ UNCHANGED batch
      BY <1>inv, <3>1, EndKeeps
    <3>2. CASE ~EndRow(k)
      BY <1>inv, <2>3, <3>2 DEF LockRow, Goto, Keeps, WorkerTypes, BusySteps, RowSteps
    <3> QED BY <2>3, <3>1, <3>2 DEF LockRow
  <2>4. CASE LockPendingWallet(k) \/ ApplyPending(k) \/ ReadWallet(k)
    BY <1>inv, <2>4 DEF LockPendingWallet, ApplyPending, ReadWallet, Goto, Keeps, WorkerTypes,
       BusySteps, RowSteps
  <2>5. CASE Leaves(k)
    BY <1>inv, <2>5, EndKeeps DEF Leaves, StillPending, ResolveConflict, WorkerVictim, WorkerCrash
  <2> QED BY <1>2, <2>1, <2>2, <2>3, <2>4, <2>5 DEF Quiet
<1>3. ASSUME NEW k \in Workers, Resolve(k) \/ Expire(k) PROVE Keeps(j)
  BY <1>inv, <1>3, EndKeeps DEF Resolve, Expire, Settle
<1>4. CASE CreateWalletStep \/ \E s \in Sessions : SessionStep(s) \/ SessionVictim(s)
  BY <1>1, <1>4 DEF CreateWalletStep, SessionStep, SessionVictim
<1>5. CASE \E t \in DOMAIN txns : LeaseEnds(t) \/ BackoffEnds(t) \/ GrowsOld(t)
  BY <1>1, <1>5 DEF LeaseEnds, BackoffEnds, GrowsOld
<1>6. CASE UNCHANGED pendingVars
  BY <1>1, <1>6 DEF pendingVars
<1> QED BY <1>2, <1>3, <1>4, <1>5, <1>6, PendingCases

LEMMA CountsStep ==
  ASSUME PendingInv, [PendingNext]_pendingVars, NEW k \in Workers, Counts(k)
  PROVE  Counts(k)'
<1>inv. WorkerTypes /\ WorkerOK(k)
  BY DEF PendingInv
<1>1. AttemptsGrow
  BY AttemptsStep
<1>2. /\ \A r \in batch[k] : r.tx \in DOMAIN txns /\ meta'[r.tx].attempts > 0
      /\ step[k] \in BusySteps => meta'[current[k]].attempts > 0
  BY <1>inv, <1>1 DEF Counts, WorkerTypes, WorkerOK, WorksOn, BusySteps, AttemptsGrow
<1>3. CASE Claim(k)
  <2>1. step'[k] = "next"
    BY <1>inv, <1>3 DEF Claim, Goto, WorkerTypes
  <2> QED BY <1>3, <2>1, ClaimCounts DEF Counts, BusySteps, RowSteps
<1>4. CASE NextRow(k)
  <2>1. PICK r \in batch[k] : /\ batch'   = [batch EXCEPT ![k] = @ \ {r}]
                              /\ current' = [current EXCEPT ![k] = r.tx]
    BY <1>4 DEF NextRow
  <2>2. batch'[k] \subseteq batch[k] /\ current'[k] = r.tx
    BY <1>inv, <2>1 DEF WorkerTypes
  <2> QED BY <1>2, <2>1, <2>2 DEF Counts
<1>5. CASE ~Claim(k) /\ ~NextRow(k)
  <2>1. Keeps(k)
    BY <1>5, OthersKeep
  <2> QED BY <1>2, <2>1 DEF Keeps, Counts
<1> QED BY <1>3, <1>4, <1>5

(* The drafts of sessions and workers report the balance they leave.       *)
LEMMA DraftsObserveKept ==
  ASSUME PendingInv, DraftsObserve, [PendingNext]_pendingVars
  PROVE  DraftsObserve'
<1>inv. TypeInv
  BY DEF PendingInv, SharedInv, EffectsInv, UniqueInv, LedgerInv
<1>1. CASE UNCHANGED <<pc, draft>>
  BY <1>1 DEF DraftsObserve, Observes
<1>2. CASE CreateWalletStep \/ \E s \in Sessions : SessionStep(s)
  <2>1. Next
    BY <1>2 DEF CreateWalletStep, SessionStep, Next
  <2> QED BY <1>inv, <2>1, DraftsObserveStep
<1>3. ASSUME NEW s \in Sessions, SessionVictim(s) PROVE DraftsObserve'
  BY <1>inv, <1>3, RetryStops DEF SessionVictim, DraftsObserve, Observes, LockedSteps
<1>4. ASSUME NEW k \in Workers, Quiet(k) \/ Resolve(k) \/ Expire(k) PROVE DraftsObserve'
  <2>1. WorkerFrame(k)
    BY <1>4, QuietOK, ResolveSettles, ExpireSettles DEF WorkerLocal
  <2> QED BY <1>1, <2>1 DEF WorkerFrame, locals
<1>5. CASE \E t \in DOMAIN txns : LeaseEnds(t) \/ BackoffEnds(t) \/ GrowsOld(t)
  BY <1>1, <1>5 DEF LeaseEnds, BackoffEnds, GrowsOld, vars, locals
<1>6. CASE UNCHANGED pendingVars
  BY <1>1, <1>6 DEF pendingVars, vars, locals
<1> QED BY <1>2, <1>3, <1>4, <1>5, <1>6, PendingCases

LEMMA HeldObserves ==
  ASSUME PendingInv, [PendingNext]_pendingVars, NEW k \in Workers,
         step[k] = "flush" => Observes(held[k].draft), step'[k] = "flush"
  PROVE  Observes(held'[k].draft)
<1>1. CASE step[k] = "flush"
  BY <1>1, HeldRows
<1>2. CASE step[k] # "flush"
  <2>1. ApplyPending(k) /\ WorkerTypes
    BY <1>2, FlushEntered DEF PendingInv
  <2>2. PICK o \in Apply(held[k].copy, txns, current[k], txns[current[k]].payload) :
          held' = [held EXCEPT ![k].draft = o]
    BY <2>1 DEF ApplyPending
  <2>3. Observes(o) /\ held'[k].draft = o
    BY <2>1, <2>2, ApplyObserves DEF WorkerTypes
  <2> QED BY <2>3
<1> QED BY <1>1, <1>2

(* A row that stays keeps its story, a new row begins one.                 *)
LEMMA StoryStays ==
  ASSUME AttemptsGrow, NEW t \in DOMAIN txns, Story(t), txns'[t] = txns[t],
         EventsOf(t)' = EventsOf(t), \A i \in EventsOf(t) : outbox'[i] = outbox[i]
  PROVE  Story(t)'
<1>1. PICK types, n : types = ParkedFirst(t) \o EventTypes(txns[t]) /\ n = Len(ParkedFirst(t))
  OBVIOUS
<1>2. types = (ParkedFirst(t) \o EventTypes(txns[t]))' /\ n = Len(ParkedFirst(t))'
  <2>1. ParkedFirst(t)' = ParkedFirst(t) /\ EventTypes(txns[t])' = EventTypes(txns[t])
    BY DEF AttemptsGrow, ParkedFirst, Pending, EventTypes
  <2> QED BY <1>1, <2>1
<1>3. CASE txns[t].payload.kind # "OPENING"
  <2>1. Tells(t, types, n)
    BY <1>1, <1>3 DEF Story
  <2>2. Tells(t, types, n)'
    BY <2>1, TellsStays
  <2> QED BY <1>2, <2>2 DEF Story
<1> QED BY <1>3 DEF Story

LEMMA TypesOfRow ==
  ASSUME NEW row
  PROVE  EventTypes(row) \in Seq({row.status, "PROCESSED", "BALANCE_CHANGED"})
<1>1. PICK st : st = row.status
  OBVIOUS
<1>2. <<"PROCESSED", "BALANCE_CHANGED">> \in Seq({st, "PROCESSED", "BALANCE_CHANGED"})
  OBVIOUS
<1>3. <<st>> \in Seq({st, "PROCESSED", "BALANCE_CHANGED"})
  OBVIOUS
<1> QED BY <1>1, <1>2, <1>3 DEF EventTypes

LEMMA ServiceStory ==
  ASSUME StoryInv, CreateWalletStep \/ \E s \in Sessions : SessionStep(s)
  PROVE  EventsHaveRows' /\ \A t \in DOMAIN txns' : Story(t)'
<1>inv. /\ PendingInv /\ EffectsInv /\ TypeInv /\ LocksInv /\ WorkerTypes
        /\ DraftsObserve /\ EventsHaveRows
  BY DEF StoryInv, PendingInv, SharedInv, EffectsInv, UniqueInv, LedgerInv
<1>1. Next /\ ExtendRows /\ PendingNext
  BY DEF CreateWalletStep, SessionStep, Next, PendingNext
<1>2. RowsAnnounced
  BY <1>inv, <1>1, ServiceAnnounces
<1>3. ASSUME NEW t \in DOMAIN txns PROVE Story(t)'
  BY <1>inv, <1>1, <1>2, <1>3, AttemptsStep, StoryStays DEF StoryInv, RowsAnnounced
<1>4. ASSUME NEW t \in DOMAIN txns' \ DOMAIN txns PROVE Story(t)'
  <2>1. meta'[t] = FreshMeta
    BY <1>inv, <1>1, <1>4, RowsAppended, RowsExtended
  <2>2. ParkedFirst(t)' = << >>
    BY <2>1 DEF ParkedFirst, FreshMeta
  <2>3. /\ (ParkedFirst(t) \o EventTypes(txns[t]))' = EventTypes(txns[t])'
        /\ Len(ParkedFirst(t))' = 0
    <3>1. PICK types : types = EventTypes(txns[t])'
      OBVIOUS
    <3>2. PICK S : types \in Seq(S)
      BY <3>1, TypesOfRow
    <3>3. << >> \o types = types /\ Len(<< >>) = 0
      BY <3>2
    <3> QED BY <2>2, <3>1, <3>3
  <2>4. txns'[t].payload.kind # "OPENING" => Tells(t, EventTypes(txns[t]), 0)'
    BY <1>2, <1>4 DEF RowsAnnounced
  <2> QED BY <2>3, <2>4 DEF Story
<1> QED BY <1>2, <1>3, <1>4 DEF RowsAnnounced

(* A settlement adds the result to the story of its row, once.             *)
LEMMA SettleTells ==
  ASSUME StoryInv, [PendingNext]_pendingVars, NEW k \in Workers, NEW o \in Outcomes,
         Settle(k, o), step[k] \in RowSteps, o.status # "PENDING_REFERENCE", Observes(o)
  PROVE  EventsHaveRows' /\ \A t \in DOMAIN txns' : Story(t)'
<1>inv. /\ PendingInv /\ TypeInv /\ WorkerTypes /\ outbox \in Seq(EventRecords)
        /\ EventsHaveRows /\ AttemptsGrow
  BY AttemptsStep
     DEF StoryInv, PendingInv, SharedInv, EffectsInv, UniqueInv, LedgerInv, TypeInv, TablesTypeOK
<1>1. PICK t, p, kind, w, row, events, n :
        /\ t = current[k] /\ p = txns[t].payload /\ kind = p.kind /\ w = p.wallet
        /\ row = Row(txns[t].key, p, o) /\ events = Events(t, kind, w, o) /\ n = Len(outbox)
  OBVIOUS
<1>2. /\ txns' = [txns EXCEPT ![t] = row] /\ outbox' = outbox \o events
  BY <1>1 DEF Settle
<1>3. /\ t \in DOMAIN txns /\ t \in Nat \ {0} /\ txns[t].status = "PENDING_REFERENCE"
      /\ w \in Wallets /\ kind \in ProviderKinds
  <2>1. /\ t \in DOMAIN txns /\ txns[t].status = "PENDING_REFERENCE"
        /\ w \in Wallets /\ kind \in ProviderKinds
    BY <1>inv, <1>1, WorkerHolds
  <2> QED BY <1>inv, <2>1, RowsNumbered
<1>4. /\ row.status = o.status /\ row.payload.kind = kind /\ row.failure = o.failure
      /\ row.observed = o.observed
  BY <1>1 DEF Row
<1>5. /\ txns'[t] = row /\ DOMAIN txns' = DOMAIN txns
      /\ \A u \in DOMAIN txns : u # t => txns'[u] = txns[u]
  BY <1>2, <1>3
<1>6. /\ EventTypes(row) \in Seq({o.status, "BALANCE_CHANGED"})
      /\ DOMAIN events = DOMAIN EventTypes(row)
      /\ \A i \in DOMAIN events :
           /\ events[i].tx = t /\ events[i].type = EventTypes(row)[i]
           /\ events[i].failure = o.failure /\ events[i].balance = o.wallet.balance
  <2>1. row.status = o.status /\ row.payload.kind = kind /\ events = Events(t, kind, w, o)
    BY <1>1, <1>4
  <2> QED BY ONLY <2>1, EventsOfOutcome
<1>7. StagedFor(t, events, n) /\ n \in Nat
  <2>1. events \in Seq(EventRecords)
    BY <1>1, <1>3, EventsOK
  <2> QED BY <1>inv, <1>1, <1>2, <1>6, <2>1, EventsStaged, LenProperties
<1>8. EventsHaveRows'
  <2>1. row.payload = txns[t].payload /\ kind # "OPENING"
    BY <1>1, <1>3 DEF Row, ProviderKinds
  <2>2. /\ \A u \in DOMAIN txns : u \in DOMAIN txns' /\ txns'[u].payload = txns[u].payload
        /\ t \in DOMAIN txns' /\ txns'[t].payload.kind # "OPENING"
    BY <1>3, <1>4, <1>5, <2>1
  <2> QED BY <1>inv, <1>7, <2>2, OwnedStays
<1>9. ASSUME NEW u \in DOMAIN txns, u # t PROVE Story(u)'
  <2>1. EventsOf(u)' = EventsOf(u) /\ \A i \in EventsOf(u) : outbox'[i] = outbox[i]
    BY <1>7, <1>9 DEF StagedFor, EventsOf
  <2> QED BY <1>inv, <1>5, <1>9, <2>1, StoryStays DEF StoryInv
<1>10. meta[t].attempts > 0
  BY <1>1 DEF StoryInv, Counts, BusySteps
<1>11. PICK parked, types : /\ parked = <<"PENDING_REFERENCE">> /\ types = EventTypes(row)
  OBVIOUS
<1>12. Tells(t, parked, 0)
  <2>1. Tells(t, ParkedFirst(t) \o EventTypes(txns[t]), Len(ParkedFirst(t)))
    BY <1>1, <1>3 DEF StoryInv, Story, ProviderKinds
  <2>2. ParkedFirst(t) = << >> /\ EventTypes(txns[t]) = parked
    BY <1>3, <1>11 DEF ParkedFirst, Pending, EventTypes
  <2>3. << >> \o parked = parked /\ Len(<< >>) = 0
    BY <1>11
  <2> QED BY <2>1, <2>2, <2>3
<1>13. Tells(t, parked \o types, Len(parked))'
  <2> DEFINE S == {o.status, "BALANCE_CHANGED", "PENDING_REFERENCE"}
  <2>1. parked \in Seq(S) /\ types \in Seq(S)
    BY <1>6, <1>11
  <2>2. \A i \in DOMAIN events :
          /\ events[i].type = types[i] /\ events[i].failure = txns'[t].failure
          /\ txns'[t].observed # NoBalance => events[i].balance = txns'[t].observed
    BY <1>4, <1>5, <1>6, <1>11 DEF Observes
  <2> HIDE DEF S
  <2> QED BY <1>6, <1>7, <1>11, <1>12, <2>1, <2>2, TellsMore
<1>14. Story(t)'
  <2>1. ParkedFirst(t)' = parked /\ EventTypes(txns[t])' = types
    BY <1>inv, <1>3, <1>4, <1>5, <1>10, <1>11 DEF ParkedFirst, Pending, AttemptsGrow, EventTypes
  <2> QED BY <1>13, <2>1 DEF Story
<1> QED BY <1>5, <1>8, <1>9, <1>14

LEMMA StoryStep ==
  ASSUME StoryInv, [PendingNext]_pendingVars
  PROVE  StoryInv'
<1>inv. /\ PendingInv /\ DraftsObserve /\ EventsHaveRows /\ AttemptsGrow
        /\ \A k \in Workers : Counts(k) /\ (step[k] = "flush" => Observes(held[k].draft))
        /\ \A t \in DOMAIN txns : Story(t)
  BY AttemptsStep DEF StoryInv
<1>1. PendingInv' /\ DraftsObserve'
  BY <1>inv, PendingStep, DraftsObserveKept
<1>2. \A k \in Workers : Counts(k)' /\ (step'[k] = "flush" => Observes(held'[k].draft))
  BY <1>inv, CountsStep, HeldObserves
<1>3. EventsHaveRows' /\ \A t \in DOMAIN txns' : Story(t)'
  <2>1. CASE UNCHANGED tables
    <3>1. UNCHANGED <<txns, outbox>>
      BY <2>1 DEF tables
    <3>2. \A t : EventsOf(t)' = EventsOf(t)
      BY <3>1 DEF EventsOf
    <3> QED BY <1>inv, <3>1, <3>2, StoryStays DEF EventsHaveRows
  <2>2. CASE CreateWalletStep \/ \E s \in Sessions : SessionStep(s)
    BY <2>2, ServiceStory
  <2>3. ASSUME NEW k \in Workers, Resolve(k)
        PROVE  EventsHaveRows' /\ \A t \in DOMAIN txns' : Story(t)'
    <3>1. /\ step[k] = "flush" /\ Settle(k, held[k].draft)
          /\ held[k].draft.status # "PENDING_REFERENCE"
      BY <2>3 DEF Resolve
    <3>2. held[k].draft \in Outcomes
      BY <1>inv, <2>3, ResolveSettles DEF Settlement, Writes
    <3> QED BY <1>inv, <3>1, <3>2, SettleTells DEF RowSteps
  <2>4. ASSUME NEW k \in Workers, Expire(k)
        PROVE  EventsHaveRows' /\ \A t \in DOMAIN txns' : Story(t)'
    <3> DEFINE r == Rejected(held[k].copy, NoTx, "REFERENCE_NOT_FOUND")
    <3>1. step[k] = "reject" /\ Settle(k, r)
      BY <2>4 DEF Expire
    <3>2. held[k].copy \in WalletRecords /\ held[k].copy.balance \in Nat
      BY <1>inv, <3>1 DEF PendingInv, WorkerOK, WorksOn, WalletRecords
    <3>3. r \in Outcomes /\ r.status = "REJECTED" /\ Observes(r)
      BY <3>2 DEF Rejected, Outcomes, Statuses, RejectionCodes, NoTx, NoMove, Observes
    <3> HIDE DEF r
    <3> QED BY <3>1, <3>3, SettleTells DEF RowSteps
  <2>5. CASE \E s \in Sessions : SessionVictim(s)
    BY <2>1, <2>5 DEF SessionVictim
  <2>6. CASE \E t \in DOMAIN txns : LeaseEnds(t) \/ BackoffEnds(t) \/ GrowsOld(t)
    BY <2>1, <2>6 DEF LeaseEnds, BackoffEnds, GrowsOld, vars
  <2>7. CASE \E k \in Workers : Quiet(k)
    BY <1>inv, <2>1, <2>7, QuietOK
  <2>8. CASE UNCHANGED pendingVars
    BY <2>1, <2>8 DEF pendingVars, vars
  <2> QED BY <2>2, <2>3, <2>4, <2>5, <2>6, <2>7, <2>8, PendingCases
<1> QED BY <1>1, <1>2, <1>3 DEF StoryInv

LEMMA StoryInit ==
  ASSUME PendingInit
  PROVE  StoryInv
<1>1. Init /\ txns = << >> /\ DOMAIN txns = {}
  BY DEF PendingInit, Init
<1>2. DraftsObserve /\ EventsHaveRows
  BY <1>1, EventsInit DEF EventsInv
<1> QED BY <1>1, <1>2, PendingInitOK DEF PendingInit, StoryInv, Counts, BusySteps, RowSteps

(* Consumers of the outbox hear the whole story of each row and nothing    *)
(* else: that it was parked, if a worker had to settle it, then its result *)
(* exactly once, then its balance if money moved, as the row stores them,  *)
(* whatever crashes, deadlocks, expired leases and retries came between.   *)
THEOREM WorkersTellStory == PendingSpec => []OutboxTellsStory
<1>1. StoryInv => OutboxTellsStory
  BY DEF StoryInv, Story, ParkedFirst, OutboxTellsStory
<1> QED BY <1>1, StoryInit, StoryStep, PTL DEF PendingSpec
-------------------------------------------------------------------------------
(* Refusals are final                                                      *)

(* What a worker is about to store refers to the row its operation names.  *)
HeldRefers(k) ==
  LET p == txns[current[k]].payload
      o == held[k].draft
  IN  step[k] = "flush" /\ o.status = "PROCESSED" =>
        IF ShouldResolveReference(p) THEN Refers(p, o.ref) ELSE o.ref = NoTx

PendingRefusalInv == PendingInv /\ ReasonsInv /\ \A k \in Workers : HeldRefers(k)

(* The reasons of a refusal outlive the workers' steps too: they move only *)
(* parked rows, which are no rejections and use up no reference.           *)
LEMMA ReasonsRemain ==
  ASSUME PendingInv, [PendingNext]_pendingVars
  PROVE  /\ \A c : Contradicted(c) => Contradicted(c)'
         /\ \A a : Recorded(a) => Recorded(a)'
         /\ \A p : Exhausted(p) => Exhausted(p)'
         /\ \A p, i : Refers(p, i) => Refers(p, i)'
<1>1. \A i \in DOMAIN txns :
        /\ i \in DOMAIN txns'
        /\ txns'[i].key = txns[i].key /\ txns'[i].payload = txns[i].payload
        /\ txns[i].status # "PENDING_REFERENCE" => txns'[i] = txns[i]
  BY RowsOfStep DEF SettlesOne, KeepsRows, Pending
<1>2. \A i \in DOMAIN txns : i # NoTx /\ (txns[i].status = "PENDING_REFERENCE" => txns[i].ref = NoTx)
  <2>1. TypeInv /\ ParkedUnlinked
    BY DEF PendingInv, SharedInv, EffectsInv, UniqueInv, LedgerInv
  <2> QED BY <2>1, RowsNumbered DEF ParkedUnlinked, NoTx
<1>3. ASSUME NEW c, Contradicted(c) PROVE Contradicted(c)'
  BY <1>1, <1>3 DEF Contradicted
<1>4. ASSUME NEW a, Recorded(a) PROVE Recorded(a)'
  BY <1>1, <1>4 DEF Recorded
<1>5. ASSUME NEW p, NEW i, Refers(p, i) PROVE Refers(p, i)'
  BY <1>1, <1>5 DEF Refers
<1>6. ASSUME NEW p, Exhausted(p) PROVE Exhausted(p)'
  <2>1. PICK i \in DOMAIN txns, j \in DOMAIN txns :
          /\ ShouldResolveReference(p) /\ Refers(p, i)
          /\ txns[j].ref = i /\ txns[j].payload.kind = p.kind
          /\ txns[j].status \in ActiveStatus
    BY <1>6 DEF Exhausted
  <2>2. j \in DOMAIN txns' /\ txns'[j] = txns[j] /\ i \in DOMAIN txns'
    BY <1>1, <1>2, <2>1
  <2>3. Refers(p, i)'
    BY <1>5, <2>1
  <2> QED BY <2>1, <2>2, <2>3 DEF Exhausted
<1> QED BY <1>3, <1>4, <1>5, <1>6

(* So a step that gives no answer keeps them all.                          *)
LEMMA ReasonsUntouched ==
  ASSUME PendingRefusalInv, [PendingNext]_pendingVars, UNCHANGED <<pc, locals, answer>>
  PROVE  ReasonsInv'
<1>1. /\ \A c : Contradicted(c) => Contradicted(c)'
      /\ \A a : Recorded(a) => Recorded(a)'
      /\ \A p : Exhausted(p) => Exhausted(p)'
      /\ \A p, i : Refers(p, i) => Refers(p, i)'
  BY ReasonsRemain DEF PendingRefusalInv
<1>2. UNCHANGED <<pc, call, draft, answer>>
  BY DEF locals
<1>3. ASSUME NEW s \in Sessions
      PROVE  (Grounded(answer[s]) /\ DraftRefers(s) /\ NotParked(s))'
  <2>1. Grounded(answer[s]) /\ DraftRefers(s) /\ NotParked(s)
    BY DEF PendingRefusalInv, ReasonsInv
  <2>2. Grounded(answer[s])'
    BY <1>1, <1>2, <2>1 DEF Grounded
  <2>3. DraftRefers(s)'
    BY <1>1, <1>2, <2>1 DEF DraftRefers
  <2>4. NotParked(s)'
    BY <1>2, <2>1 DEF NotParked
  <2> QED BY <2>2, <2>3, <2>4
<1> QED BY <1>3 DEF ReasonsInv

(* The victim of a deadlock is answered 503 at worst.                      *)
LEMMA VictimReasons ==
  ASSUME PendingRefusalInv, NEW s \in Sessions, SessionVictim(s)
  PROVE  ReasonsInv'
<1>1. TypeInv /\ Retry(s) /\ txns' = txns
  BY DEF PendingRefusalInv, PendingInv, SharedInv, EffectsInv, UniqueInv, LedgerInv,
         SessionVictim, tables
<1>2. /\ \A x \in Sessions \ {s} :
           pc'[x] = pc[x] /\ call'[x] = call[x] /\ draft'[x] = draft[x]
      /\ pc'[s] # "flush"
  BY <1>1, RetryStops DEF WritingSteps, LockedSteps
<1>3. /\ \A x \in Sessions \ {s} : answer'[x] = answer[x]
      /\ answer'[s] = answer[s] \/ answer'[s].code = "DEPENDENCY_UNAVAILABLE"
  <2>1. answer' = answer \/ \E a : /\ a.code = "DEPENDENCY_UNAVAILABLE"
                                   /\ answer' = [answer EXCEPT ![s] = a]
    BY <1>1 DEF Retry, Rollback, Finish, Failed, NoAnswer
  <2> QED BY <1>1, <2>1 DEF TypeInv, SessionsTypeOK
<1>4. ASSUME NEW x \in Sessions
      PROVE  (Grounded(answer[x]) /\ DraftRefers(x) /\ NotParked(x))'
  <2>1. Grounded(answer[x]) /\ DraftRefers(x) /\ NotParked(x)
    BY DEF PendingRefusalInv, ReasonsInv
  <2>2. Grounded(answer[x])'
    <3>1. CASE answer'[x] = answer[x]
      BY <1>1, <2>1, <3>1 DEF Grounded, Contradicted, Recorded, Exhausted, Refers
    <3>2. CASE answer'[x].code = "DEPENDENCY_UNAVAILABLE"
      BY <3>2 DEF Grounded
    <3> QED BY <1>3, <3>1, <3>2
  <2>3. DraftRefers(x)'
    BY <1>1, <1>2, <2>1 DEF DraftRefers, Refers
  <2>4. NotParked(x)'
    BY <1>2, <1>3, <2>1 DEF NotParked
  <2> QED BY <2>2, <2>3, <2>4
<1> QED BY <1>4 DEF ReasonsInv

(* A worker's decision refers to a committed row, ...                      *)
LEMMA PendingDecisionRefers ==
  ASSUME WorkerTypes, NEW k \in Workers, ApplyPending(k)
  PROVE  HeldRefers(k)'
<1> DEFINE t == current[k]
           p == txns[t].payload
<1>1. PICK o \in Apply(held[k].copy, txns, t, p) : held' = [held EXCEPT ![k].draft = o]
  BY DEF ApplyPending
<1>2. held'[k].draft = o /\ txns' = txns /\ current' = current
  BY <1>1 DEF ApplyPending, WorkerTypes, vars, tables
<1>3. o.status = "PROCESSED" =>
        IF ShouldResolveReference(p)
        THEN o.ref \in References(txns, p) /\ txns[o.ref].payload.provider = p.provider
        ELSE o.ref = NoTx
  BY <1>1, ApplyRefers
<1>4. ASSUME ShouldResolveReference(p), o.status = "PROCESSED" PROVE Refers(p, o.ref)
  BY <1>3, <1>4 DEF References, Named, Refers
<1>5. ASSUME ShouldResolveReference(p), o.status = "PROCESSED" PROVE Refers(p, o.ref)'
  BY <1>2, <1>4, <1>5 DEF Refers
<1> QED BY <1>2, <1>3, <1>5 DEF HeldRefers

(* ... which its row keeps referring to until the flush.                   *)
LEMMA HeldRefersStep ==
  ASSUME PendingRefusalInv, [PendingNext]_pendingVars, NEW k \in Workers
  PROVE  HeldRefers(k)'
<1>inv. PendingInv /\ WorkerTypes /\ HeldRefers(k)
  BY DEF PendingRefusalInv, PendingInv
<1>1. CASE step'[k] # "flush"
  BY <1>1 DEF HeldRefers
<1>2. CASE step'[k] = "flush" /\ step[k] # "flush"
  BY <1>inv, <1>2, FlushEntered, PendingDecisionRefers
<1>3. CASE step'[k] = "flush" /\ step[k] = "flush"
  <2>1. /\ held'[k] = held[k] /\ current'[k] = current[k]
        /\ RowsMove(txns[current[k]].payload.wallet)
        /\ current[k] \in DOMAIN txns
    BY <1>inv, <1>3, HeldRows, WorkerHolds DEF RowSteps
  <2>2. txns'[current[k]].payload = txns[current[k]].payload
    BY <2>1 DEF RowsMove
  <2>3. \A p, i : Refers(p, i) => Refers(p, i)'
    BY <1>inv, ReasonsRemain
  <2>4. PICK t, p, o : t = current[k] /\ p = txns[t].payload /\ o = held[k].draft
    OBVIOUS
  <2>5. o.status = "PROCESSED" =>
          IF ShouldResolveReference(p) THEN Refers(p, o.ref)' ELSE o.ref = NoTx
    BY <1>inv, <1>3, <2>3, <2>4 DEF HeldRefers
  <2> QED BY <2>1, <2>2, <2>4, <2>5 DEF HeldRefers
<1> QED BY <1>1, <1>2, <1>3

LEMMA PendingRefusalStep ==
  ASSUME PendingRefusalInv, [PendingNext]_pendingVars
  PROVE  PendingRefusalInv'
<1>inv. PendingInv /\ ReasonsInv /\ UniqueInv
  BY DEF PendingRefusalInv, PendingInv, SharedInv, EffectsInv
<1>1. PendingInv'
  BY <1>inv, PendingStep
<1>2. ReasonsInv'
  <2>1. CASE CreateWalletStep \/ \E s \in Sessions : SessionStep(s)
    <3>1. Next
      BY <2>1 DEF CreateWalletStep, SessionStep, Next
    <3> QED BY <1>inv, <3>1, ReasonsStep DEF RefusalInv
  <2>2. CASE \E s \in Sessions : SessionVictim(s)
    BY <2>2, VictimReasons
  <2>3. CASE UNCHANGED <<pc, locals, answer>>
    BY <2>3, ReasonsUntouched
  <2>4. CASE \E k \in Workers : Quiet(k) \/ Resolve(k) \/ Expire(k)
    BY <1>inv, <2>3, <2>4, QuietOK, ResolveSettles, ExpireSettles DEF WorkerLocal, WorkerFrame
  <2>5. CASE \E t \in DOMAIN txns : LeaseEnds(t) \/ BackoffEnds(t) \/ GrowsOld(t)
    BY <2>3, <2>5 DEF LeaseEnds, BackoffEnds, GrowsOld, vars
  <2>6. CASE UNCHANGED pendingVars
    BY <2>3, <2>6 DEF pendingVars, vars
  <2> QED BY <2>1, <2>2, <2>4, <2>5, <2>6, PendingCases
<1> QED BY <1>1, <1>2, HeldRefersStep DEF PendingRefusalInv

LEMMA PendingRefusalInit ==
  ASSUME PendingInit
  PROVE  PendingRefusalInv
<1>1. ReasonsInv
  BY DEF PendingInit, Init, ReasonsInv, Grounded, DraftRefers, NotParked, NoAnswer
<1> QED BY <1>1, PendingInitOK DEF PendingInit, PendingRefusalInv, HeldRefers

(* A worker that settles a parked operation a client was refused rejects   *)
(* it: of the reasons a refusal has, only a used up reference can be that  *)
(* of a parked row, and then the reference index stops the resolution.     *)
LEMMA ResolveRespectsRefusal ==
  ASSUME PendingRefusalInv, NEW k \in Workers, Resolve(k), NEW s \in Sessions,
         Refused(answer[s], txns'[current[k]])
  PROVE  txns'[current[k]].status = "REJECTED"
<1>1. PICK t, p, o : t = current[k] /\ p = txns[t].payload /\ o = held[k].draft
  OBVIOUS
<1>2. /\ Settlement(t, o) /\ KeepsRows /\ PendingInv
      /\ Grounded(answer[s]) /\ HeldRefers(k) /\ step[k] = "flush"
      /\ OneRowPerOperation /\ TypeInv /\ ParkedUnlinked
  <2>1. PendingInv /\ Grounded(answer[s]) /\ HeldRefers(k) /\ step[k] = "flush"
    BY DEF PendingRefusalInv, ReasonsInv, Resolve
  <2>2. OneRowPerOperation /\ TypeInv /\ ParkedUnlinked
    BY <2>1 DEF PendingInv, SharedInv, EffectsInv, UniqueInv, LedgerInv
  <2> QED BY <1>1, <2>1, <2>2, ResolveSettles, SettlingStepOK DEF RowSteps
<1>3. /\ t \in DOMAIN txns /\ txns[t].status = "PENDING_REFERENCE"
      /\ txns'[t].key = txns[t].key /\ txns'[t].payload = p
      /\ txns'[t].status = o.status /\ o.status \in {"PROCESSED", "REJECTED"}
      /\ ~ReferenceKindTaken(o.ref, p.kind, o.status)
  <2>1. /\ t \in DOMAIN txns /\ txns[t].status = "PENDING_REFERENCE"
        /\ txns' = [txns EXCEPT ![t] = Row(@.key, p, o)]
        /\ ~ReferenceKindTaken(o.ref, p.kind, o.status)
    BY <1>1, <1>2 DEF Settlement, Pending
  <2>2. o \in Outcomes /\ o.status # "PENDING_REFERENCE"
    BY <1>1, <1>2 DEF Settlement, Writes
  <2> QED BY <2>1, <2>2 DEF Row, Outcomes, Statuses
<1> SUFFICES ASSUME o.status = "PROCESSED" PROVE FALSE
  BY <1>1, <1>3
<1>4. PICK a : a = answer[s]
  OBVIOUS
<1>5. /\ Grounded(a) /\ a.call # Null /\ a.call.msg = Null /\ a.call.payload = p
      /\ \/ HttpStatus(a) = 422
         \/ HttpStatus(a) = 409 /\ txns[t].key = a.call.key
      /\ a.code \in ErrorCodes \cup {"NONE"}
  <2>1. /\ Grounded(a) /\ Refused(a, txns'[t])
        /\ txns'[t].key = txns[t].key /\ txns'[t].payload = p
    BY <1>1, <1>2, <1>3, <1>4
  <2>2. a.code \in ErrorCodes \cup {"NONE"}
    BY <1>2, <1>4 DEF TypeInv, SessionsTypeOK, Answers
  <2>3. \A row : Refused(a, row) =>
          /\ a.call # Null /\ a.call.msg = Null /\ row.payload = a.call.payload
          /\ HttpStatus(a) = 422 \/ (HttpStatus(a) = 409 /\ row.key = a.call.key)
    BY DEF Refused
  <2> QED BY <2>1, <2>2, <2>3
<1>6. CASE a.code = "NONE"
  <2>1. /\ a.status \in Statuses
        /\ \E i \in DOMAIN txns : /\ txns[i].payload = p
                                  /\ a.status = "REJECTED" => txns[i].status = "REJECTED"
    BY <1>5, <1>6 DEF Grounded, Recorded
  <2>2. a.status = "REJECTED"
    BY <1>5, <1>6, <2>1 DEF HttpStatus, OutputStatus, Statuses
  <2>3. PICK i \in DOMAIN txns : txns[i].payload = p /\ txns[i].status = "REJECTED"
    BY <2>1, <2>2
  <2>4. i = t
    BY <1>1, <1>2, <1>3, <2>3 DEF OneRowPerOperation
  <2> QED BY <1>3, <2>3, <2>4
<1>7. CASE a.code = "IDEMPOTENCY_CONFLICT"
  <2>1. txns[t].key = a.call.key
    BY <1>5, <1>7 DEF HttpStatus, ToHttpError, ErrorStatus
  <2>2. PICK i \in DOMAIN txns :
          /\ txns[i].payload # p
          /\ \/ txns[i].key = a.call.key
             \/ txns[i].payload.provider = p.provider /\ txns[i].payload.ext = p.ext
    BY <1>5, <1>7 DEF Grounded, Contradicted
  <2>3. i = t
    BY <1>1, <1>2, <1>3, <2>1, <2>2 DEF OneRowPerOperation
  <2> QED BY <1>1, <2>2, <2>3
<1>8. CASE a.code \in {"WALLET_NOT_FOUND", "DEPENDENCY_UNAVAILABLE"}
  BY <1>5, <1>8 DEF HttpStatus, ToHttpError, ErrorStatus
<1>9. CASE a.code = "MESSAGE_PERMANENT_FAILURE"
  BY <1>5, <1>9 DEF Grounded
<1>10. CASE a.code = "REFERENCE_ALREADY_REVERSED"
  <2>1. PICK i \in DOMAIN txns, j \in DOMAIN txns :
          /\ ShouldResolveReference(p) /\ Refers(p, i)
          /\ txns[j].ref = i /\ txns[j].payload.kind = p.kind
          /\ txns[j].status \in ActiveStatus
    BY <1>5, <1>10 DEF Grounded, Exhausted
  <2>2. Refers(p, o.ref)
    BY <1>1, <1>2, <2>1 DEF HeldRefers
  <2>3. o.ref = i
    BY <1>2, <2>1, <2>2 DEF Refers, OneRowPerOperation
  <2>4. i # NoTx
    BY <1>2, RowsNumbered DEF NoTx
  <2>5. ReferenceKindTaken(o.ref, p.kind, o.status)
    BY <2>1, <2>3, <2>4 DEF ReferenceKindTaken, ActiveStatus
  <2> QED BY <1>3, <2>5
<1> QED BY <1>5, <1>6, <1>7, <1>8, <1>9, <1>10 DEF ErrorCodes

(* Whoever reads 422, or 409 under a key, reads it for good beside the     *)
(* workers too: no session, and no worker that settles a parked row, later *)
(* carries the operation out.                                              *)
THEOREM WorkersRespectRefusals == PendingSpec => RefusalsAreFinal
<1> DEFINE Final ==
      \A t \in DOMAIN txns' : \A s \in Sessions :
        /\ Refused(answer[s], txns'[t])
        /\ t \in DOMAIN txns => txns'[t] # txns[t]
        => txns'[t].status = "REJECTED"
<1>1. ASSUME PendingRefusalInv, [PendingNext]_pendingVars PROVE Final
  <2> SUFFICES ASSUME NEW t \in DOMAIN txns', NEW s \in Sessions, Refused(answer[s], txns'[t]),
                      t \in DOMAIN txns => txns'[t] # txns[t]
               PROVE  txns'[t].status = "REJECTED"
    OBVIOUS
  <2>inv. PendingInv /\ ReasonsInv /\ UniqueInv /\ PendingInv'
    BY <1>1, PendingStep DEF PendingRefusalInv, PendingInv, SharedInv, EffectsInv
  <2>1. CASE CreateWalletStep \/ \E y \in Sessions : SessionStep(y)
    <3>1. Next
      BY <2>1 DEF CreateWalletStep, SessionStep, Next
    <3>2. UniqueInv'
      BY <2>inv DEF PendingInv, SharedInv, EffectsInv
    <3> QED BY <2>inv, <3>1, <3>2, ServiceRespectsRefusals DEF RefusalInv
  <2>2. CASE UNCHANGED txns
    BY <2>2
  <2>3. ASSUME NEW k \in Workers, Resolve(k) PROVE txns'[t].status = "REJECTED"
    <3>1. Settlement(current[k], held[k].draft) /\ KeepsRows
      BY <2>inv, <2>3, ResolveSettles, SettlingStepOK DEF Resolve, RowSteps
    <3>2. t = current[k]
      BY <3>1, SettlementFinal DEF SettlesOne, KeepsRows
    <3> QED BY <1>1, <2>3, <3>2, ResolveRespectsRefusal
  <2>4. ASSUME NEW k \in Workers, Expire(k) PROVE txns'[t].status = "REJECTED"
    <3>1. PICK o \in Outcomes : Settlement(current[k], o) /\ KeepsRows /\ o.status = "REJECTED"
      BY <2>inv, <2>4, ExpireSettles, SettlingStepOK DEF Expire, RowSteps
    <3>2. t = current[k]
      BY <3>1, SettlementFinal DEF SettlesOne, KeepsRows
    <3> QED BY <3>1, <3>2 DEF Settlement, Row
  <2>5. CASE \E y \in Sessions : SessionVictim(y)
    BY <2>2, <2>5 DEF SessionVictim, tables
  <2>6. CASE \E i \in DOMAIN txns : LeaseEnds(i) \/ BackoffEnds(i) \/ GrowsOld(i)
    BY <2>2, <2>6 DEF LeaseEnds, BackoffEnds, GrowsOld, vars, tables
  <2>7. CASE \E k \in Workers : Quiet(k)
    BY <2>inv, <2>2, <2>7, QuietOK DEF tables
  <2>8. CASE UNCHANGED pendingVars
    BY <2>2, <2>8 DEF pendingVars, vars, tables
  <2> QED BY <1>1, <2>1, <2>3, <2>4, <2>5, <2>6, <2>7, <2>8, PendingCases
<1>2. PendingRefusalInv /\ [PendingNext]_pendingVars => [Final]_vars
  BY <1>1
<1>3. PendingSpec => []PendingRefusalInv
  BY PendingRefusalInit, PendingRefusalStep, PTL DEF PendingSpec
<1>4. PendingSpec => [][Final]_vars
  BY <1>2, <1>3, PTL DEF PendingSpec
<1> QED BY <1>4 DEF RefusalsAreFinal, Final

-------------------------------------------------------------------------------
(* References are used once beside the workers                             *)

(* The row a worker settles is the first of its kind to use its reference. *)
LEMMA ResolveUsesFirst ==
  ASSUME PendingRefusalInv, NEW k \in Workers, Resolve(k)
  PROVE  FirstUse(txns'[current[k]])
<1>1. PICK t, p, o : t = current[k] /\ p = txns[t].payload /\ o = held[k].draft
  OBVIOUS
<1>2. /\ Settlement(t, o) /\ HeldRefers(k) /\ step[k] = "flush" /\ TypeInv
      /\ ~ReferenceKindTaken(o.ref, p.kind, o.status)
  <2>1. PendingInv /\ HeldRefers(k) /\ step[k] = "flush"
        /\ ~ReferenceKindTaken(o.ref, p.kind, o.status)
    BY <1>1 DEF PendingRefusalInv, Resolve
  <2>2. TypeInv
    BY <2>1 DEF PendingInv, SharedInv, EffectsInv, UniqueInv, LedgerInv
  <2> QED BY <1>1, <2>1, <2>2, ResolveSettles
<1>3. t \in DOMAIN txns /\ txns' = [txns EXCEPT ![t] = Row(@.key, p, o)]
  BY <1>1, <1>2 DEF Settlement
<1>4. PICK row : row = txns'[t] /\ row.payload = p /\ row.status = o.status /\ row.ref = o.ref
  BY <1>3 DEF Row
<1> SUFFICES ASSUME UsesReference(row)
             PROVE  /\ Refers(p, o.ref)
                    /\ \A u \in DOMAIN txns :
                         UsesReference(txns[u]) /\ txns[u].ref = o.ref
                           => txns[u].payload.kind # p.kind
  BY <1>1, <1>4 DEF FirstUse
<1>5. o.status = "PROCESSED" /\ ShouldResolveReference(p) /\ Refers(p, o.ref)
  BY <1>1, <1>2, <1>4 DEF UsesReference, HeldRefers
<1>6. o.ref # NoTx
  BY <1>2, <1>5, RowsNumbered DEF Refers, NoTx
<1> QED BY <1>2, <1>5, <1>6 DEF ReferenceKindTaken, UsesReference, ActiveStatus

LEMMA LinksStep ==
  ASSUME PendingRefusalInv, LinkedOnce, [PendingNext]_pendingVars
  PROVE  LinkedOnce'
<1>inv. PendingInv /\ ReasonsInv /\ UniqueInv
  BY DEF PendingRefusalInv, PendingInv, SharedInv, EffectsInv
<1>1. CASE CreateWalletStep \/ \E s \in Sessions : SessionStep(s)
  <2>1. Next
    BY <1>1 DEF CreateWalletStep, SessionStep, Next
  <2> QED BY <1>inv, <2>1, ServiceKeepsLinks DEF RefusalInv
<1>2. CASE UNCHANGED txns
  BY <1>2 DEF LinkedOnce, Refers
<1>3. ASSUME NEW t \in DOMAIN txns, SettlesOne(t), FirstUse(txns'[t])
      PROVE  LinkedOnce'
  <2>1. PICK row : row = txns'[t] /\ FirstUse(row)
    BY <1>3
  <2>2. /\ DOMAIN txns' = DOMAIN txns \cup {t}
        /\ \A u \in DOMAIN txns \ {t} : txns'[u] = txns[u]
        /\ \A u \in DOMAIN txns : txns'[u].payload = txns[u].payload
    BY <1>3 DEF SettlesOne, KeepsRows
  <2> QED BY <2>1, <2>2, FirstUseKeepsLinks
<1>4. ASSUME NEW k \in Workers, Resolve(k) PROVE LinkedOnce'
  <2>1. Settlement(current[k], held[k].draft) /\ KeepsRows
    BY <1>inv, <1>4, ResolveSettles, SettlingStepOK DEF Resolve, RowSteps
  <2>2. current[k] \in DOMAIN txns /\ SettlesOne(current[k])
    BY <2>1, SettlementFinal DEF Settlement
  <2> QED BY <1>3, <1>4, <2>2, ResolveUsesFirst
<1>5. ASSUME NEW k \in Workers, Expire(k) PROVE LinkedOnce'
  <2>1. PICK o \in Outcomes : Settlement(current[k], o) /\ KeepsRows /\ o.status = "REJECTED"
    BY <1>inv, <1>5, ExpireSettles, SettlingStepOK DEF Expire, RowSteps
  <2>2. current[k] \in DOMAIN txns /\ SettlesOne(current[k])
    BY <2>1, SettlementFinal DEF Settlement
  <2>3. FirstUse(txns'[current[k]])
    BY <2>1 DEF Settlement, Row, FirstUse, UsesReference
  <2> QED BY <1>3, <2>2, <2>3
<1>6. CASE \E s \in Sessions : SessionVictim(s)
  BY <1>2, <1>6 DEF SessionVictim, tables
<1>7. CASE \E i \in DOMAIN txns : LeaseEnds(i) \/ BackoffEnds(i) \/ GrowsOld(i)
  BY <1>2, <1>7 DEF LeaseEnds, BackoffEnds, GrowsOld, vars, tables
<1>8. CASE \E k \in Workers : Quiet(k)
  BY <1>inv, <1>2, <1>8, QuietOK DEF tables
<1>9. CASE UNCHANGED pendingVars
  BY <1>2, <1>9 DEF pendingVars, vars, tables
<1> QED BY <1>1, <1>4, <1>5, <1>6, <1>7, <1>8, <1>9, PendingCases

(* Sessions and workers together use a reference once for each kind: a     *)
(* parked WIN, REFUND or ROLLBACK that finds its reference late competes   *)
(* with every session that came meanwhile, and one of them gets it.        *)
THEOREM WorkersUseReferencesOnce == PendingSpec => []ReferencesUsedOnce
<1>1. PendingInit => PendingRefusalInv /\ LinkedOnce
  BY PendingRefusalInit DEF PendingInit, Init, LinkedOnce
<1>2. PendingRefusalInv /\ LinkedOnce /\ [PendingNext]_pendingVars
        => (PendingRefusalInv /\ LinkedOnce)'
  BY PendingRefusalStep, LinksStep
<1>3. PendingRefusalInv /\ LinkedOnce => ReferencesUsedOnce
  BY LinksAreNames DEF PendingRefusalInv, PendingInv, SharedInv, EffectsInv, UniqueInv
<1> QED BY <1>1, <1>2, <1>3, PTL DEF PendingSpec

-------------------------------------------------------------------------------
(* Answers and the inbox beside the workers                                *)

(* An answer still tells its row, unless it said that the row is parked    *)
(* and a worker has settled it since.                                      *)
Stands(a) ==
  /\ a.tx \in DOMAIN txns
  /\ txns[a.tx].payload = a.call.payload
  /\ a.status # "PENDING_REFERENCE" \/ Pending(a.tx) =>
       a = Output(a.call, a.tx, txns[a.tx], a.replay)

AnswersStand == \A s \in Sessions : answer[s].tx # NoTx => Stands(answer[s])

PromisesInv == PendingInv /\ AnswersStand /\ StagedInv /\ InboxHasTransaction

(* No step takes an answer back, ...                                       *)
LEMMA StandsStill ==
  ASSUME PendingInv, [PendingNext]_pendingVars, NEW a, Stands(a)
  PROVE  Stands(a)'
<1>1. CASE \A t \in DOMAIN txns : t \in DOMAIN txns' /\ txns'[t] = txns[t]
  BY <1>1 DEF Stands, Pending
<1>2. ASSUME NEW t \in DOMAIN txns, SettlesOne(t) PROVE Stands(a)'
  <2>1. CASE a.tx # t
    BY <1>2, <2>1 DEF Stands, SettlesOne, KeepsRows, Pending
  <2>2. CASE a.tx = t
    <3>1. a.status = "PENDING_REFERENCE"
      <4>1. Pending(t) /\ a = Output(a.call, t, txns[t], a.replay)
        BY <1>2, <2>2 DEF Stands, SettlesOne
      <4> QED BY <4>1 DEF Output, Pending
    <3>2. /\ a.tx \in DOMAIN txns' /\ txns'[a.tx].payload = a.call.payload
          /\ txns'[a.tx].status # "PENDING_REFERENCE"
      BY <1>2, <2>2 DEF Stands, SettlesOne, KeepsRows
    <3> QED BY <3>1, <3>2 DEF Stands, Pending
  <2> QED BY <2>1, <2>2
<1> QED BY <1>1, <1>2, RowsOfStep

(* ... and the workers touch neither answers nor the inbox.                *)
LEMMA WorkersLeavePromises ==
  ASSUME PromisesInv, [PendingNext]_pendingVars, UNCHANGED <<pc, locals, answer, inbox>>
  PROVE  (AnswersStand /\ StagedInv /\ InboxHasTransaction)'
<1>1. /\ PendingInv /\ UNCHANGED <<pc, call, answer, inbox>>
      /\ \A s \in Sessions : answer[s].tx # NoTx => Stands(answer[s])
  BY DEF PromisesInv, AnswersStand, locals
<1>2. \A i \in DOMAIN txns : i \in DOMAIN txns' /\ txns'[i].payload = txns[i].payload
  BY <1>1, RowsOfStep DEF SettlesOne, KeepsRows
<1>3. AnswersStand'
  <2> SUFFICES ASSUME NEW s \in Sessions, answer'[s].tx # NoTx PROVE Stands(answer[s])'
    BY DEF AnswersStand
  <2>1. PICK a : a = answer[s]
    OBVIOUS
  <2>2. Stands(a) /\ answer'[s] = a
    BY <1>1, <2>1
  <2>3. Stands(a)'
    BY <1>1, <2>2, StandsStill
  <2> QED BY <2>2, <2>3 DEF Stands
<1>4. StagedInv' /\ InboxHasTransaction'
  BY <1>1, <1>2 DEF PromisesInv, StagedInv, InboxHasTransaction
<1> QED BY <1>3, <1>4

LEMMA ServiceKeepsPromises ==
  ASSUME PromisesInv, Next, [PendingNext]_pendingVars
  PROVE  (AnswersStand /\ StagedInv /\ InboxHasTransaction)'
<1>1. PendingInv /\ TypeInv /\ AnswersStand /\ StagedInv /\ InboxHasTransaction
  BY DEF PromisesInv, PendingInv, SharedInv, EffectsInv, UniqueInv, LedgerInv
<1>2. StagedInv' /\ InboxHasTransaction'
  BY <1>1, InboxKept
<1>3. ASSUME NEW s \in Sessions, answer'[s].tx # NoTx PROVE Stands(answer[s])'
  <2>1. PICK a : a = answer[s]
    OBVIOUS
  <2>2. CASE answer'[s] = a
    <3>1. Stands(a)
      BY <1>1, <1>3, <2>1, <2>2 DEF AnswersStand
    <3>2. Stands(a)'
      BY <1>1, <3>1, StandsStill
    <3> QED BY <2>2, <3>2 DEF Stands
  <2>3. CASE Durable(answer[s])'
    BY <2>3 DEF Durable, Stands
  <2> QED BY <1>1, <1>3, <2>1, <2>2, <2>3, AnswersGiven DEF Refusal
<1> QED BY <1>2, <1>3 DEF AnswersStand

(* The victim of a deadlock is told nothing, or an error.                  *)
LEMMA VictimKeepsPromises ==
  ASSUME PromisesInv, NEW s \in Sessions, SessionVictim(s)
  PROVE  (AnswersStand /\ StagedInv /\ InboxHasTransaction)'
<1>1. /\ TypeInv /\ Retry(s) /\ UNCHANGED <<txns, inbox>>
      /\ AnswersStand /\ StagedInv /\ InboxHasTransaction
  BY DEF PromisesInv, PendingInv, SharedInv, EffectsInv, UniqueInv, LedgerInv, SessionVictim, tables
<1>2. \A x \in Sessions \ {s} : pc'[x] = pc[x] /\ call'[x] = call[x]
  BY <1>1, RetryStops
<1>3. pc'[s] # "stage"
  BY <1>1 DEF Retry, Rollback, Finish, FirstStep, GoTo, TypeInv, SessionsTypeOK
<1>4. ASSUME NEW x \in Sessions PROVE answer'[x] = answer[x] \/ answer'[x].tx = NoTx
  <2>1. answer' = answer \/ \E a : a.tx = NoTx /\ answer' = [answer EXCEPT ![s] = a]
    BY <1>1 DEF Retry, Rollback, Finish, Failed, NoAnswer
  <2> QED BY <1>1, <2>1 DEF TypeInv, SessionsTypeOK
<1>5. AnswersStand'
  BY <1>1, <1>4 DEF AnswersStand, Stands, Pending
<1>6. StagedInv' /\ InboxHasTransaction'
  BY <1>1, <1>2, <1>3 DEF StagedInv, InboxHasTransaction
<1> QED BY <1>5, <1>6

LEMMA PromisesStep ==
  ASSUME PromisesInv, [PendingNext]_pendingVars
  PROVE  PromisesInv'
<1>inv. PendingInv /\ PendingInv'
  BY PendingStep DEF PromisesInv
<1>1. (AnswersStand /\ StagedInv /\ InboxHasTransaction)'
  <2>1. CASE CreateWalletStep \/ \E s \in Sessions : SessionStep(s)
    <3>1. Next
      BY <2>1 DEF CreateWalletStep, SessionStep, Next
    <3> QED BY <3>1, ServiceKeepsPromises
  <2>2. CASE \E s \in Sessions : SessionVictim(s)
    BY <2>2, VictimKeepsPromises
  <2>3. CASE UNCHANGED <<pc, locals, answer, inbox>>
    BY <2>3, WorkersLeavePromises
  <2>4. CASE \E k \in Workers : Quiet(k)
    BY <1>inv, <2>3, <2>4, QuietOK DEF WorkerLocal, WorkerFrame, tables
  <2>5. CASE \E k \in Workers : Resolve(k) \/ Expire(k)
    BY <1>inv, <2>3, <2>5, ResolveSettles, ExpireSettles DEF WorkerLocal, WorkerFrame, Settlement
  <2>6. CASE \E t \in DOMAIN txns : LeaseEnds(t) \/ BackoffEnds(t) \/ GrowsOld(t)
    BY <2>3, <2>6 DEF LeaseEnds, BackoffEnds, GrowsOld, vars, tables
  <2>7. CASE UNCHANGED pendingVars
    BY <2>3, <2>7 DEF pendingVars, vars, tables
  <2> QED BY <2>1, <2>2, <2>4, <2>5, <2>6, <2>7, PendingCases
<1> QED BY <1>inv, <1>1 DEF PromisesInv

LEMMA PromisesHold == PendingSpec => []PromisesInv
<1>1. PendingInit => PromisesInv
  BY PendingInitOK DEF PendingInit, Init, PromisesInv, AnswersStand, StagedInv,
                       InboxHasTransaction, NoAnswer
<1> QED BY <1>1, PromisesStep, PTL DEF PendingSpec

(* Whatever a caller was told is still so, unless it was told that its     *)
(* operation is parked and a worker has settled it since: no two callers,  *)
(* however late, hear different results of one operation.                  *)
THEOREM WorkersKeepAnswers == PendingSpec => []AnswersStand
<1>1. PromisesInv => AnswersStand
  BY DEF PromisesInv
<1> QED BY <1>1, PromisesHold, PTL

(* Beside the workers too, a message in the inbox has its transaction.     *)
THEOREM WorkersKeepInbox == PendingSpec => []InboxHasTransaction
<1>1. PromisesInv => InboxHasTransaction
  BY DEF PromisesInv
<1> QED BY <1>1, PromisesHold, PTL

(* Beside the workers too, an operation has one row, whichever keys and    *)
(* channels it came by.                                                    *)
THEOREM WorkersKeepOneRow == PendingSpec => []OneRowPerOperation
<1>1. PendingInv => OneRowPerOperation
  BY DEF PendingInv, SharedInv, EffectsInv, UniqueInv
<1> QED BY <1>1, PendingInvHolds, PTL
===============================================================================
