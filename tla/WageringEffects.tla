---------------------------- MODULE WageringEffects ----------------------------
(***************************************************************************)
(* What the transactions table says of the money, proved for any sessions, *)
(* calls and faults: each row that moved money has its one ledger entry,   *)
(* and a reversal undoes its reference once.  A row and its entry are      *)
(* appended by the same commit and never change, so it is enough to know   *)
(* what a session is about to flush.                                       *)
(***************************************************************************)
EXTENDS WageringProofs

-------------------------------------------------------------------------------
(* What the rules decide                                                   *)

Reversals == {"REFUND", "ROLLBACK"}

MovesMoney(status, p) == status = "PROCESSED" /\ p.kind # "LOSS"

(* The direction of a movement, where its kind alone settles it.           *)
KindMoves(kind, direction) ==
  /\ kind = "BET" => direction = "DEBIT"
  /\ kind \in {"WIN", "REFUND"} => direction = "CREDIT"

(* A reversal p moves the amount of the row it references, in the same     *)
(* wallet and against that row's own direction.                            *)
Undoes(row, p, direction) ==
  /\ row.status = "PROCESSED"
  /\ row.payload.wallet = p.wallet
  /\ row.payload.amount = p.amount
  /\ \/ row.payload.kind = "BET" /\ direction = "CREDIT"
     \/ row.payload.kind \in {"WIN", "REFUND"} /\ direction = "DEBIT"

(* An outcome moves money exactly when it processes more than a LOSS, by   *)
(* the rule of its kind, and reports the balance it leaves; a parked one   *)
(* names no reference yet, and one refused for want of funds reports a     *)
(* balance short of the amount.                                            *)
Moves(o, p) ==
  /\ o.move # NoMove <=> MovesMoney(o.status, p)
  /\ o.move # NoMove => KindMoves(p.kind, o.move)
  /\ o.status = "PROCESSED" => o.observed = o.wallet.balance
  /\ o.status = "PENDING_REFERENCE" => o.ref = NoTx
  /\ o.failure \in FundsCodes => o.observed < p.amount

LEMMA MovementMoves ==
  ASSUME NEW wal, NEW p, p.kind \in ProviderKinds \ {"LOSS"}, NEW ref, NEW refKind
  PROVE  LET o == ExecuteWalletMovement(wal, p, ref, refKind) IN
         /\ Moves(o, p)
         /\ o.status = "PROCESSED" =>
              /\ o.ref = ref
              /\ o.move = IF IsDebit(p.kind, refKind) THEN "DEBIT" ELSE "CREDIT"
BY DEF ExecuteWalletMovement, Moves, MovesMoney, KindMoves, Processed, Rejected, NoMove, IsDebit,
       ProviderKinds, FundsCodes

(* Whatever the rows, the rules decide so, and a processed reversal undoes *)
(* the row it references.                                                  *)
LEMMA ApplyMoves ==
  ASSUME NEW wal, NEW rows, NEW own, NEW p, p.kind \in ProviderKinds,
         NEW o \in Apply(wal, rows, own, p)
  PROVE  /\ Moves(o, p)
         /\ o.status = "PROCESSED" /\ p.kind \in Reversals =>
              o.ref \in DOMAIN rows /\ Undoes(rows[o.ref], p, o.move)
<1>1. ASSUME NEW ref, NEW code, code \notin FundsCodes, o = Rejected(wal, ref, code)
      PROVE  Moves(o, p) /\ o.status = "REJECTED"
  BY <1>1 DEF Rejected, Moves, MovesMoney, NoMove
<1>2. CASE o = Parked(wal)
  BY <1>2 DEF Parked, Moves, MovesMoney, NoMove, FundsCodes
<1>3. CASE o = Processed(wal, NoTx, NoMove) /\ p.kind = "LOSS"
  BY <1>3 DEF Processed, Moves, MovesMoney, NoMove, Reversals, FundsCodes
<1>4. CASE /\ o = ExecuteWalletMovement(wal, p, NoTx, "NONE")
           /\ p.kind # "LOSS" /\ ~ShouldResolveReference(p)
  <2>1. p.kind \notin Reversals
    BY <1>4 DEF ShouldResolveReference, Reversals
  <2> QED BY <1>4, <2>1, MovementMoves
<1>5. CASE /\ p.kind # "LOSS"
           /\ \E i \in References(rows, p) : o = WithReference(wal, rows, own, p, i)
  <2>1. PICK i \in References(rows, p) : o = WithReference(wal, rows, own, p, i)
    BY <1>5
  <2>2. CASE ReferenceFailure(rows, own, p, i) # "NONE"
    <3>1. ReferenceFailure(rows, own, p, i) \notin FundsCodes
      BY DEF ReferenceFailure, FundsCodes
    <3> QED BY <1>1, <2>1, <2>2, <3>1 DEF WithReference
  <2>3. CASE ReferenceFailure(rows, own, p, i) = "NONE"
    <3>1. o = ExecuteWalletMovement(wal, p, i, rows[i].payload.kind)
      BY <2>1, <2>3 DEF WithReference
    <3>2. /\ Moves(o, p)
          /\ o.status = "PROCESSED" =>
               /\ o.ref = i
               /\ o.move = IF IsDebit(p.kind, rows[i].payload.kind) THEN "DEBIT" ELSE "CREDIT"
      BY <1>5, <3>1, MovementMoves
    <3>3. /\ rows[i].status = "PROCESSED"
          /\ rows[i].payload.wallet = p.wallet
          /\ p.kind # "WIN" => rows[i].payload.amount = p.amount
          /\ rows[i].payload.kind \in ReversibleKinds(p.kind)
      BY <2>3 DEF ReferenceFailure, SameScope
    <3>4. i \in DOMAIN rows
      BY <2>1 DEF References, Named
    <3> QED BY <3>2, <3>3, <3>4 DEF Undoes, Reversals, IsDebit, ReversibleKinds
  <2> QED BY <2>2, <2>3
<1> QED BY <1>1, <1>2, <1>3, <1>4, <1>5 DEF Apply

LEMMA RulesMove ==
  ASSUME NEW wal, NEW rows, NEW own, NEW p, p.kind \in ProviderKinds,
         NEW o \in ProcessWagerMovement(wal, rows, own, p)
  PROVE  /\ Moves(o, p)
         /\ o.status = "PROCESSED" /\ p.kind \in Reversals =>
              o.ref \in DOMAIN rows /\ Undoes(rows[o.ref], p, o.move)
<1>1. ASSUME NEW ref, NEW code, code \notin FundsCodes, o = Rejected(wal, ref, code)
      PROVE  Moves(o, p) /\ o.status = "REJECTED"
  BY <1>1 DEF Rejected, Moves, MovesMoney, NoMove
<1> QED BY <1>1, ApplyMoves DEF ProcessWagerMovement, FundsCodes

-------------------------------------------------------------------------------
(* What a session is about to flush                                        *)

DraftMoves(s) ==
  LET p == call[s].payload
      o == draft[s]
  IN  pc[s] = "flush" =>
        /\ Moves(o, p)
        /\ o.status = "PROCESSED" /\ p.kind \in Reversals =>
             o.ref \in DOMAIN txns /\ Undoes(txns[o.ref], p, o.move)

DraftsInv == \A s \in Sessions : DraftMoves(s)

(* The rules decide it on the committed rows, ...                          *)
LEMMA DecisionMoves ==
  ASSUME TypeInv, NEW s \in Sessions, ApplyRules(s)
  PROVE  DraftMoves(s)'
<1> DEFINE p == call[s].payload
           rows == Visible(s)
           own == Len(txns) + 1
<1>1. copy[s] \in WalletRecords /\ p \in OperationPayloads /\ p.kind \in ProviderKinds
  BY CallsAssumption DEF ApplyRules, TypeInv,  SessionsTypeOK, SessionOK, LockedSteps,
     OperationPayloads
<1>2. PICK o \in ProcessWagerMovement(copy[s], rows, own, p) :
        draft' = [draft EXCEPT ![s] = Relink(o, own, Own)]
  BY DEF ApplyRules
<1>3. draft'[s] = Relink(o, own, Own) /\ call' = call /\ txns' = txns
  BY <1>2 DEF ApplyRules, TypeInv,  SessionsTypeOK, tables
<1>4. /\ Moves(o, p)
      /\ o.status = "PROCESSED" /\ p.kind \in Reversals =>
           o.ref \in DOMAIN rows /\ Undoes(rows[o.ref], p, o.move)
  BY <1>1, <1>2, RulesMove
<1>5. o \in Outcomes
  BY <1>1, <1>2, VisibleOK, DecisionOK DEF Decision
<1>6. /\ DOMAIN txns = 1 .. Len(txns) /\ Len(txns) \in Nat
      /\ DOMAIN rows = 1 .. own
      /\ \A i \in DOMAIN txns : rows[i] = txns[i]
      /\ rows[own].status = "PENDING"
  <2>1. PendingRow(call[s]).status = "PENDING"
    BY DEF PendingRow, Row
  <2> QED BY <2>1, VisibleRows
<1> HIDE DEF rows
<1> DEFINE d == Relink(o, own, Own)
<1>7. /\ d.status = o.status /\ d.move = o.move /\ d.observed = o.observed
      /\ d.wallet = o.wallet /\ d.failure = o.failure /\ (o.ref # own => d.ref = o.ref)
  BY <1>5 DEF Relink, Outcomes
<1> HIDE DEF d
<1>8. Moves(d, p)
  BY <1>4, <1>6, <1>7 DEF Moves, NoTx
<1>9. d.status = "PROCESSED" /\ p.kind \in Reversals =>
        d.ref \in DOMAIN txns /\ Undoes(txns[d.ref], p, d.move)
  <2> SUFFICES ASSUME d.status = "PROCESSED", p.kind \in Reversals
               PROVE  d.ref \in DOMAIN txns /\ Undoes(txns[d.ref], p, d.move)
    OBVIOUS
  <2>1. o.ref \in DOMAIN rows /\ Undoes(rows[o.ref], p, o.move)
    BY <1>4, <1>7
  <2>2. o.ref # own
    BY <1>6, <2>1 DEF Undoes
  <2>3. o.ref \in DOMAIN txns /\ d.ref = o.ref
    BY <1>6, <1>7, <2>1, <2>2
  <2> QED BY <1>6, <1>7, <2>1, <2>3
<1>10. draft'[s] = d /\ call'[s].payload = p
  BY <1>3 DEF d
<1> HIDE DEF p
<1> QED BY <1>3, <1>8, <1>9, <1>10 DEF DraftMoves

(* ... and no other step disturbs it.                                      *)
LEMMA DraftsStep ==
  ASSUME TypeInv, DraftsInv, [Next]_vars
  PROVE  DraftsInv'
<1>1. \A i \in DOMAIN txns : i \in DOMAIN txns' /\ txns'[i] = txns[i]
  BY RowsAreKept
<1>2. ASSUME NEW x \in Sessions, pc[x] = "flush", draft'[x] = draft[x], call'[x] = call[x]
      PROVE  DraftMoves(x)'
  <2>1. DraftMoves(x)
    BY DEF DraftsInv
  <2> QED BY <1>1, <1>2, <2>1 DEF DraftMoves
<1>3. ASSUME NEW x \in Sessions, pc'[x] # "flush" PROVE DraftMoves(x)'
  BY <1>3 DEF DraftMoves
<1>4. CASE UNCHANGED <<pc, draft, call>>
  BY <1>2, <1>3, <1>4 DEF DraftsInv
<1>5. CASE UNCHANGED vars
  BY <1>4, <1>5 DEF vars, locals
<1>6. ASSUME NEW w \in Wallets, NEW player \in Players, NEW currency \in Currencies,
             NEW amount \in Openings, CreateWallet(w, player, currency, amount)
      PROVE  DraftsInv'
  BY <1>4, <1>6 DEF CreateWallet, locals
<1>7. ASSUME NEW s \in Sessions, Session(s), NEW x \in Sessions PROVE DraftMoves(x)'
  <2>1. CASE x = s /\ ApplyRules(s)
    BY <2>1, DecisionMoves
  <2>2. CASE pc'[x] = "flush" /\ ~(x = s /\ ApplyRules(s))
    BY <1>2, <1>7, <2>2, OnlyRulesDecide
  <2> QED BY <1>3, <2>1, <2>2
<1> QED BY <1>5, <1>6, <1>7 DEF DraftsInv, Next

(* A parked row names no reference.                                        *)
ParkedUnlinked ==
  \A t \in DOMAIN txns : txns[t].status = "PENDING_REFERENCE" => txns[t].ref = NoTx

LEMMA UnlinkedStep ==
  ASSUME TypeInv, DraftsInv, ParkedUnlinked, [Next]_vars
  PROVE  ParkedUnlinked'
<1>1. ASSUME NEW row \in Rows, txns' = Append(txns, row),
             row.status = "PENDING_REFERENCE" => row.ref = NoTx
      PROVE  ParkedUnlinked'
  <2>1. /\ \A i \in DOMAIN txns' : i \in DOMAIN txns \/ i = Len(txns) + 1
        /\ \A i \in DOMAIN txns : txns'[i] = txns[i]
        /\ txns'[Len(txns) + 1] = row
    BY <1>1, AppendProperties, LenProperties DEF TypeInv, TablesTypeOK
  <2> QED BY <1>1, <2>1 DEF ParkedUnlinked
<1>2. CASE UNCHANGED txns
  BY <1>2 DEF ParkedUnlinked
<1>3. CASE UNCHANGED vars
  BY <1>2, <1>3 DEF vars, tables
<1>4. ASSUME NEW w \in Wallets, NEW player \in Players, NEW currency \in Currencies,
             NEW amount \in Openings, CreateWallet(w, player, currency, amount)
      PROVE  ParkedUnlinked'
  <2>1. OpeningRow(w) \in Rows /\ OpeningRow(w).status = "PROCESSED"
    BY DEF OpeningRow, Row, Rows, Payloads, Statuses, NoTx, NoBalance
  <2> QED BY <1>1, <1>2, <1>4, <2>1 DEF CreateWallet
<1>5. ASSUME NEW s \in Sessions, Session(s) PROVE ParkedUnlinked'
  <2>1. CASE ~Commit(s)
    BY <1>2, <1>5, <2>1, WritersEnter
  <2>2. CASE Commit(s)
    <3> DEFINE row == Row(call[s].key, call[s].payload, Relink(draft[s], Own, Len(txns) + 1))
    <3>1. row \in Rows /\ txns' = Append(txns, row)
      BY <2>2, CommitAppends
    <3>2. draft[s].status = "PENDING_REFERENCE" => draft[s].ref = NoTx
      BY <2>2 DEF DraftsInv, DraftMoves, Moves, Commit
    <3>3. row.status = "PENDING_REFERENCE" => row.ref = NoTx
      BY <3>2 DEF Row, Relink, Own, NoTx
    <3> HIDE DEF row
    <3> QED BY <1>1, <3>1, <3>3
  <2> QED BY <2>1, <2>2
<1> QED BY <1>3, <1>4, <1>5 DEF Next

-------------------------------------------------------------------------------
(* Rows and their entries                                                  *)

(* The movement of a row goes the way of its kind.                         *)
DirectionsFollowKind ==
  \A t \in DOMAIN txns : \A i \in EntriesOf(WalletOf(t), t) :
    KindMoves(txns[t].payload.kind, ledger[WalletOf(t)][i].direction)

(* What a step that stores row t does to the tables: the row is new or was *)
(* parked, and it moves money and gets the entry e in the ledger of w, or  *)
(* neither.                                                                *)
Stores(t, row, w, e) ==
  /\ \/ t = Len(txns) + 1 /\ txns' = Append(txns, row)
     \/ /\ t \in DOMAIN txns /\ txns[t].status = "PENDING_REFERENCE"
        /\ txns' = [txns EXCEPT ![t] = row]
  /\ w = IF row.payload.kind = "OPENING" THEN row.payload.ext ELSE row.payload.wallet
  /\ IF MovesMoney(row.status, row.payload)
     THEN /\ e \in Entries /\ e.tx = t
          /\ row.payload.kind # "OPENING" =>
               e.amount = row.payload.amount /\ e.after = row.observed
          /\ KindMoves(row.payload.kind, e.direction)
          /\ ledger' = [ledger EXCEPT ![w] = Append(ledger[w], e)]
     ELSE /\ ledger' = ledger
          /\ row.failure \in FundsCodes => row.observed < row.payload.amount

(* Every row belongs to a wallet.                                          *)
LEMMA RowsHaveWallets ==
  ASSUME UniqueInv, NEW t \in DOMAIN txns
  PROVE  WalletOf(t) \in Wallets
<1>1. CASE FromClient(txns[t])
  BY <1>1 DEF FromClient, WalletOf, OperationPayloads, ProviderKinds
<1>2. CASE FromOpening(txns[t])
  BY <1>2 DEF FromOpening, WalletOf, OpeningPayload
<1> QED BY <1>1, <1>2 DEF UniqueInv, RowOrigins

(* The entries of the rows before and after such a step.                   *)
NewEntries(row, w, e, t, n) ==
  /\ DOMAIN txns' = DOMAIN txns \cup {t} /\ txns'[t] = row
  /\ \A u \in DOMAIN txns \ {t} : txns'[u] = txns[u] /\ WalletOf(u)' = WalletOf(u)
  /\ WalletOf(t)' = w
  /\ \A v \in Wallets : \A u \in DOMAIN txns \ {t} : EntriesOf(v, u)' = EntriesOf(v, u)
  /\ \A v \in Wallets : \A i \in DOMAIN ledger[v] :
       ledger[v][i].tx # t /\ ledger'[v][i] = ledger[v][i]
  /\ \A v \in Wallets : \A i \in DOMAIN ledger'[v] :
       i \in DOMAIN ledger[v] \/ (v = w /\ i = n /\ ledger'[v][i].tx = t)
  /\ IF MovesMoney(row.status, row.payload)
     THEN EntriesOf(w, t)' = {n} /\ ledger'[w][n] = e
     ELSE EntriesOf(w, t)' = {}

LEMMA StoredEntries ==
  ASSUME UniqueInv, EntriesMatchRows, NEW t, NEW row \in Rows, NEW w \in Wallets, NEW e,
         Stores(t, row, w, e), NEW n, n = Len(ledger[w]) + 1
  PROVE  NewEntries(row, w, e, t, n)
<1> DEFINE moved == MovesMoney(row.status, row.payload)
<1>1. txns \in Seq(Rows) /\ ledger \in [Wallets -> Seq(Entries)]
  BY DEF UniqueInv, LedgerInv, TypeInv, TablesTypeOK
<1>2. /\ DOMAIN txns' = DOMAIN txns \cup {t} /\ txns'[t] = row
      /\ \A u \in DOMAIN txns \ {t} : txns'[u] = txns[u]
  <2>1. CASE t = Len(txns) + 1 /\ txns' = Append(txns, row)
    BY <1>1, <2>1, AppendProperties, LenProperties
  <2>2. CASE t \in DOMAIN txns /\ txns' = [txns EXCEPT ![t] = row]
    BY <1>1, <2>2, LenProperties
  <2> QED BY <2>1, <2>2 DEF Stores
<1>3. /\ \A u \in DOMAIN txns \ {t} : WalletOf(u)' = WalletOf(u)
      /\ WalletOf(t)' = w
  BY <1>2 DEF WalletOf, Stores
<1>4. \A v \in Wallets : \A i \in DOMAIN ledger[v] : ledger[v][i].tx # t
  <2>1. CASE t \notin DOMAIN txns
    BY <2>1 DEF EntriesMatchRows
  <2>2. CASE t \in DOMAIN txns /\ txns[t].status = "PENDING_REFERENCE"
    BY <2>2 DEF EntriesMatchRows, EntriesOf
  <2> QED BY <1>1, <2>1, <2>2, LenProperties DEF Stores
<1>5. CASE moved
  <2>1. e \in Entries /\ e.tx = t /\ ledger' = [ledger EXCEPT ![w] = Append(ledger[w], e)]
    BY <1>5 DEF Stores
  <2>2. /\ n \notin DOMAIN ledger[w] /\ DOMAIN ledger'[w] = DOMAIN ledger[w] \cup {n}
        /\ ledger'[w][n] = e
        /\ \A i \in DOMAIN ledger[w] : ledger'[w][i] = ledger[w][i]
    <3>1. ledger'[w] = Append(ledger[w], e) /\ ledger[w] \in Seq(Entries)
      BY <1>1, <2>1
    <3> QED BY <2>1, <3>1, AppendProperties, LenProperties
  <2>3. \A v \in Wallets \ {w} : ledger'[v] = ledger[v]
    BY <1>1, <2>1
  <2>4. EntriesOf(w, t)' = {n}
    BY <1>4, <2>1, <2>2 DEF EntriesOf
  <2>5. \A v \in Wallets : \A u \in DOMAIN txns \ {t} : EntriesOf(v, u)' = EntriesOf(v, u)
    <3> SUFFICES ASSUME NEW v \in Wallets, NEW u \in DOMAIN txns \ {t}
                 PROVE  EntriesOf(v, u)' = EntriesOf(v, u)
      OBVIOUS
    <3>1. CASE v = w
      BY <1>2, <2>1, <2>2, <3>1 DEF EntriesOf
    <3>2. CASE v # w
      BY <2>3, <3>2 DEF EntriesOf
    <3> QED BY <3>1, <3>2
  <2>6. \A v \in Wallets : \A i \in DOMAIN ledger'[v] :
          i \in DOMAIN ledger[v] \/ (v = w /\ i = n /\ ledger'[v][i].tx = t)
    BY <2>1, <2>2, <2>3
  <2> HIDE DEF moved
  <2> QED BY <1>2, <1>3, <1>4, <1>5, <2>2, <2>3, <2>4, <2>5, <2>6 DEF moved, NewEntries
<1>6. CASE ~moved
  <2>1. ledger' = ledger
    BY <1>6 DEF Stores
  <2>2. EntriesOf(w, t)' = {}
    BY <1>4, <2>1 DEF EntriesOf
  <2> QED BY <1>2, <1>3, <1>4, <1>6, <2>1, <2>2 DEF EntriesOf, NewEntries
<1> QED BY <1>5, <1>6

(* Such a step keeps the rows and the ledger in agreement.                 *)
LEMMA StoresKeepsEntries ==
  ASSUME UniqueInv, EntriesMatchRows, DirectionsFollowKind,
         NEW t, NEW row \in Rows, NEW w \in Wallets, NEW e, Stores(t, row, w, e)
  PROVE  EntriesMatchRows' /\ DirectionsFollowKind'
<1>0. PICK n : n = Len(ledger[w]) + 1
  OBVIOUS
<1>1. NewEntries(row, w, e, t, n)
  BY <1>0, StoredEntries
<1>2. \A u \in DOMAIN txns : WalletOf(u) \in Wallets
  BY RowsHaveWallets
<1>3. ASSUME NEW v \in Wallets, NEW i \in DOMAIN ledger'[v]
      PROVE  ledger'[v][i].tx \in DOMAIN txns' /\ WalletOf(ledger[v][i].tx)' = v
  BY <1>1, <1>3 DEF EntriesMatchRows, NewEntries
<1>4. ASSUME NEW u \in DOMAIN txns \ {t}, NEW i \in EntriesOf(WalletOf(u), u)
      PROVE  ledger'[WalletOf(u)][i] = ledger[WalletOf(u)][i]
  BY <1>1, <1>2, <1>4 DEF EntriesOf, NewEntries
<1> DEFINE Match(u) ==
      LET entries == EntriesOf(WalletOf(u), u) IN
      IF txns[u].status = "PROCESSED" /\ txns[u].payload.kind # "LOSS"
      THEN \E i \in entries :
             LET x == ledger[WalletOf(u)][i] IN
             /\ entries = {i}
             /\ txns[u].payload.kind # "OPENING" =>
                  x.amount = txns[u].payload.amount /\ x.after = txns[u].observed
      ELSE /\ entries = {}
           /\ txns[u].failure \in FundsCodes => txns[u].observed < txns[u].payload.amount
<1>5. ASSUME NEW u \in DOMAIN txns \ {t} PROVE Match(u)'
  <2>1. Match(u)
    BY DEF EntriesMatchRows
  <2> QED BY <1>1, <1>2, <1>4, <2>1 DEF NewEntries
<1>6. Match(t)'
  <2>1. CASE MovesMoney(row.status, row.payload)
    BY <1>0, <1>1, <2>1 DEF MovesMoney, Stores, NewEntries
  <2>2. CASE ~MovesMoney(row.status, row.payload)
    BY <1>1, <2>2 DEF MovesMoney, Stores, NewEntries
  <2> QED BY <2>1, <2>2
<1>7. EntriesMatchRows'
  <2>1. \A u \in DOMAIN txns' : Match(u)'
    BY <1>1, <1>5, <1>6 DEF NewEntries
  <2> QED BY <1>3, <2>1 DEF EntriesMatchRows
<1>8. DirectionsFollowKind'
  <2> SUFFICES ASSUME NEW u \in DOMAIN txns', NEW i \in EntriesOf(WalletOf(u), u)'
               PROVE  KindMoves(txns'[u].payload.kind, ledger'[WalletOf(u)'][i].direction)
    BY DEF DirectionsFollowKind
  <2>1. CASE u \in DOMAIN txns \ {t}
    BY <1>1, <1>2, <1>4, <2>1 DEF DirectionsFollowKind, NewEntries
  <2>2. CASE u = t
    BY <1>1, <2>2 DEF Stores, NewEntries
  <2> QED BY <1>1, <2>1, <2>2 DEF NewEntries
<1> QED BY <1>7, <1>8

-------------------------------------------------------------------------------
(* Reversals                                                               *)

Reverses(row) == row.status = "PROCESSED" /\ row.payload.kind \in Reversals

(* A processed reversal undoes the row it references, and no other of its  *)
(* kind references that row.                                               *)
ReversalsUndo ==
  \A t \in DOMAIN txns :
    LET r == txns[t].ref
        w == WalletOf(t)
    IN  Reverses(txns[t]) =>
          /\ r \in DOMAIN txns
          /\ \A i \in EntriesOf(w, t) : Undoes(txns[r], txns[t].payload, ledger[w][i].direction)
          /\ \A u \in DOMAIN txns \ {t} :
               ~ /\ txns[u].ref = r
                 /\ txns[u].status = "PROCESSED"
                 /\ txns[u].payload.kind = txns[t].payload.kind

(* A row that undoes a stored row and is the first of its kind to do so.   *)
FirstReversal(row, direction) ==
  /\ row.ref \in DOMAIN txns
  /\ Undoes(txns[row.ref], row.payload, direction)
  /\ \A u \in DOMAIN txns :
       ~ /\ txns[u].ref = row.ref
         /\ txns[u].status = "PROCESSED"
         /\ txns[u].payload.kind = row.payload.kind

LEMMA StoresKeepsReversals ==
  ASSUME UniqueInv, EntriesMatchRows, ReversalsUndo,
         NEW t, NEW row \in Rows, NEW w \in Wallets, NEW e, Stores(t, row, w, e),
         Reverses(row) => FirstReversal(row, e.direction)
  PROVE  ReversalsUndo'
<1>0. PICK n : n = Len(ledger[w]) + 1
  OBVIOUS
<1>1. NewEntries(row, w, e, t, n)
  BY <1>0, StoredEntries
<1>2. \A u \in DOMAIN txns : WalletOf(u) \in Wallets
  BY RowsHaveWallets
<1> DEFINE Undone(u) ==
      LET r == txns[u].ref
          v == WalletOf(u)
      IN  Reverses(txns[u]) =>
            /\ r \in DOMAIN txns
            /\ \A i \in EntriesOf(v, u) :
                 Undoes(txns[r], txns[u].payload, ledger[v][i].direction)
            /\ \A x \in DOMAIN txns \ {u} :
                 ~ /\ txns[x].ref = r
                   /\ txns[x].status = "PROCESSED"
                   /\ txns[x].payload.kind = txns[u].payload.kind
<1>s. t \in DOMAIN txns => txns[t].status # "PROCESSED"
  <2>1. t # Len(txns) + 1 => txns[t].status # "PROCESSED"
    BY DEF Stores
  <2>2. Len(txns) + 1 \notin DOMAIN txns
    BY LenProperties DEF UniqueInv, LedgerInv, TypeInv, TablesTypeOK
  <2> QED BY <2>1, <2>2
<1>3. ASSUME NEW u \in DOMAIN txns \ {t} PROVE Undone(u)'
  <2>1. Undone(u)
    BY DEF ReversalsUndo
  <2>2. \A i \in EntriesOf(WalletOf(u), u) :
          ledger'[WalletOf(u)][i] = ledger[WalletOf(u)][i]
    BY <1>1, <1>2 DEF NewEntries, EntriesOf
  <2>3. /\ EntriesOf(WalletOf(u), u)' = EntriesOf(WalletOf(u), u)
        /\ WalletOf(u)' = WalletOf(u)
    BY <1>1, <1>2 DEF NewEntries
  <2>4. /\ DOMAIN txns' = DOMAIN txns \cup {t} /\ txns'[t] = row
        /\ \A x \in DOMAIN txns \ {t} : txns'[x] = txns[x]
    BY <1>1 DEF NewEntries
  <2>5. ASSUME Reverses(txns[u])
        PROVE  ~ /\ row.ref = txns[u].ref
                 /\ row.status = "PROCESSED"
                 /\ row.payload.kind = txns[u].payload.kind
    BY <2>5 DEF Reverses, FirstReversal
  <2>6. Reverses(txns[u]) => txns[u].ref # t
    <3> SUFFICES ASSUME Reverses(txns[u]) PROVE txns[u].ref # t
      OBVIOUS
    <3>1. PICK i : i \in EntriesOf(WalletOf(u), u)
      BY DEF EntriesMatchRows, Reverses, Reversals
    <3>2. txns[txns[u].ref].status = "PROCESSED"
      BY <2>1, <3>1 DEF Undoes
    <3> QED BY <1>s, <2>1, <3>2
  <2> QED BY <2>1, <2>2, <2>3, <2>4, <2>5, <2>6
<1>4. Undone(t)'
  <2>1. /\ DOMAIN txns' = DOMAIN txns \cup {t} /\ txns'[t] = row
        /\ \A x \in DOMAIN txns \ {t} : txns'[x] = txns[x]
        /\ WalletOf(t)' = w
    BY <1>1 DEF NewEntries
  <2>4. row.ref \in DOMAIN txns /\ txns[row.ref].status = "PROCESSED" => row.ref # t
    BY <1>s
  <2>2. CASE Reverses(row)
    <3>1. FirstReversal(row, e.direction) /\ MovesMoney(row.status, row.payload)
      BY <2>2 DEF Reverses, MovesMoney, Reversals
    <3>2. EntriesOf(w, t)' = {n} /\ ledger'[w][n] = e
      BY <1>1, <3>1 DEF NewEntries
    <3>3. row.ref # t
      BY <2>4, <3>1 DEF FirstReversal, Undoes
    <3> QED BY <2>1, <3>1, <3>2, <3>3 DEF FirstReversal
  <2>3. CASE ~Reverses(row)
    BY <2>1, <2>3
  <2> QED BY <2>2, <2>3
<1>5. \A u \in DOMAIN txns' : Undone(u)'
  <2>1. \A u \in DOMAIN txns' : u \in DOMAIN txns \ {t} \/ u = t
    BY <1>1 DEF NewEntries
  <2> HIDE DEF Undone
  <2> QED BY <1>3, <1>4, <2>1
<1> QED BY <1>5 DEF ReversalsUndo

-------------------------------------------------------------------------------
(* The two steps that store rows                                           *)

LEMMA CommitStores ==
  ASSUME UniqueInv, DraftsInv, NEW s \in Sessions, Commit(s)
  PROVE  \E row \in Rows, w \in Wallets : \E e :
           Stores(Len(txns) + 1, row, w, e) /\ (Reverses(row) => FirstReversal(row, e.direction))
<1> DEFINE c == call[s]
           p == c.payload
           o == draft[s]
           t == Len(txns) + 1
           row == Row(c.key, p, Relink(o, Own, t))
           e == Entry(t, o.move, p.amount, copy[s].balance, o.wallet.balance)
<1>1. TypeInv /\ pc[s] = "flush" /\ DraftMoves(s)
  BY DEF UniqueInv, LedgerInv, DraftsInv, Commit
<1>2. /\ p \in OperationPayloads /\ p.wallet \in Wallets /\ p.amount \in Nat \ {0}
      /\ c.key \in Keys /\ o \in Outcomes /\ copy[s] \in WalletRecords
      /\ Len(txns) \in Nat /\ t \in Nat \ {0} /\ DOMAIN txns = 1 .. Len(txns)
  BY <1>1, CommitFinds, VisibleRows
<1>3. /\ txns' = Append(txns, row)
      /\ WriteLedger(p.wallet, t, p.amount, copy[s].balance, o)
      /\ ~ReferenceKindTaken(o.ref, p.kind, o.status)
  BY DEF Commit
<1>4. /\ row \in Rows /\ row.payload = p /\ row.status = o.status
      /\ row.observed = o.observed /\ row.failure = o.failure
      /\ row.ref = IF o.ref = Own THEN t ELSE o.ref
  BY <1>2, RowOK DEF Row, Relink, Outcomes
<1>5. /\ Moves(o, p)
      /\ o.status = "PROCESSED" /\ p.kind \in Reversals =>
           o.ref \in DOMAIN txns /\ Undoes(txns[o.ref], p, o.move)
  BY <1>1 DEF DraftMoves
<1>6. /\ e.tx = t /\ e.amount = p.amount /\ e.after = o.wallet.balance
      /\ e.direction = o.move
      /\ o.move # NoMove => e \in Entries
  BY <1>2 DEF Entry, Entries, Outcomes, WalletRecords
<1>7. ledger' = IF o.move = NoMove THEN ledger
                ELSE [ledger EXCEPT ![p.wallet] = Append(ledger[p.wallet], e)]
  BY <1>3 DEF WriteLedger
<1>8. p.kind # "OPENING"
  BY <1>2 DEF OperationPayloads, ProviderKinds
<1> HIDE DEF row, e, c, o
<1>9. Stores(t, row, p.wallet, e)
  <2>1. MovesMoney(row.status, row.payload) <=> o.move # NoMove
    BY <1>4, <1>5 DEF Moves, MovesMoney
  <2>2. CASE o.move # NoMove
    <3>1. KindMoves(row.payload.kind, e.direction) /\ e.after = row.observed
      BY <1>4, <1>5, <1>6, <2>1, <2>2 DEF Moves, MovesMoney
    <3> QED BY <1>3, <1>4, <1>6, <1>7, <1>8, <2>1, <2>2, <3>1 DEF Stores
  <2>3. CASE o.move = NoMove
    <3>1. row.failure \in FundsCodes => row.observed < row.payload.amount
      BY <1>4, <1>5 DEF Moves
    <3> QED BY <1>3, <1>4, <1>7, <1>8, <2>1, <2>3, <3>1 DEF Stores
  <2> QED BY <2>2, <2>3
<1>10. ASSUME Reverses(row) PROVE FirstReversal(row, e.direction)
  <2>1. o.status = "PROCESSED" /\ p.kind \in Reversals
    BY <1>4, <1>10 DEF Reverses
  <2>2. o.ref \in DOMAIN txns /\ Undoes(txns[o.ref], p, o.move)
    BY <1>5, <2>1
  <2>3. row.ref = o.ref /\ o.ref # NoTx
    BY <1>2, <1>4, <2>2 DEF Own, NoTx
  <2>4. \A u \in DOMAIN txns : ~ /\ txns[u].ref = o.ref
                                 /\ txns[u].status = "PROCESSED"
                                 /\ txns[u].payload.kind = p.kind
    BY <1>3, <2>1, <2>3 DEF ReferenceKindTaken, ActiveStatus
  <2> QED BY <1>4, <1>6, <2>2, <2>3, <2>4 DEF FirstReversal
<1> QED BY <1>2, <1>4, <1>9, <1>10

LEMMA CreateWalletStores ==
  ASSUME UniqueInv, NEW w \in Wallets, NEW player \in Players,
         NEW currency \in Currencies, NEW amount \in Openings,
         CreateWallet(w, player, currency, amount), ~UNCHANGED <<txns, ledger>>
  PROVE  \E row \in Rows : \E e : Stores(Len(txns) + 1, row, w, e) /\ ~Reverses(row)
<1> DEFINE t == Len(txns) + 1
           row == OpeningRow(w)
           e == Entry(t, "CREDIT", amount, 0, amount)
<1>1. /\ amount # 0 /\ txns' = Append(txns, row)
      /\ ledger' = [ledger EXCEPT ![w] = Append(ledger[w], e)]
  BY DEF CreateWallet
<1>2. row \in Rows
  BY DEF OpeningRow, Row, Rows, Payloads, Statuses, NoTx, NoBalance
<1>3. row.payload.kind = "OPENING" /\ row.payload.ext = w /\ row.status = "PROCESSED"
  BY DEF OpeningRow, OpeningPayload, Row
<1>4. e \in Entries /\ e.tx = t
  <2>1. Len(txns) \in Nat
    BY LenProperties DEF UniqueInv, LedgerInv, TypeInv,  TablesTypeOK
  <2> QED BY <1>1, <2>1, CallsAssumption DEF Entry, Entries, Directions
<1> HIDE DEF row, e
<1>5. Stores(t, row, w, e) /\ ~Reverses(row)
  BY <1>1, <1>3, <1>4 DEF Stores, MovesMoney, KindMoves, Reverses, Reversals
<1> QED BY <1>2, <1>5

-------------------------------------------------------------------------------
(* The theorems                                                            *)

EffectsInv ==
  /\ UniqueInv /\ DraftsInv /\ ParkedUnlinked
  /\ EntriesMatchRows /\ DirectionsFollowKind /\ ReversalsUndo

LEMMA EntriesStay ==
  ASSUME EntriesMatchRows, DirectionsFollowKind, ReversalsUndo, UNCHANGED <<txns, ledger>>
  PROVE  (EntriesMatchRows /\ DirectionsFollowKind /\ ReversalsUndo)'
<1>1. EntriesMatchRows'
  <2>1. txns' = txns /\ ledger' = ledger
    OBVIOUS
  <2>2. /\ \A t : WalletOf(t)' = WalletOf(t)
        /\ \A w, t : EntriesOf(w, t)' = EntriesOf(w, t)
    BY <2>1 DEF WalletOf, EntriesOf
  <2> QED BY ONLY EntriesMatchRows, <2>1, <2>2 DEF EntriesMatchRows
<1>2. DirectionsFollowKind'
  BY DEF DirectionsFollowKind, EntriesOf, WalletOf
<1>3. ReversalsUndo'
  BY DEF ReversalsUndo, Reverses, Undoes, EntriesOf, WalletOf
<1> QED BY <1>1, <1>2, <1>3

LEMMA EffectsStep ==
  ASSUME EffectsInv, [Next]_vars
  PROVE  EffectsInv'
<1>0. UniqueInv' /\ DraftsInv' /\ ParkedUnlinked'
  BY UniqueStep, DraftsStep, UnlinkedStep DEF EffectsInv, UniqueInv, LedgerInv
<1> SUFFICES (EntriesMatchRows /\ DirectionsFollowKind /\ ReversalsUndo)'
  BY <1>0 DEF EffectsInv
<1> USE DEF EffectsInv
<1>1. CASE UNCHANGED <<txns, ledger>>
  BY <1>1, EntriesStay
<1>2. ASSUME NEW t, NEW row \in Rows, NEW w \in Wallets, NEW e, Stores(t, row, w, e),
             Reverses(row) => FirstReversal(row, e.direction)
      PROVE  (EntriesMatchRows /\ DirectionsFollowKind /\ ReversalsUndo)'
  BY <1>2, StoresKeepsEntries, StoresKeepsReversals
<1>3. CASE UNCHANGED vars
  BY <1>1, <1>3 DEF vars, tables
<1>4. ASSUME NEW w \in Wallets, NEW player \in Players, NEW currency \in Currencies,
             NEW amount \in Openings, CreateWallet(w, player, currency, amount)
      PROVE  (EntriesMatchRows /\ DirectionsFollowKind /\ ReversalsUndo)'
  BY <1>1, <1>2, <1>4, CreateWalletStores
<1>5. ASSUME NEW s \in Sessions, Session(s)
      PROVE  (EntriesMatchRows /\ DirectionsFollowKind /\ ReversalsUndo)'
  <2>1. CASE Commit(s)
    BY <1>2, <2>1, CommitStores
  <2>2. CASE ~Commit(s)
    <3>1. txns' = txns
      BY <1>5, <2>2, WritersEnter DEF UniqueInv, LedgerInv
    <3>2. ledger' = ledger
      BY <1>5, <2>2, SessionKeepsLocks DEF UniqueInv, LedgerInv
    <3> QED BY <1>1, <3>1, <3>2
  <2> QED BY <2>1, <2>2
<1> QED BY <1>3, <1>4, <1>5 DEF Next

LEMMA EffectsInit ==
  ASSUME Init
  PROVE  EffectsInv
BY UniqueInit
   DEF Init, EffectsInv, DraftsInv, DraftMoves, ParkedUnlinked, EntriesMatchRows,
       DirectionsFollowKind, ReversalsUndo

LEMMA EffectsInvHolds == Spec => []EffectsInv
BY EffectsInit, EffectsStep, PTL DEF Spec

(* The transactions and the ledger tell one story for ever: a row that     *)
(* moved money has its one entry, at the balance it reports.               *)
THEOREM RowsAndLedgerAgree == Spec => []EntriesMatchRows
<1>1. EffectsInv => EntriesMatchRows
  BY DEF EffectsInv
<1> QED BY <1>1, EffectsInvHolds, PTL

(* A processed reversal and the row it references moved the same amount in *)
(* opposite directions.                                                    *)
LEMMA ReversalsOppose ==
  ASSUME EffectsInv PROVE ReversalsUndoMovements
<1> SUFFICES ASSUME NEW t \in DOMAIN txns, Reverses(txns[t])
             PROVE  LET r == txns[t].ref
                        w == WalletOf(t)
                    IN  /\ r \in DOMAIN txns
                        /\ \A i \in EntriesOf(w, t), j \in EntriesOf(w, r) :
                             Sign(ledger[w][i]) = -Sign(ledger[w][j])
                        /\ EntriesOf(w, r) # {}
  BY DEF EffectsInv, ReversalsUndo, ReversalsUndoMovements, Reverses, Reversals
<1> DEFINE r == txns[t].ref
           w == WalletOf(t)
<1>1. r \in DOMAIN txns /\ WalletOf(t) \in Wallets
  BY RowsHaveWallets DEF EffectsInv, ReversalsUndo
<1>2. PICK i : /\ EntriesOf(w, t) = {i} /\ ledger[w][i].amount = txns[t].payload.amount
  <2>1. MovesMoney(txns[t].status, txns[t].payload) /\ txns[t].payload.kind # "OPENING"
    BY DEF Reverses, Reversals, MovesMoney
  <2> QED BY <2>1 DEF EffectsInv, EntriesMatchRows, MovesMoney
<1>3. Undoes(txns[r], txns[t].payload, ledger[w][i].direction)
  BY <1>2 DEF EffectsInv, ReversalsUndo
<1>4. WalletOf(r) = w
  BY <1>3 DEF Undoes, WalletOf, Reverses, Reversals
<1>5. PICK j : /\ EntriesOf(w, r) = {j} /\ ledger[w][j].amount = txns[r].payload.amount
  <2>1. MovesMoney(txns[r].status, txns[r].payload) /\ txns[r].payload.kind # "OPENING"
    BY <1>3 DEF Undoes, MovesMoney
  <2> QED BY <1>1, <1>4, <2>1 DEF EffectsInv, EntriesMatchRows, MovesMoney
<1>6. KindMoves(txns[r].payload.kind, ledger[w][j].direction)
  BY <1>1, <1>4, <1>5 DEF EffectsInv, DirectionsFollowKind
<1>7. ledger[w][i].amount = ledger[w][j].amount /\ ledger[w][i].amount \in Int
  <2>1. i \in DOMAIN ledger[w]
    BY <1>2 DEF EntriesOf
  <2>2. ledger[w] \in Seq(Entries)
    BY <1>1 DEF EffectsInv, UniqueInv, LedgerInv, TypeInv,  TablesTypeOK
  <2>3. ledger[w][i] \in Entries
    BY <2>1, <2>2, ElementOfSeq
  <2> QED BY <1>2, <1>3, <1>5, <2>3 DEF Undoes, Entries
<1>8. Sign(ledger[w][i]) = -Sign(ledger[w][j])
  BY <1>3, <1>6, <1>7 DEF Undoes, KindMoves, Sign
<1> QED BY <1>1, <1>2, <1>5, <1>8

(* A processed REFUND or ROLLBACK undoes exactly the movement it           *)
(* references, whatever the rows another session stored between its reads  *)
(* and its commit.                                                         *)
THEOREM ReversalsAreExact == Spec => []ReversalsUndoMovements
<1>1. EffectsInv => ReversalsUndoMovements
  BY ReversalsOppose
<1> QED BY <1>1, EffectsInvHolds, PTL

-------------------------------------------------------------------------------
(* Decisions are serial.  What the rules decide for a wallet depends on    *)
(* the rows of that wallet only, as long as the references the operation   *)
(* could name lie in it; the wallet's lock keeps those rows as they are.   *)

(* The rules see of the rows which ones a reference names, their payloads, *)
(* whether they are processed and whether they are reversed already.       *)
LEMMA RulesAgree ==
  ASSUME NEW rows, NEW own, NEW rows2, NEW own2, NEW p, NEW wal,
         Named(rows2, p.refExt) = Named(rows, p.refExt),
         \A i \in Named(rows, p.refExt) :
           /\ rows2[i].payload = rows[i].payload
           /\ rows2[i].status = "PROCESSED" <=> rows[i].status = "PROCESSED"
           /\ AlreadyReversed(rows2, own2, p.kind, i) <=> AlreadyReversed(rows, own, p.kind, i)
  PROVE  Apply(wal, rows2, own2, p) = Apply(wal, rows, own, p)
<1>1. References(rows2, p) = References(rows, p)
  BY DEF References
<1>2. \A i \in References(rows, p) : i \in Named(rows, p.refExt)
  BY DEF References
<1>3. ASSUME NEW i \in References(rows, p)
      PROVE  WithReference(wal, rows2, own2, p, i) = WithReference(wal, rows, own, p, i)
  <2>1. ReferenceFailure(rows2, own2, p, i) = ReferenceFailure(rows, own, p, i)
    BY <1>2, <1>3 DEF ReferenceFailure
  <2> QED BY <1>2, <1>3, <2>1 DEF WithReference
<1>4. {WithReference(wal, rows2, own2, p, i) : i \in References(rows2, p)}
        = {WithReference(wal, rows, own, p, i) : i \in References(rows, p)}
  BY <1>1, <1>3
<1> QED BY <1>1, <1>4 DEF Apply

(* An active reversal lies in the wallet of its reference.                 *)
ReversalsLocal ==
  \A j \in DOMAIN txns :
    /\ txns[j].status \in ActiveStatus
    /\ txns[j].payload.kind \in Reversals
    /\ txns[j].ref # NoTx
    => /\ txns[j].ref \in DOMAIN txns
       /\ txns[txns[j].ref].payload.wallet = txns[j].payload.wallet

LEMMA ReversalsStay == EffectsInv => ReversalsLocal
<1> SUFFICES ASSUME EffectsInv, NEW j \in DOMAIN txns, txns[j].status \in ActiveStatus,
                    txns[j].payload.kind \in Reversals, txns[j].ref # NoTx
             PROVE  /\ txns[j].ref \in DOMAIN txns
                    /\ txns[txns[j].ref].payload.wallet = txns[j].payload.wallet
  BY DEF ReversalsLocal
<1>1. txns[j] \in Rows
  BY ElementOfSeq, LenProperties DEF EffectsInv, UniqueInv, LedgerInv, TypeInv, TablesTypeOK
<1>2. txns[j].status = "PROCESSED"
  BY <1>1 DEF EffectsInv, ParkedUnlinked, Rows, Statuses, ActiveStatus
<1>3. PICK i : i \in EntriesOf(WalletOf(j), j)
  BY <1>2 DEF EffectsInv, EntriesMatchRows, Reversals
<1> QED BY <1>2, <1>3 DEF EffectsInv, ReversalsUndo, Reverses, Undoes

(* What may happen to the rows while somebody holds wallet w: rows keep    *)
(* their payload, a new or changed row is another wallet's, or was parked  *)
(* and is rejected.                                                        *)
RowsMove(w) ==
  /\ \A i \in DOMAIN txns :
       /\ i \in DOMAIN txns' /\ txns'[i].payload = txns[i].payload
       /\ txns'[i] # txns[i] => txns[i].status = "PENDING_REFERENCE"
  /\ \A i \in DOMAIN txns' :
       \/ i \in DOMAIN txns /\ txns'[i] = txns[i]
       \/ txns'[i].payload.wallet # w
       \/ /\ i \in DOMAIN txns /\ txns[i].status = "PENDING_REFERENCE"
          /\ txns'[i].status = "REJECTED"

LEMMA RulesStable ==
  ASSUME EffectsInv, ReversalsLocal', NEW p, NEW wal, NEW own, RowsMove(p.wallet),
         LocalReferences(p)'
  PROVE  LocalReferences(p) /\ Apply(wal, txns', own, p) = Apply(wal, txns, own, p)
<1> DEFINE w == p.wallet
           N == Named(txns, p.refExt)
<1>1. \A i \in DOMAIN txns' : txns'[i].payload.ext = p.refExt => txns'[i].payload.wallet = w
  BY DEF LocalReferences, Named
<1>2. Named(txns', p.refExt) = N
  BY <1>1 DEF Named, RowsMove
<1>3. \A i \in N : txns[i].payload.wallet = w
  BY <1>1 DEF Named, RowsMove
<1>4. ASSUME NEW i \in N
      PROVE  /\ txns'[i].payload = txns[i].payload
             /\ txns'[i].status = "PROCESSED" <=> txns[i].status = "PROCESSED"
  BY <1>1, <1>4 DEF Named, RowsMove
<1>5. \A i \in N : i # NoTx
  BY LenProperties DEF Named, NoTx, EffectsInv, UniqueInv, LedgerInv, TypeInv, TablesTypeOK
<1>6. ASSUME NEW i \in N, AlreadyReversed(txns', own, p.kind, i)
      PROVE  AlreadyReversed(txns, own, p.kind, i)
  <2>1. PICK j \in DOMAIN txns' : /\ j # own /\ txns'[j].ref = i
                                  /\ txns'[j].payload.kind = p.kind
                                  /\ txns'[j].status \in ActiveStatus
    BY <1>6 DEF AlreadyReversed
  <2>2. p.kind \in Reversals
    BY <1>6 DEF AlreadyReversed, Reversals
  <2>3. txns'[i].payload.wallet = txns'[j].payload.wallet
    BY <1>5, <1>6, <2>1, <2>2 DEF ReversalsLocal
  <2>4. j \in DOMAIN txns /\ txns'[j] = txns[j]
    BY <1>3, <1>4, <1>6, <2>1, <2>3 DEF RowsMove, ActiveStatus
  <2> QED BY <2>1, <2>2, <2>4 DEF AlreadyReversed, Reversals
<1>7. ASSUME NEW i \in N, AlreadyReversed(txns, own, p.kind, i)
      PROVE  AlreadyReversed(txns', own, p.kind, i)
  <2>1. PICK j \in DOMAIN txns : /\ j # own /\ txns[j].ref = i
                                 /\ txns[j].payload.kind = p.kind
                                 /\ txns[j].status \in ActiveStatus
    BY <1>7 DEF AlreadyReversed
  <2>2. txns'[j] = txns[j] /\ j \in DOMAIN txns'
    BY <1>5, <1>7, <2>1 DEF RowsMove, EffectsInv, ParkedUnlinked
  <2> QED BY <1>7, <2>1, <2>2 DEF AlreadyReversed
<1>8. LocalReferences(p)
  BY <1>3 DEF LocalReferences
<1>9. Apply(wal, txns', own, p) = Apply(wal, txns, own, p)
  BY <1>2, <1>4, <1>6, <1>7, RulesAgree
<1> QED BY <1>8, <1>9

(* An outcome names no row but one it was decided on.                      *)
LEMMA OutcomeRefs ==
  ASSUME NEW wal, NEW rows, NEW own, NEW p, NEW o \in ProcessWagerMovement(wal, rows, own, p)
  PROVE  o.ref \in {NoTx} \cup DOMAIN rows
<1>1. \A ref, code : Rejected(wal, ref, code).ref = ref
  BY DEF Rejected
<1>2. \A ref, refKind : ExecuteWalletMovement(wal, p, ref, refKind).ref = ref
  BY DEF ExecuteWalletMovement, Processed, Rejected
<1>3. Processed(wal, NoTx, NoMove).ref = NoTx /\ Parked(wal).ref = NoTx
  BY DEF Processed, Parked
<1>4. \A i \in References(rows, p) : i \in DOMAIN rows /\ WithReference(wal, rows, own, p, i).ref = i
  BY <1>1, <1>2 DEF WithReference, References, Named
<1> QED BY <1>1, <1>2, <1>3, <1>4 DEF ProcessWagerMovement, Apply

(* An operation may name itself as its reference: the only row of its id   *)
(* and provider it then finds is its own, which is not processed.          *)
NamesItself(wal, p) ==
  /\ wal.player = p.player /\ wal.currency = p.currency
  /\ p.kind # "LOSS" /\ ShouldResolveReference(p) /\ p.ext = p.refExt

(* What the rules decide of an operation stored in no row, if it is given  *)
(* the id own.                                                             *)
SerialRules(wal, rows, own, p) ==
  IF NamesItself(wal, p) THEN {Rejected(wal, own, "REFERENCE_NOT_PROCESSED")}
                         ELSE ProcessWagerMovement(wal, rows, NoTx, p)

LEMMA VisibleRules ==
  ASSUME TypeInv, NEW p \in OperationPayloads, RowsWithExt(p) = {}, NEW wal,
         NEW pend, pend.payload = p, pend.status = "PENDING", NEW own, own = Len(txns) + 1
  PROVE  ProcessWagerMovement(wal, Append(txns, pend), own, p) = SerialRules(wal, txns, own, p)
<1> DEFINE rows == Append(txns, pend)
<1>1. /\ DOMAIN txns = 1 .. Len(txns) /\ Len(txns) \in Nat /\ DOMAIN rows = 1 .. own
      /\ \A i \in DOMAIN txns : rows[i] = txns[i]
      /\ rows[own] = pend
  <2> DEFINE S == Rows \cup {pend}
  <2>1. txns \in Seq(S)
    BY SeqMonotonic DEF TypeInv, TablesTypeOK
  <2>2. pend \in S
    OBVIOUS
  <2> HIDE DEF S
  <2> QED BY <2>1, <2>2, AppendProperties, LenProperties
<1> HIDE DEF rows
<1>2. CASE p.ext # p.refExt
  <2>1. Named(rows, p.refExt) = Named(txns, p.refExt)
    BY <1>1, <1>2 DEF Named
  <2>2. ASSUME NEW i
        PROVE  AlreadyReversed(rows, own, p.kind, i) <=> AlreadyReversed(txns, NoTx, p.kind, i)
    BY <1>1 DEF AlreadyReversed, NoTx
  <2>3. \A i \in Named(txns, p.refExt) : rows[i] = txns[i]
    BY <1>1 DEF Named
  <2>4. Apply(wal, rows, own, p) = Apply(wal, txns, NoTx, p)
    BY <2>1, <2>2, <2>3, RulesAgree
  <2> QED BY <1>2, <2>4 DEF SerialRules, NamesItself, ProcessWagerMovement, rows
<1>3. CASE p.ext = p.refExt
  <2>1. References(rows, p) = {own}
    <3>1. p.refExt # Null
      BY <1>3, NamesAssumption DEF OperationPayloads
    <3>2. {i \in Named(rows, p.refExt) : rows[i].payload.provider = p.provider} = {own}
      BY <1>1, <1>3 DEF Named, RowsWithExt
    <3> QED BY <3>1, <3>2 DEF References
  <2>2. WithReference(wal, rows, own, p, own) = Rejected(wal, own, "REFERENCE_NOT_PROCESSED")
    BY <1>1 DEF WithReference, ReferenceFailure
  <2>3. p.kind # "LOSS" /\ ShouldResolveReference(p) =>
          Apply(wal, rows, own, p) = {Rejected(wal, own, "REFERENCE_NOT_PROCESSED")}
    BY <2>1, <2>2 DEF Apply
  <2>4. ~(p.kind # "LOSS" /\ ShouldResolveReference(p)) =>
          Apply(wal, rows, own, p) = Apply(wal, txns, NoTx, p)
    BY DEF Apply
  <2> QED BY <1>3, <2>3, <2>4 DEF SerialRules, NamesItself, ProcessWagerMovement, rows
<1> QED BY <1>2, <1>3

(* The session keeps its own id open until the commit assigns it.          *)
LEMMA RelinkSerial ==
  ASSUME NEW wal, NEW p, NEW from, from \notin {NoTx} \cup DOMAIN txns, NEW to,
         NEW o \in SerialRules(wal, txns, from, p)
  PROVE  Relink(o, from, to) \in SerialRules(wal, txns, to, p)
<1>1. CASE NamesItself(wal, p)
  BY <1>1 DEF SerialRules, Relink, Rejected
<1>2. CASE ~NamesItself(wal, p)
  <2>1. o.ref \in {NoTx} \cup DOMAIN txns
    BY <1>2, OutcomeRefs DEF SerialRules
  <2> QED BY <1>2, <2>1 DEF SerialRules, Relink
<1> QED BY <1>1, <1>2

(* The rows of a wallet stay while no session commits into it.             *)
LEMMA ServiceRows ==
  ASSUME TypeInv, [Next]_vars, NEW w \in Wallets,
         \A s \in Sessions : Commit(s) => call[s].payload.wallet # w
  PROVE  RowsMove(w)
<1>1. ASSUME NEW row \in Rows, txns' = Append(txns, row), row.payload.wallet # w
      PROVE  RowsMove(w)
  <2>1. /\ \A i \in DOMAIN txns' : i \in DOMAIN txns \/ i = Len(txns) + 1
        /\ \A i \in DOMAIN txns : i \in DOMAIN txns' /\ txns'[i] = txns[i]
        /\ txns'[Len(txns) + 1] = row
    BY <1>1, AppendProperties, LenProperties DEF TypeInv, TablesTypeOK
  <2> QED BY <1>1, <2>1 DEF RowsMove
<1>2. CASE UNCHANGED txns
  BY <1>2 DEF RowsMove
<1>3. CASE UNCHANGED vars
  BY <1>2, <1>3 DEF vars, tables
<1>4. ASSUME NEW v \in Wallets, NEW player \in Players, NEW currency \in Currencies,
             NEW amount \in Openings, CreateWallet(v, player, currency, amount)
      PROVE  RowsMove(w)
  <2>1. OpeningRow(v) \in Rows /\ OpeningRow(v).payload.wallet = Null
    BY DEF OpeningRow, Row, Rows, Payloads, Statuses, NoTx, NoBalance, OpeningPayload
  <2> QED BY <1>1, <1>2, <1>4, <2>1, NamesAssumption DEF CreateWallet
<1>5. ASSUME NEW s \in Sessions, Session(s) PROVE RowsMove(w)
  <2>1. CASE ~Commit(s)
    BY <1>2, <1>5, <2>1, WritersEnter
  <2>2. CASE Commit(s)
    <3> DEFINE row == Row(call[s].key, call[s].payload, Relink(draft[s], Own, Len(txns) + 1))
    <3>1. row \in Rows /\ txns' = Append(txns, row) /\ row.payload = call[s].payload
      BY <2>2, CommitAppends
    <3> HIDE DEF row
    <3> QED BY <1>1, <2>2, <3>1
  <2> QED BY <2>1, <2>2
<1> QED BY <1>3, <1>4, <1>5 DEF Next

(* What a session is about to flush is what the rules decide on the rows   *)
(* as they are now, whatever was stored since they ran.                    *)
SerialDraft(s) ==
  LET p == call[s].payload IN
  pc[s] = "flush" /\ LocalReferences(p) => draft[s] \in SerialRules(copy[s], txns, Own, p)

SerialInv == EffectsInv /\ \A s \in Sessions : SerialDraft(s)

LEMMA DecisionSerial ==
  ASSUME EffectsInv, NEW s \in Sessions, ApplyRules(s)
  PROVE  SerialDraft(s)'
<1> DEFINE p == call[s].payload
           own == Len(txns) + 1
<1>inv. TypeInv
  BY DEF EffectsInv, UniqueInv, LedgerInv
<1>1. /\ p \in OperationPayloads /\ RowsWithExt(p) = {}
      /\ PendingRow(call[s]).payload = p /\ PendingRow(call[s]).status = "PENDING"
  BY <1>inv, CallsAssumption
     DEF ApplyRules, TypeInv, SessionOK, LockedSteps, EffectsInv, UniqueInv, WritersInv,
         WritingSteps, Duplicate, PendingRow, Row
<1>2. PICK o \in ProcessWagerMovement(copy[s], Visible(s), own, p) :
        draft' = [draft EXCEPT ![s] = Relink(o, own, Own)]
  BY DEF ApplyRules
<1>3. /\ draft'[s] = Relink(o, own, Own) /\ call' = call /\ txns' = txns /\ copy' = copy
      /\ own \notin {NoTx} \cup DOMAIN txns
  BY <1>inv, <1>2, LenProperties DEF ApplyRules, TypeInv, TablesTypeOK, SessionsTypeOK, tables, NoTx
<1>4. o \in SerialRules(copy[s], txns, own, p)
  BY <1>inv, <1>1, <1>2, VisibleRules DEF Visible
<1>5. draft'[s] \in SerialRules(copy[s], txns, Own, p)
  BY <1>3, <1>4, RelinkSerial
<1>6. call'[s].payload = p
  BY <1>3
<1> HIDE DEF p
<1> QED BY <1>3, <1>5, <1>6 DEF SerialDraft

LEMMA SerialStays ==
  ASSUME EffectsInv, ReversalsLocal', NEW s \in Sessions, SerialDraft(s), pc[s] = "flush",
         draft'[s] = draft[s], copy'[s] = copy[s], call'[s] = call[s],
         RowsMove(call[s].payload.wallet)
  PROVE  SerialDraft(s)'
<1> DEFINE p == call[s].payload
           wal == copy[s]
           d == draft[s]
<1>1. SUFFICES ASSUME LocalReferences(p)' PROVE d \in SerialRules(wal, txns', Own, p)
  BY DEF SerialDraft
<1>2. PICK q, w2 : q = p /\ w2 = wal
  OBVIOUS
<1>3. LocalReferences(q)'
  BY <1>1, <1>2 DEF LocalReferences
<1>4. LocalReferences(q) /\ Apply(w2, txns', NoTx, q) = Apply(w2, txns, NoTx, q)
  BY <1>2, <1>3, RulesStable
<1>5. SerialRules(w2, txns', Own, q) = SerialRules(w2, txns, Own, q)
  BY <1>4 DEF SerialRules, ProcessWagerMovement
<1>6. d \in SerialRules(w2, txns, Own, q)
  BY <1>2, <1>4 DEF SerialDraft
<1> QED BY <1>2, <1>5, <1>6

(* A session that waits to flush keeps what it decided, and its wallet.    *)
LEMMA SerialStep ==
  ASSUME SerialInv, [Next]_vars
  PROVE  SerialInv'
<1>inv. EffectsInv /\ TypeInv /\ LocksInv
  BY DEF SerialInv, EffectsInv, UniqueInv, LedgerInv
<1>1. EffectsInv' /\ ReversalsLocal'
  <2>1. EffectsInv'
    BY <1>inv, EffectsStep
  <2> QED BY <2>1, ReversalsStay, PTL
<1> SUFFICES ASSUME NEW x \in Sessions PROVE SerialDraft(x)'
  BY <1>1 DEF SerialInv
<1>2. CASE pc'[x] # "flush"
  BY <1>2 DEF SerialDraft
<1>3. CASE \E s \in Sessions : s = x /\ ApplyRules(s)
  BY <1>inv, <1>3, DecisionSerial
<1>4. ASSUME pc'[x] = "flush", pc[x] = "flush",
             draft'[x] = draft[x], copy'[x] = copy[x], call'[x] = call[x]
      PROVE  SerialDraft(x)'
  <2>1. call[x].payload.wallet \in Wallets /\ lock[call[x].payload.wallet] = x
    BY <1>inv, <1>4, HeldWallet DEF LocksInv, HoldsWallet, LockedSteps
  <2>2. ASSUME NEW s \in Sessions, Commit(s) PROVE call[s].payload.wallet # call[x].payload.wallet
    <3>1. pc[s] = "flush" /\ pc'[s] = "idle"
      BY <1>inv, <2>2 DEF Commit, Finish, GoTo, TypeInv, SessionsTypeOK
    <3> QED BY <1>inv, <1>4, <2>1, <3>1 DEF LocksInv, HoldsWallet, LockedSteps
  <2>3. RowsMove(call[x].payload.wallet)
    BY <1>inv, <2>1, <2>2, ServiceRows
  <2> QED BY <1>inv, <1>1, <1>4, <2>3, SerialStays DEF SerialInv
<1>5. CASE UNCHANGED <<pc, locals>>
  BY <1>2, <1>4, <1>5 DEF locals
<1>6. CASE \E s \in Sessions : Session(s)
  BY <1>inv, <1>2, <1>3, <1>4, <1>6, OnlyRulesDecide
<1> QED BY <1>5, <1>6 DEF Next, vars, CreateWallet

LEMMA SerialInit ==
  ASSUME Init
  PROVE  SerialInv
BY EffectsInit DEF Init, SerialInv, SerialDraft

(* A commit stores what the rules decide on the tables it is applied to.   *)
LEMMA CommitSerial ==
  ASSUME SerialInv, NEW s \in Sessions, Commit(s), NEW t, t = Len(txns) + 1,
         NEW p, p = call[s].payload, LocalReferences(p)
  PROVE  \E o \in ProcessWagerMovement(wallets[p.wallet], Append(txns, PendingRow(txns'[t])), t, p) :
           /\ txns'[t] = Row(txns'[t].key, p, o)
           /\ wallets'[p.wallet] = o.wallet
<1> DEFINE o == Relink(draft[s], Own, t)
           row == Row(call[s].key, p, o)
<1>inv. TypeInv /\ LocksInv /\ EffectsInv
  BY DEF SerialInv, EffectsInv, UniqueInv, LedgerInv
<1>1. /\ pc[s] = "flush" /\ txns' = Append(txns, row)
      /\ wallets' = [wallets EXCEPT ![p.wallet] = draft[s].wallet]
  BY DEF Commit
<1>2. /\ p \in OperationPayloads /\ p.wallet \in Wallets /\ row \in Rows
      /\ draft[s] \in Outcomes /\ t \in Nat
  BY <1>inv, <1>1, CommitFinds, RowOK
<1>3. row.payload = p /\ row.key = call[s].key /\ row = Row(row.key, p, o)
  BY DEF Row
<1>4. o.wallet = draft[s].wallet
  BY <1>2 DEF Relink, Outcomes
<1>5. copy[s] = wallets[p.wallet]
  BY <1>inv, <1>1 DEF LocksInv, HoldsWallet, LockedSteps
<1>6. RowsWithExt(p) = {}
  BY <1>inv, <1>1 DEF EffectsInv, UniqueInv, WritersInv, WritingSteps, Duplicate
<1>7. Own \notin {NoTx} \cup DOMAIN txns
  BY <1>inv, LenProperties DEF Own, NoTx, TypeInv, TablesTypeOK
<1>8. o \in SerialRules(copy[s], txns, t, p)
  <2>1. draft[s] \in SerialRules(copy[s], txns, Own, p)
    BY <1>1 DEF SerialInv, SerialDraft
  <2> QED BY <1>7, <2>1, RelinkSerial
<1>9. txns'[t] = row
  <2> HIDE DEF row
  <2> QED BY <1>inv, <1>1, <1>2, AppendProperties DEF TypeInv, TablesTypeOK
<1> HIDE DEF o, row
<1>10. PendingRow(row).payload = p /\ PendingRow(row).status = "PENDING"
  BY <1>3 DEF PendingRow, Row
<1>11. o \in ProcessWagerMovement(wallets[p.wallet], Append(txns, PendingRow(row)), t, p)
  BY <1>inv, <1>2, <1>5, <1>6, <1>8, <1>10, VisibleRules
<1>12. wallets'[p.wallet] = o.wallet
  BY <1>inv, <1>1, <1>2, <1>4 DEF TypeInv, TablesTypeOK
<1> QED BY <1>3, <1>9, <1>11, <1>12

(* Each commit stores the row and the wallet that the rules decide on the  *)
(* tables it is applied to, although they ran on earlier ones: concurrent  *)
(* operations of one wallet are as good as executed one after the other.   *)
THEOREM SerialCommits == Spec => CommitsAreSerial
<1> DEFINE Serial ==
      \A t \in DOMAIN txns' \ DOMAIN txns :
        LET row == txns'[t]
            p   == row.payload
        IN  p.kind # "OPENING" /\ LocalReferences(p) =>
              \E o \in ProcessWagerMovement(wallets[p.wallet],
                         Append(txns, PendingRow(row)), t, p) :
                /\ row = Row(row.key, p, o)
                /\ wallets'[p.wallet] = o.wallet
<1>1. ASSUME SerialInv, [Next]_vars PROVE [Serial]_vars
  <2> SUFFICES ASSUME NEW t \in DOMAIN txns' \ DOMAIN txns, txns'[t].payload.kind # "OPENING",
                      LocalReferences(txns'[t].payload)
               PROVE  \E o \in ProcessWagerMovement(wallets[txns'[t].payload.wallet],
                                 Append(txns, PendingRow(txns'[t])), t, txns'[t].payload) :
                        /\ txns'[t] = Row(txns'[t].key, txns'[t].payload, o)
                        /\ wallets'[txns'[t].payload.wallet] = o.wallet
    OBVIOUS
  <2>inv. TypeInv
    BY <1>1 DEF SerialInv, EffectsInv, UniqueInv, LedgerInv
  <2>1. ASSUME NEW row, row \in Rows, txns' = Append(txns, row)
        PROVE  t = Len(txns) + 1 /\ txns'[t] = row
    BY <2>inv, <2>1, AppendProperties, LenProperties DEF TypeInv, TablesTypeOK
  <2>2. ASSUME NEW w \in Wallets, NEW player \in Players, NEW currency \in Currencies,
               NEW amount \in Openings, CreateWallet(w, player, currency, amount)
        PROVE  FALSE
    <3>1. OpeningRow(w) \in Rows /\ OpeningRow(w).payload.kind = "OPENING"
      BY DEF OpeningRow, Row, Rows, Payloads, Statuses, NoTx, NoBalance, OpeningPayload
    <3> QED BY <2>1, <2>2, <3>1 DEF CreateWallet
  <2>3. PICK s \in Sessions : Session(s)
    BY <1>1, <2>2 DEF Next, vars, tables
  <2>4. Commit(s)
    BY <2>inv, <2>3, WritersEnter
  <2>5. t = Len(txns) + 1 /\ txns'[t].payload = call[s].payload
    <3> DEFINE row == Row(call[s].key, call[s].payload, Relink(draft[s], Own, Len(txns) + 1))
    <3>1. row \in Rows /\ txns' = Append(txns, row) /\ row.payload = call[s].payload
      BY <2>inv, <2>4, CommitAppends
    <3> HIDE DEF row
    <3> QED BY <2>1, <3>1
  <2> QED BY <1>1, <2>4, <2>5, CommitSerial
<1> HIDE DEF Serial
<1>2. Spec => [][Serial]_vars
  BY <1>1, SerialInit, SerialStep, PTL DEF Spec
<1> QED BY <1>2 DEF CommitsAreSerial, Serial

-------------------------------------------------------------------------------
(* What the outbox tells                                                   *)

(* Events staged for row t follow those it has, and are nobody else's.     *)
StagedFor(t, events, n) ==
  /\ \A i \in DOMAIN outbox : i \in DOMAIN outbox' /\ outbox'[i] = outbox[i] /\ i \in 1 .. n
  /\ \A i \in DOMAIN events : outbox'[n + i] = events[i]
  /\ \A u : u # t => EventsOf(u)' = EventsOf(u)
  /\ EventsOf(t)' = EventsOf(t) \cup {n + i : i \in DOMAIN events}

LEMMA EventsStaged ==
  ASSUME outbox \in Seq(EventRecords), NEW t, NEW events \in Seq(EventRecords),
         \A i \in DOMAIN events : events[i].tx = t,
         outbox' = outbox \o events, NEW n, n = Len(outbox)
  PROVE  StagedFor(t, events, n)
<1>1. /\ n \in Nat /\ DOMAIN outbox = 1 .. n
      /\ Len(events) \in Nat /\ DOMAIN events = 1 .. Len(events)
  BY LenProperties
<1>2. /\ outbox' \in Seq(EventRecords) /\ Len(outbox') = n + Len(events)
      /\ \A i \in 1 .. n + Len(events) :
           outbox'[i] = IF i <= n THEN outbox[i] ELSE events[i - n]
  BY ConcatProperties
<1>3. DOMAIN outbox' = 1 .. n + Len(events)
  BY <1>2, LenProperties
<1>4. \A i \in DOMAIN outbox : i \in DOMAIN outbox' /\ outbox'[i] = outbox[i] /\ i \in 1 .. n
  BY <1>1, <1>2, <1>3
<1>5. \A i \in DOMAIN events : n + i \in DOMAIN outbox' /\ outbox'[n + i] = events[i]
  BY <1>1, <1>2, <1>3
<1>6. \A j \in DOMAIN outbox' : j \in DOMAIN outbox \/ \E i \in DOMAIN events : j = n + i
  <2> SUFFICES ASSUME NEW j \in DOMAIN outbox', j \notin DOMAIN outbox
               PROVE  \E i \in DOMAIN events : j = n + i
    OBVIOUS
  <2>1. j - n \in DOMAIN events /\ j = n + (j - n)
    BY <1>1, <1>3
  <2> QED BY <2>1
<1>7. ASSUME NEW u, u # t PROVE EventsOf(u)' = EventsOf(u)
  BY <1>4, <1>5, <1>6, <1>7 DEF EventsOf
<1>8. EventsOf(t)' = EventsOf(t) \cup {n + i : i \in DOMAIN events}
  BY <1>4, <1>5, <1>6 DEF EventsOf
<1> QED BY <1>4, <1>5, <1>7, <1>8 DEF StagedFor

(* The events of an outcome have the types of the row it leaves.           *)
LEMMA EventsOfOutcome ==
  ASSUME NEW t, NEW kind, NEW w, NEW o, NEW row, row.status = o.status, row.payload.kind = kind,
         NEW events, events = Events(t, kind, w, o)
  PROVE  /\ EventTypes(row) \in Seq({o.status, "BALANCE_CHANGED"})
         /\ DOMAIN events = DOMAIN EventTypes(row)
         /\ \A i \in DOMAIN events :
              /\ events[i].tx = t /\ events[i].type = EventTypes(row)[i]
              /\ events[i].failure = o.failure /\ events[i].balance = o.wallet.balance
<1> DEFINE event(type) == [type |-> type, tx |-> t, wallet |-> w,
                           failure |-> o.failure, balance |-> o.wallet.balance]
<1>1. CASE o.status = "PROCESSED" /\ kind # "LOSS"
  <2>1. /\ Events(t, kind, w, o) = <<event("PROCESSED"), event("BALANCE_CHANGED")>>
        /\ EventTypes(row) = <<"PROCESSED", "BALANCE_CHANGED">>
    BY <1>1 DEF Events, EventTypes
  <2> QED BY <1>1, <2>1
<1>2. CASE ~(o.status = "PROCESSED" /\ kind # "LOSS")
  <2>1. /\ Events(t, kind, w, o) = <<event(o.status)>>
        /\ EventTypes(row) = <<o.status>>
    BY <1>2 DEF Events, EventTypes
  <2> QED BY <1>2, <2>1
<1> QED BY <1>1, <1>2

(* They continue the story of row t.                                       *)
LEMMA TellsMore ==
  ASSUME NEW S, NEW before \in Seq(S), NEW types \in Seq(S), NEW t, Tells(t, before, 0),
         NEW events, NEW n \in Nat, StagedFor(t, events, n), DOMAIN events = DOMAIN types,
         \A i \in DOMAIN events :
           /\ events[i].type = types[i] /\ events[i].failure = txns'[t].failure
           /\ txns'[t].observed # NoBalance => events[i].balance = txns'[t].observed
  PROVE  Tells(t, before \o types, Len(before))'
<1> DEFINE m == Len(before)
           k == Len(types)
           all == before \o types
<1>1. /\ m \in Nat /\ DOMAIN before = 1 .. m /\ k \in Nat /\ DOMAIN types = 1 .. k
      /\ DOMAIN all = 1 .. m + k
      /\ \A i \in 1 .. m + k : all[i] = IF i <= m THEN before[i] ELSE types[i - m]
  BY ConcatProperties, LenProperties
<1>2. PICK old \in [1 .. m -> EventsOf(t)] :
        /\ EventsOf(t) = {old[i] : i \in 1 .. m}
        /\ \A i, j \in 1 .. m : i < j => old[i] < old[j]
        /\ \A i \in 1 .. m : outbox[old[i]].type = before[i]
  <2>1. PICK at \in [DOMAIN before -> EventsOf(t)] :
          /\ EventsOf(t) = {at[i] : i \in DOMAIN before}
          /\ \A i, j \in DOMAIN before : i < j => at[i] < at[j]
          /\ \A i \in DOMAIN before : outbox[at[i]].type = before[i]
    BY DEF Tells
  <2> HIDE DEF m
  <2> QED BY <1>1, <2>1
<1>3. /\ \A i \in 1 .. m : old[i] \in 1 .. n /\ outbox'[old[i]] = outbox[old[i]]
      /\ \A i \in 1 .. k : outbox'[n + i] = events[i]
      /\ EventsOf(t)' = EventsOf(t) \cup {n + i : i \in 1 .. k}
  BY <1>1, <1>2 DEF StagedFor, EventsOf
<1> DEFINE at == [i \in 1 .. m + k |-> IF i <= m THEN old[i] ELSE n + (i - m)]
<1>4. /\ \A i \in 1 .. m : i \in 1 .. m + k /\ at[i] = old[i] /\ all[i] = before[i]
      /\ \A i \in 1 .. k : m + i \in 1 .. m + k /\ at[m + i] = n + i /\ all[m + i] = types[i]
  BY <1>1
<1>5. \A i \in 1 .. m + k : i \in 1 .. m \/ \E j \in 1 .. k : i = m + j
  <2> SUFFICES ASSUME NEW i \in 1 .. m + k, i \notin 1 .. m PROVE \E j \in 1 .. k : i = m + j
    OBVIOUS
  <2>1. i - m \in 1 .. k /\ i = m + (i - m)
    BY <1>1
  <2> QED BY <2>1
<1>6. at \in [DOMAIN all -> EventsOf(t)']
  <2>1. \A i \in 1 .. m + k : at[i] \in EventsOf(t)'
    BY <1>2, <1>3, <1>4, <1>5
  <2> QED BY <1>1, <2>1
<1>7. EventsOf(t)' = {at[i] : i \in DOMAIN all}
  <2> HIDE DEF at, all, m, k
  <2>1. ASSUME NEW x \in EventsOf(t) PROVE \E i \in DOMAIN all : x = at[i]
    <3>1. PICK i \in 1 .. m : x = old[i]
      BY <1>2
    <3>2. i \in DOMAIN all /\ at[i] = old[i]
      BY <1>1, <1>4
    <3> QED BY <3>1, <3>2
  <2>2. ASSUME NEW j \in 1 .. k PROVE \E i \in DOMAIN all : n + j = at[i]
    <3>1. m + j \in DOMAIN all /\ at[m + j] = n + j
      BY <1>1, <1>4
    <3> QED BY <3>1
  <2>3. \A x \in EventsOf(t)' : \E i \in DOMAIN all : x = at[i]
    BY <1>3, <2>1, <2>2
  <2>4. \A i \in DOMAIN all : at[i] \in EventsOf(t)'
    BY <1>6
  <2> QED BY <2>3, <2>4
<1>8. \A i, j \in DOMAIN all : i < j => at[i] < at[j]
  <2> SUFFICES ASSUME NEW i \in 1 .. m + k, NEW j \in 1 .. m + k, i < j PROVE at[i] < at[j]
    BY <1>1
  <2>1. CASE j <= m
    BY <1>1, <1>2, <2>1
  <2>2. CASE i <= m /\ j > m
    BY <1>1, <1>3, <2>2
  <2>3. CASE i > m
    BY <1>1, <2>3
  <2> QED BY <1>1, <2>1, <2>2, <2>3
<1>9. \A i \in DOMAIN all : outbox'[at[i]].type = all[i]
  <2> HIDE DEF at, all, m, k
  <2>1. ASSUME NEW i \in 1 .. m PROVE outbox'[at[i]].type = all[i]
    BY <1>2, <1>3, <1>4
  <2>2. ASSUME NEW i \in 1 .. k PROVE outbox'[at[m + i]].type = all[m + i]
    <3>1. events[i].type = types[i]
      BY <1>1
    <3>2. outbox'[at[m + i]] = events[i] /\ all[m + i] = types[i]
      BY <1>3, <1>4
    <3> QED BY <3>1, <3>2
  <2> SUFFICES ASSUME NEW i \in DOMAIN all PROVE outbox'[at[i]].type = all[i]
    OBVIOUS
  <2>3. i \in 1 .. m \/ \E j \in 1 .. k : i = m + j
    BY <1>1, <1>5
  <2> QED BY <2>1, <2>2, <2>3
<1>10. \A i \in DOMAIN all :
         i > m => /\ outbox'[at[i]].failure = txns'[t].failure
                  /\ txns'[t].observed # NoBalance => outbox'[at[i]].balance = txns'[t].observed
  <2> SUFFICES ASSUME NEW i \in 1 .. m + k, i > m
               PROVE  /\ outbox'[at[i]].failure = txns'[t].failure
                      /\ txns'[t].observed # NoBalance =>
                           outbox'[at[i]].balance = txns'[t].observed
    BY <1>1
  <2>1. PICK j \in 1 .. k : i = m + j
    BY <1>1, <1>5
  <2>2. outbox'[at[i]] = events[j]
    BY <1>3, <1>4, <2>1
  <2> QED BY <1>1, <2>2
<1> HIDE DEF at, all, m
<1> QED BY <1>6, <1>7, <1>8, <1>9, <1>10 DEF Tells, all, m

LEMMA TellsStays ==
  ASSUME NEW t, NEW types, NEW n, Tells(t, types, n), txns'[t] = txns[t],
         EventsOf(t)' = EventsOf(t), \A i \in EventsOf(t) : outbox'[i] = outbox[i]
  PROVE  Tells(t, types, n)'
BY DEF Tells

(* What an outcome observes is the balance it leaves.                      *)
Observes(o) == o.observed # NoBalance => o.observed = o.wallet.balance

LEMMA ApplyObserves ==
  ASSUME NEW wal, NEW rows, NEW own, NEW p, NEW o \in Apply(wal, rows, own, p)
  PROVE  Observes(o)
<1>1. \A ref, code : Observes(Rejected(wal, ref, code))
  BY DEF Observes, Rejected
<1>2. Observes(Parked(wal)) /\ Observes(Processed(wal, NoTx, NoMove))
  BY DEF Observes, Parked, Processed
<1>3. \A ref, refKind : Observes(ExecuteWalletMovement(wal, p, ref, refKind))
  BY <1>1 DEF Observes, ExecuteWalletMovement, Processed
<1> QED BY <1>1, <1>2, <1>3 DEF Apply, WithReference

LEMMA RulesObserve ==
  ASSUME NEW wal, NEW rows, NEW own, NEW p, NEW o \in ProcessWagerMovement(wal, rows, own, p)
  PROVE  Observes(o)
<1>1. \A ref, code : Observes(Rejected(wal, ref, code))
  BY DEF Observes, Rejected
<1> QED BY <1>1, ApplyObserves DEF ProcessWagerMovement

(* An event stays with its row, ...                                        *)
LEMMA OwnedStays ==
  ASSUME EventsHaveRows, NEW t, NEW events, NEW n, StagedFor(t, events, n),
         \A u \in DOMAIN txns : u \in DOMAIN txns' /\ txns'[u].payload = txns[u].payload,
         t \in DOMAIN txns', txns'[t].payload.kind # "OPENING"
  PROVE  EventsHaveRows'
<1> SUFFICES ASSUME NEW i \in DOMAIN outbox'
             PROVE  /\ outbox'[i].tx \in DOMAIN txns'
                    /\ txns'[outbox'[i].tx].payload.kind # "OPENING"
  BY DEF EventsHaveRows
<1>1. CASE outbox'[i].tx = t
  BY <1>1
<1>2. CASE outbox'[i].tx # t
  <2>1. i \in EventsOf(outbox'[i].tx)
    BY <1>2 DEF StagedFor, EventsOf
  <2> QED BY <2>1 DEF EventsHaveRows, EventsOf
<1> QED BY <1>1, <1>2

(* ... and a session flushes what it observed.                             *)
DraftsObserve == \A s \in Sessions : pc[s] = "flush" => Observes(draft[s])

LEMMA DraftsObserveStep ==
  ASSUME TypeInv, DraftsObserve, [Next]_vars
  PROVE  DraftsObserve'
<1> SUFFICES ASSUME NEW x \in Sessions, pc'[x] = "flush" PROVE Observes(draft'[x])
  BY DEF DraftsObserve, Observes
<1>1. ASSUME pc[x] = "flush", draft'[x] = draft[x] PROVE Observes(draft'[x])
  BY <1>1 DEF DraftsObserve
<1>2. CASE UNCHANGED <<pc, draft>>
  BY <1>1, <1>2
<1>3. ASSUME NEW s \in Sessions, Session(s) PROVE Observes(draft'[x])
  <2>1. CASE pc[x] = "flush" /\ draft'[x] = draft[x]
    BY <1>1, <2>1
  <2>2. CASE x = s /\ ApplyRules(s)
    <3>1. PICK o \in ProcessWagerMovement(copy[s], Visible(s), Len(txns) + 1, call[s].payload) :
            draft' = [draft EXCEPT ![s] = Relink(o, Len(txns) + 1, Own)]
      BY <2>2 DEF ApplyRules
    <3>2. Observes(o) /\ draft'[x] = Relink(o, Len(txns) + 1, Own)
      BY <2>2, <3>1, RulesObserve DEF TypeInv, SessionsTypeOK
    <3>3. copy[s] \in WalletRecords /\ call[s].payload \in OperationPayloads
      BY <2>2, CallsAssumption DEF ApplyRules, TypeInv, SessionsTypeOK, SessionOK, LockedSteps
    <3>4. o \in Outcomes
      BY <3>1, <3>3, VisibleOK, DecisionOK DEF Decision
    <3> QED BY <3>2, <3>4 DEF Observes, Relink, Outcomes
  <2> QED BY <1>3, <2>1, <2>2, OnlyRulesDecide
<1> QED BY <1>2, <1>3 DEF Next, vars, locals, CreateWallet

(* What a step of the service does to the rows and their events: those it  *)
(* finds stay, and a new row is announced.                                 *)
RowsAnnounced ==
  /\ \A t \in DOMAIN txns :
       /\ t \in DOMAIN txns' /\ txns'[t] = txns[t]
       /\ EventsOf(t)' = EventsOf(t)
       /\ \A i \in EventsOf(t) : outbox'[i] = outbox[i]
  /\ \A t \in DOMAIN txns' \ DOMAIN txns :
       txns'[t].payload.kind # "OPENING" => Tells(t, EventTypes(txns[t]), 0)'
  /\ EventsHaveRows'

LEMMA CommitAnnounces ==
  ASSUME EffectsInv, DraftsObserve, EventsHaveRows, NEW s \in Sessions, Commit(s)
  PROVE  RowsAnnounced
<1> DEFINE c == call[s]
           p == c.payload
           o == draft[s]
<1>inv. TypeInv /\ outbox \in Seq(EventRecords)
  BY DEF EffectsInv, UniqueInv, LedgerInv, TypeInv, TablesTypeOK
<1>1. PICK t, row, events, n :
        /\ t = Len(txns) + 1 /\ row = Row(c.key, p, Relink(o, Own, t))
        /\ events = Events(t, p.kind, p.wallet, o) /\ n = Len(outbox)
  OBVIOUS
<1>2. /\ pc[s] = "flush" /\ txns' = Append(txns, row) /\ outbox' = outbox \o events
  BY <1>1 DEF Commit
<1>3. /\ o \in Outcomes /\ p.wallet \in Wallets /\ t \in Nat \ {0} /\ row \in Rows
  BY <1>inv, <1>1, <1>2, CommitFinds, RowOK
<1>4. /\ row.status = o.status /\ row.payload = p /\ row.failure = o.failure
      /\ row.observed = o.observed
  BY <1>1, <1>3 DEF Row, Relink, Outcomes
<1>5. Observes(o)
  BY <1>2 DEF DraftsObserve
<1>6. /\ \A u \in DOMAIN txns : u \in DOMAIN txns' /\ txns'[u] = txns[u] /\ u # t
      /\ \A u \in DOMAIN txns' : u \in DOMAIN txns \/ u = t
      /\ t \in DOMAIN txns' /\ txns'[t] = row /\ t \notin DOMAIN txns
  BY <1>inv, <1>1, <1>2, <1>3, AppendProperties, LenProperties DEF TypeInv, TablesTypeOK
<1>k. p.kind # "OPENING"
  BY <1>inv, <1>2, CommitFinds DEF OperationPayloads, ProviderKinds
<1> HIDE DEF o, p, c
<1>7. /\ EventTypes(row) \in Seq({o.status, "BALANCE_CHANGED"})
      /\ DOMAIN events = DOMAIN EventTypes(row)
      /\ \A i \in DOMAIN events :
           /\ events[i].tx = t /\ events[i].type = EventTypes(row)[i]
           /\ events[i].failure = o.failure /\ events[i].balance = o.wallet.balance
  <2>1. PICK kind, w : kind = p.kind /\ w = p.wallet
    OBVIOUS
  <2>2. row.status = o.status /\ row.payload.kind = kind /\ events = Events(t, kind, w, o)
    BY <1>1, <1>4, <2>1
  <2> QED BY ONLY <2>2, EventsOfOutcome
<1>8. StagedFor(t, events, n)
  <2>1. events \in Seq(EventRecords)
    BY <1>1, <1>3, EventsOK
  <2> QED BY <1>inv, <1>1, <1>2, <1>7, <2>1, EventsStaged
<1>9. EventsOf(t) = {}
  BY <1>6 DEF EventsHaveRows, EventsOf
<1>10. n \in Nat
  BY <1>inv, <1>1, LenProperties
<1>11. Tells(t, EventTypes(row), 0)'
  <2>1. PICK types : types = EventTypes(row) /\ types \in Seq({o.status, "BALANCE_CHANGED"})
    BY <1>7
  <2>2. << >> \in Seq({o.status, "BALANCE_CHANGED"}) /\ Len(<< >>) = 0 /\ << >> \o types = types
    BY <2>1
  <2>3. Tells(t, << >>, 0)
    <3>1. [i \in DOMAIN << >> |-> 0] \in [DOMAIN << >> -> EventsOf(t)]
      OBVIOUS
    <3> QED BY <1>9, <3>1 DEF Tells
  <2>4. \A i \in DOMAIN events :
          /\ events[i].type = types[i] /\ events[i].failure = txns'[t].failure
          /\ txns'[t].observed # NoBalance => events[i].balance = txns'[t].observed
    BY <1>4, <1>5, <1>6, <1>7, <2>1 DEF Observes
  <2>5. Tells(t, << >> \o types, Len(<< >>))'
    BY <1>7, <1>8, <1>10, <2>1, <2>2, <2>3, <2>4, TellsMore
  <2> QED BY <2>1, <2>2, <2>5
<1>12. ASSUME NEW u \in DOMAIN txns
       PROVE  EventsOf(u)' = EventsOf(u) /\ \A i \in EventsOf(u) : outbox'[i] = outbox[i]
  BY <1>6, <1>8 DEF StagedFor, EventsOf
<1>13. EventsHaveRows'
  <2>1. /\ \A u \in DOMAIN txns : u \in DOMAIN txns' /\ txns'[u].payload = txns[u].payload
        /\ t \in DOMAIN txns' /\ txns'[t].payload.kind # "OPENING"
    BY <1>4, <1>6, <1>k
  <2> QED BY <1>8, <2>1, OwnedStays
<1>14. ASSUME NEW u \in DOMAIN txns' \ DOMAIN txns PROVE Tells(u, EventTypes(txns[u]), 0)'
  BY <1>6, <1>11
<1> QED BY <1>6, <1>12, <1>13, <1>14 DEF RowsAnnounced

LEMMA ServiceAnnounces ==
  ASSUME EffectsInv, DraftsObserve, EventsHaveRows, [Next]_vars
  PROVE  RowsAnnounced
<1>inv. TypeInv
  BY DEF EffectsInv, UniqueInv, LedgerInv
<1>1. CASE UNCHANGED <<txns, outbox>>
  BY <1>1 DEF RowsAnnounced, EventsOf, EventsHaveRows
<1>2. CASE UNCHANGED vars
  BY <1>1, <1>2 DEF vars, tables
<1>3. ASSUME NEW w \in Wallets, NEW player \in Players, NEW currency \in Currencies,
             NEW amount \in Openings, CreateWallet(w, player, currency, amount)
      PROVE  RowsAnnounced
  <2>1. CASE txns' = txns
    BY <1>1, <1>3, <2>1 DEF CreateWallet
  <2>2. CASE txns' = Append(txns, OpeningRow(w))
    <3>1. OpeningRow(w) \in Rows /\ OpeningRow(w).payload.kind = "OPENING"
      BY DEF OpeningRow, Row, Rows, Payloads, Statuses, NoTx, NoBalance, OpeningPayload
    <3>2. /\ \A u \in DOMAIN txns : u \in DOMAIN txns' /\ txns'[u] = txns[u]
          /\ \A u \in DOMAIN txns' \ DOMAIN txns : txns'[u] = OpeningRow(w)
      BY <1>inv, <2>2, <3>1, AppendProperties, LenProperties DEF TypeInv, TablesTypeOK
    <3>3. outbox' = outbox
      BY <1>3 DEF CreateWallet
    <3> QED BY <3>1, <3>2, <3>3 DEF RowsAnnounced, EventsOf, EventsHaveRows
  <2> QED BY <1>3, <2>1, <2>2 DEF CreateWallet
<1>4. ASSUME NEW s \in Sessions, Session(s) PROVE RowsAnnounced
  <2>1. CASE Commit(s)
    BY <2>1, CommitAnnounces
  <2>2. CASE ~Commit(s)
    <3>1. CASE StageInbox(s)
      BY <1>1, <3>1 DEF StageInbox
    <3>2. CASE ~StageInbox(s)
      <4>1. UNCHANGED tables
        BY <1>4, <2>2, <3>2 DEF Session, Progress, Execute, CheckInbox, FindByKey,
           FindByExternalId, LockWallet, InsertPending, ApplyRules, FlushInboxConflict,
           FlushReferenceConflict, RereadByKey, RereadByExternalId, Contended, Crash
      <4> QED BY <1>1, <4>1 DEF tables
    <3> QED BY <3>1, <3>2
  <2> QED BY <2>1, <2>2
<1> QED BY <1>2, <1>3, <1>4 DEF Next

EventsInv == EffectsInv /\ DraftsObserve /\ EventsHaveRows /\ OutboxTellsRows

LEMMA EventsStep ==
  ASSUME EventsInv, [Next]_vars
  PROVE  EventsInv'
<1>1. EffectsInv' /\ DraftsObserve'
  BY EffectsStep, DraftsObserveStep DEF EventsInv, EffectsInv, UniqueInv, LedgerInv
<1>2. RowsAnnounced
  BY ServiceAnnounces DEF EventsInv
<1>3. ASSUME NEW t \in DOMAIN txns', txns'[t].payload.kind # "OPENING"
      PROVE  Tells(t, EventTypes(txns[t]), 0)'
  <2>1. CASE t \in DOMAIN txns
    <3>1. /\ txns'[t] = txns[t] /\ EventsOf(t)' = EventsOf(t)
          /\ \A i \in EventsOf(t) : outbox'[i] = outbox[i]
      BY <1>2, <2>1 DEF RowsAnnounced
    <3>2. PICK types : types = EventTypes(txns[t])
      OBVIOUS
    <3>3. Tells(t, types, 0)
      BY <1>3, <2>1, <3>1, <3>2 DEF EventsInv, OutboxTellsRows
    <3>4. Tells(t, types, 0)'
      BY <3>1, <3>3, TellsStays
    <3> QED BY <3>1, <3>2, <3>4
  <2>2. CASE t \notin DOMAIN txns
    BY <1>2, <1>3, <2>2 DEF RowsAnnounced
  <2> QED BY <2>1, <2>2
<1> QED BY <1>1, <1>2, <1>3 DEF EventsInv, OutboxTellsRows, RowsAnnounced

LEMMA EventsInit ==
  ASSUME Init
  PROVE  EventsInv
BY EffectsInit DEF Init, EventsInv, DraftsObserve, EventsHaveRows, OutboxTellsRows

(* The outbox announces each client transaction as it was stored and no    *)
(* other: its result, and the balance it left if and only if money moved,  *)
(* in this order, whatever retries and crashes went before the commit.     *)
THEOREM EventsMatchRows == Spec => []OutboxTellsRows
<1>1. EventsInv => OutboxTellsRows
  BY DEF EventsInv
<1> QED BY <1>1, EventsInit, EventsStep, PTL DEF Spec
===============================================================================
