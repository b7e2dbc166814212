--------------------------- MODULE WageringRefinement ---------------------------
(***************************************************************************)
(* Wagering implements its abstract specifications, for any number of      *)
(* sessions, wallets and calls: the initial states map to initial states,  *)
(* and under the invariants of WageringProofs every step maps to a step of *)
(* the abstract specification or to a stutter.                             *)
(***************************************************************************)
EXTENDS WageringProofs

-------------------------------------------------------------------------------
(* The promise made to the readers of wallets and ledgers                  *)

(* Tables that did not change map to a stutter.                            *)
LEMMA MoneyStutters ==
  ASSUME UNCHANGED <<wallets, ledger>>
  PROVE  UNCHANGED <<BookBalance, SignedLedger>>
BY DEF BookBalance, SignedLedger, Sign

(* Appending an entry appends its signed amount.                           *)
LEMMA SignedAppend ==
  ASSUME NEW l \in Seq(Entries), NEW e \in Entries,
         NEW m, m = Append(l, e)
  PROVE  [i \in DOMAIN m |-> Sign(m[i])] = Append([i \in DOMAIN l |-> Sign(l[i])], Sign(e))
<1> DEFINE f == [i \in DOMAIN l |-> Sign(l[i])]
           g == [i \in DOMAIN m |-> Sign(m[i])]
<1>1. /\ Len(l) \in Nat /\ DOMAIN l = 1 .. Len(l)
      /\ DOMAIN m = 1 .. Len(l) + 1
      /\ \A i \in 1 .. Len(l) : m[i] = l[i]
      /\ m[Len(l) + 1] = e
  BY AppendProperties, LenProperties
<1>2. \A x \in Entries : Sign(x) \in Int
  BY DEF Entries, Sign
<1>3. \A i \in 1 .. Len(l) : l[i] \in Entries
  BY <1>1, ElementOfSeq
<1>4. f \in Seq(Int) /\ Len(f) = Len(l)
  <2>1. f \in [1 .. Len(l) -> Int]
    BY <1>1, <1>2, <1>3
  <2>2. f \in Seq(Int)
    BY <1>1, <2>1, IsASeq
  <2> QED BY <1>1, <2>1, <2>2, LenProperties
<1>5. /\ Append(f, Sign(e)) \in [1 .. Len(l) + 1 -> Int]
      /\ \A i \in 1 .. Len(l) : Append(f, Sign(e))[i] = f[i]
      /\ Append(f, Sign(e))[Len(l) + 1] = Sign(e)
  <2>1. Sign(e) \in Int
    BY <1>2
  <2> HIDE DEF f
  <2>2. /\ Append(f, Sign(e)) \in Seq(Int)
        /\ Len(Append(f, Sign(e))) = Len(l) + 1
        /\ \A i \in 1 .. Len(l) : Append(f, Sign(e))[i] = f[i]
        /\ Append(f, Sign(e))[Len(l) + 1] = Sign(e)
    BY <1>4, <2>1, AppendProperties
  <2> QED BY <2>2, LenProperties
<1>6. g \in [1 .. Len(l) + 1 -> Int]
  BY <1>1, <1>2, <1>3
<1>7. \A i \in 1 .. Len(l) + 1 : g[i] = Append(f, Sign(e))[i]
  <2>1. \A i \in 1 .. Len(l) : g[i] = f[i] BY <1>1
  <2>2. g[Len(l) + 1] = Sign(e) BY <1>1
  <2>3. \A i \in 1 .. Len(l) + 1 : i \in 1 .. Len(l) \/ i = Len(l) + 1 BY <1>1
  <2> HIDE DEF f, g
  <2> QED BY <1>5, <2>1, <2>2, <2>3
<1> HIDE DEF f, g
<1>8. g = Append(f, Sign(e))
  BY <1>5, <1>6, <1>7
<1> QED BY <1>8 DEF f, g

(* What a wallet and its ledger map to when an entry is appended.          *)
LEMMA MoneyAppend ==
  ASSUME TypeInv, NEW w \in Wallets, NEW wal \in WalletRecords, NEW e \in Entries,
         wallets' = [wallets EXCEPT ![w] = wal],
         ledger' = [ledger EXCEPT ![w] = Append(@, e)]
  PROVE  /\ BookBalance' = [BookBalance EXCEPT ![w] = wal.balance]
         /\ SignedLedger' = [SignedLedger EXCEPT ![w] = Append(@, Sign(e))]
<1>1. wal # Null /\ wallets \in [Wallets -> WalletRecords \cup {Null}]
      /\ ledger \in [Wallets -> Seq(Entries)]
  BY NamesAssumption DEF TypeInv,  TablesTypeOK
<1>2. BookBalance' = [BookBalance EXCEPT ![w] = wal.balance]
  BY <1>1 DEF BookBalance
<1>3. ledger'[w] = Append(ledger[w], e) /\ \A v \in Wallets \ {w} : ledger'[v] = ledger[v]
  BY <1>1
<1>4. SignedLedger'[w] = Append(SignedLedger[w], Sign(e))
  <2>1. [i \in DOMAIN ledger'[w] |-> Sign(ledger'[w][i])]
          = Append([i \in DOMAIN ledger[w] |-> Sign(ledger[w][i])], Sign(e))
    BY <1>1, <1>3, SignedAppend
  <2> QED BY <2>1 DEF SignedLedger, Sign
<1>5. \A v \in Wallets \ {w} : SignedLedger'[v] = SignedLedger[v]
  BY <1>3 DEF SignedLedger, Sign
<1>6. SignedLedger' = [SignedLedger EXCEPT ![w] = Append(@, Sign(e))]
  <2>1. SignedLedger' = [v \in Wallets |-> SignedLedger'[v]]
        /\ SignedLedger = [v \in Wallets |-> SignedLedger[v]]
    BY DEF SignedLedger, Sign
  <2> QED BY <1>4, <1>5, <2>1
<1> QED BY <1>2, <1>6

(* An outcome written posts the one entry it writes, or shows nothing.     *)
LEMMA WritesPost ==
  ASSUME TypeInv, NEW w, NEW t, NEW amount, NEW copied, NEW o,
         Writes(w, t, amount, copied, o), {amount, -amount} \subseteq Changes
  PROVE  \/ UNCHANGED <<BookBalance, SignedLedger>>
         \/ \E v \in Wallets : \E change \in Changes : Money!Post(v, change)
<1> DEFINE e == Entry(t, o.move, amount, copied.balance, o.wallet.balance)
<1>1. /\ w \in Wallets /\ amount \in Nat \ {0} /\ o \in Outcomes
      /\ copied \in WalletRecords /\ t \in Nat \ {0}
      /\ copied = wallets[w] /\ Fits(o, copied, amount)
      /\ wallets' = [wallets EXCEPT ![w] = o.wallet]
      /\ WriteLedger(w, t, amount, copied.balance, o)
  BY DEF Writes
<1>2. o.wallet \in WalletRecords /\ o.wallet.balance \in Nat /\ copied.balance \in Nat
      /\ wallets[w] # Null /\ wallets \in [Wallets -> WalletRecords \cup {Null}]
  BY <1>1, NamesAssumption DEF Outcomes, WalletRecords, TypeInv, TablesTypeOK
<1>3. CASE o.move = NoMove
  <2>1. o.wallet = copied
    BY <1>1, <1>3 DEF Fits, NoMove, Directions
  <2>2. wallets' = wallets /\ ledger' = ledger
    BY <1>1, <1>2, <1>3, <2>1 DEF WriteLedger
  <2> QED BY <2>2, MoneyStutters
<1>4. CASE o.move # NoMove
  <2>1. e \in Entries
    BY <1>1, <1>2, <1>4 DEF Entry, Entries, Outcomes
  <2>2. ledger' = [ledger EXCEPT ![w] = Append(@, e)]
    BY <1>1, <1>4 DEF WriteLedger
  <2>3. /\ Sign(e) = o.wallet.balance - copied.balance
        /\ Sign(e) \in {amount, -amount}
    BY <1>1, <1>2, <1>4 DEF Fits, Entry, Sign, Directions
  <2>4. BookBalance[w] = copied.balance /\ BookBalance[w] # Null
    BY <1>1, <1>2, NamesAssumption DEF BookBalance
  <2> HIDE DEF e
  <2>5. /\ BookBalance' = [BookBalance EXCEPT ![w] = o.wallet.balance]
        /\ SignedLedger' = [SignedLedger EXCEPT ![w] = Append(@, Sign(e))]
    BY <1>1, <1>2, <2>1, <2>2, MoneyAppend
  <2>6. BookBalance[w] + Sign(e) = o.wallet.balance
    BY <1>2, <2>3, <2>4
  <2>7. BookBalance[w] + Sign(e) >= 0
    BY <1>2, <2>6
  <2>8. Money!Post(w, Sign(e))
    BY <2>4, <2>5, <2>6, <2>7 DEF Money!Post
  <2> QED BY <1>1, <2>3, <2>8
<1> QED BY <1>3, <1>4

(* A new wallet opens its account with its first entry.                    *)
LEMMA CreateWalletOpens ==
  ASSUME LedgerInv, NEW w \in Wallets, NEW player \in Players,
         NEW currency \in Currencies, NEW amount \in Openings,
         CreateWallet(w, player, currency, amount)
  PROVE  Money!Open(w, amount)
<1> DEFINE wal == [player |-> player, currency |-> currency, balance |-> amount, version |-> 1]
           e   == Entry(Len(txns) + 1, "CREDIT", amount, 0, amount)
<1>1. amount \in Nat /\ Len(txns) \in Nat
  BY CallsAssumption, LenProperties DEF LedgerInv, TypeInv,  TablesTypeOK
<1>2. wallets[w] = Null /\ wallets' = [wallets EXCEPT ![w] = wal]
      /\ wallets \in [Wallets -> WalletRecords \cup {Null}]
  BY DEF CreateWallet, LedgerInv, TypeInv,  TablesTypeOK
<1>3. BookBalance[w] = Null
  BY <1>2 DEF BookBalance
<1>4. wal \in WalletRecords /\ wal.balance = amount /\ wal # Null
  BY <1>1, NamesAssumption DEF WalletRecords
<1>5. CASE amount = 0 /\ UNCHANGED ledger
  <2>1. BookBalance' = [BookBalance EXCEPT ![w] = amount]
    BY <1>2, <1>4 DEF BookBalance
  <2>2. SignedLedger' = SignedLedger
    BY <1>5 DEF SignedLedger, Sign
  <2> QED BY <1>3, <1>5, <2>1, <2>2 DEF Money!Open
<1>6. CASE amount # 0 /\ ledger' = [ledger EXCEPT ![w] = Append(@, e)]
  <2>1. e \in Entries /\ Sign(e) = amount
    BY <1>1, <1>6 DEF Entry, Entries, Directions, Sign
  <2> HIDE DEF e, wal
  <2>2. /\ BookBalance' = [BookBalance EXCEPT ![w] = amount]
        /\ SignedLedger' = [SignedLedger EXCEPT ![w] = Append(@, amount)]
    BY <1>2, <1>4, <1>6, <2>1, MoneyAppend DEF LedgerInv
  <2> QED BY <1>3, <1>6, <2>2 DEF Money!Open
<1> QED BY <1>5, <1>6 DEF CreateWallet

(* Every step of the service is one step of the book, or shows nothing.    *)
LEMMA LedgerBookStep ==
  ASSUME LedgerInv, [Next]_vars
  PROVE  [Money!BookNext]_(Money!bookVars)
<1>1. CASE UNCHANGED vars
  BY <1>1, MoneyStutters DEF vars, tables, Money!bookVars
<1>2. ASSUME NEW w \in Wallets, NEW player \in Players, NEW currency \in Currencies,
             NEW amount \in Openings, CreateWallet(w, player, currency, amount)
      PROVE  Money!BookNext
  BY <1>2, CreateWalletOpens DEF Money!BookNext
<1>3. ASSUME NEW s \in Sessions, Session(s), ~Commit(s)
      PROVE  UNCHANGED Money!bookVars
  BY <1>3, SessionKeepsLocks, MoneyStutters DEF LedgerInv, Money!bookVars
<1>4. ASSUME NEW s \in Sessions, Commit(s)
      PROVE  [Money!BookNext]_(Money!bookVars)
  <2>1. call[s] \in Calls
    BY <1>4, CommitFinds DEF Commit, LedgerInv
  <2>2. {call[s].payload.amount, -call[s].payload.amount} \subseteq Changes
    BY <2>1 DEF Changes, CallPayloads
  <2> QED BY <1>4, <2>2, CommitWrites, WritesPost DEF LedgerInv, Money!BookNext, Money!bookVars
<1> QED BY <1>1, <1>2, <1>3, <1>4 DEF Next

LEMMA LedgerBookInit ==
  ASSUME Init
  PROVE  Money!BookInit
BY DEF Init, Money!BookInit, BookBalance, SignedLedger

(* The tables keep the promise the readers of ledgers rely on: balance and *)
(* ledger change together, by one entry at a time, and never below zero,   *)
(* whatever sessions, retries, conflicts and crashes do.                   *)
THEOREM ServiceKeepsLedgerBook == Spec => ImplementsLedgerBook
BY LedgerBookInit, LedgerBookStep, LedgerInvHolds, PTL
   DEF Spec, ImplementsLedgerBook, Money!BookSpec

-------------------------------------------------------------------------------
(* The promise made to the clients                                         *)

(* What the rules may decide about p: they settle it with the effect of    *)
(* its kind, or leave the wallet alone.                                    *)
Settles(o, wal, p) ==
  \/ /\ o.status = "PROCESSED"
     /\ \E change \in Book!Effects(p) : o.wallet.balance = wal.balance + change
  \/ o.status \in {"REJECTED", "PENDING_REFERENCE"} /\ o.wallet = wal

(* A session that is about to commit has settled its call.                 *)
SettledInv ==
  \A s \in Sessions :
    pc[s] = "flush" => Settles(draft[s], copy[s], call[s].payload)

(* A movement goes in the direction of its kind, by its amount.            *)
LEMMA MovementSettles ==
  ASSUME NEW wal \in WalletRecords, NEW p \in OperationPayloads, p.kind # "LOSS",
         NEW ref, NEW refKind
  PROVE  Settles(ExecuteWalletMovement(wal, p, ref, refKind), wal, p)
<1> DEFINE direction == IF IsDebit(p.kind, refKind) THEN "DEBIT" ELSE "CREDIT"
           after     == ApplyMovement(wal, direction, p.amount)
           change    == IF direction = "CREDIT" THEN p.amount ELSE -p.amount
<1>1. p.amount \in Nat /\ wal.balance \in Nat /\ p.kind \in ProviderKinds
  BY DEF OperationPayloads, WalletRecords
<1>2. CASE direction = "DEBIT" /\ wal.balance < p.amount
  BY <1>2 DEF ExecuteWalletMovement, Rejected, Settles
<1>3. CASE ~(direction = "DEBIT" /\ wal.balance < p.amount)
  <2>1. after.balance = wal.balance + change
    BY <1>1, MovedWallet DEF ApplyMovement
  <2>2. change \in Book!Effects(p)
    BY <1>1 DEF IsDebit, ProviderKinds, Book!Effects
  <2>3. ExecuteWalletMovement(wal, p, ref, refKind) = Processed(after, ref, direction)
    BY <1>3 DEF ExecuteWalletMovement
  <2> HIDE DEF after, change
  <2> QED BY <2>1, <2>2, <2>3 DEF Processed, Settles
<1> QED BY <1>2, <1>3

(* Whatever the rows, the rules settle the call or leave the wallet alone. *)
LEMMA ApplySettles ==
  ASSUME NEW wal \in WalletRecords, NEW rows, NEW own, NEW p \in OperationPayloads,
         NEW o \in Apply(wal, rows, own, p)
  PROVE  Settles(o, wal, p)
<1>1. CASE o = Parked(wal)
  BY <1>1 DEF Parked, Settles
<1>2. CASE o = Processed(wal, NoTx, NoMove) /\ p.kind = "LOSS"
  <2>1. wal.balance = wal.balance + 0 BY DEF WalletRecords
  <2> QED BY <1>2, <2>1 DEF Processed, Settles, Book!Effects
<1>3. CASE o = ExecuteWalletMovement(wal, p, NoTx, "NONE") /\ p.kind # "LOSS"
  BY <1>3, MovementSettles
<1>4. CASE p.kind # "LOSS" /\ \E i \in References(rows, p) : o = WithReference(wal, rows, own, p, i)
  <2>1. PICK i \in References(rows, p) : o = WithReference(wal, rows, own, p, i)
    BY <1>4
  <2>2. CASE o = Rejected(wal, i, ReferenceFailure(rows, own, p, i))
    BY <2>2 DEF Rejected, Settles
  <2> QED BY <1>4, <2>1, <2>2, MovementSettles DEF WithReference
<1> QED BY <1>1, <1>2, <1>3, <1>4 DEF Apply

LEMMA RulesSettle ==
  ASSUME NEW wal \in WalletRecords, NEW rows, NEW own, NEW p \in OperationPayloads,
         NEW o \in ProcessWagerMovement(wal, rows, own, p)
  PROVE  Settles(o, wal, p)
<1>1. ASSUME NEW ref, NEW code, o = Rejected(wal, ref, code) PROVE Settles(o, wal, p)
  BY <1>1 DEF Rejected, Settles
<1> QED BY <1>1, ApplySettles DEF ProcessWagerMovement

LEMMA SettledStep ==
  ASSUME TypeInv, SettledInv, [Next]_vars
  PROVE  SettledInv'
<1>1. CASE UNCHANGED vars
  BY <1>1 DEF SettledInv, Settles, vars, locals
<1>2. ASSUME NEW w \in Wallets, NEW player \in Players, NEW currency \in Currencies,
             NEW amount \in Openings, CreateWallet(w, player, currency, amount)
      PROVE  SettledInv'
  BY <1>2 DEF SettledInv, Settles, CreateWallet, locals
<1>3. ASSUME NEW s \in Sessions, Session(s), NEW x \in Sessions, pc'[x] = "flush"
      PROVE  Settles(draft'[x], copy'[x], call'[x].payload)
  <2>1. CASE x = s /\ ApplyRules(s)
    <3>1. copy[s] \in WalletRecords /\ call[s].payload \in OperationPayloads
      BY <2>1, CallsAssumption DEF ApplyRules, TypeInv,  SessionsTypeOK, SessionOK,
                                   LockedSteps
    <3>2. PICK o \in ProcessWagerMovement(copy[s], Visible(s), Len(txns) + 1, call[s].payload) :
            draft' = [draft EXCEPT ![s] = Relink(o, Len(txns) + 1, Own)]
      BY <2>1 DEF ApplyRules
    <3>3. Settles(o, copy[s], call[s].payload) /\ Decision(o, copy[s], call[s].payload)
      BY <3>1, RulesSettle, VisibleOK, DecisionOK
    <3>4. Settles(Relink(o, Len(txns) + 1, Own), copy[s], call[s].payload)
      BY <3>3 DEF Settles, Relink, Decision, Outcomes
    <3>5. draft'[s] = Relink(o, Len(txns) + 1, Own)
      BY <3>2 DEF TypeInv,  SessionsTypeOK
    <3> QED BY <2>1, <3>4, <3>5 DEF ApplyRules
  <2>2. CASE /\ pc[x] = "flush"
             /\ draft'[x] = draft[x] /\ copy'[x] = copy[x] /\ call'[x] = call[x]
    BY <2>2 DEF SettledInv
  <2> QED BY <1>3, <2>1, <2>2, OnlyRulesDecide
<1>4. ASSUME NEW s \in Sessions, Session(s) PROVE SettledInv'
  BY <1>3, <1>4 DEF SettledInv, Settles
<1> QED BY <1>1, <1>2, <1>4 DEF Next

BookInv == UniqueInv /\ SettledInv

LEMMA BookInvHolds == Spec => []BookInv
<1>1. Init => SettledInv
  BY DEF Init, SettledInv
<1>2. UniqueInv /\ SettledInv /\ [Next]_vars => SettledInv'
  BY SettledStep DEF UniqueInv, LedgerInv
<1> QED BY <1>1, <1>2, UniqueInvHolds, PTL DEF Spec, BookInv

(* The rows of an operation.                                               *)
RowsOf(op) ==
  {i \in DOMAIN txns : txns[i].payload.provider = op[1] /\ txns[i].payload.ext = op[2]}

ResultOf(op) ==
  IF RowsOf(op) = {} THEN Null
  ELSE LET i == CHOOSE i \in RowsOf(op) : TRUE IN
       [payload |-> txns[i].payload, status |-> txns[i].status]

LEMMA ResultOfRows ==
  ASSUME NEW op \in Operations
  PROVE  BookResult[op] = ResultOf(op) /\ BookResult'[op] = ResultOf(op)'
BY DEF BookResult, ResultOf, RowsOf

(* A new row gives its operation a result and leaves the others theirs.    *)
LEMMA ResultAppend ==
  ASSUME TypeInv, NEW row \in Rows, txns' = Append(txns, row)
  PROVE  /\ \A op \in Operations :
              op # <<row.payload.provider, row.payload.ext>> => BookResult'[op] = BookResult[op]
         /\ \A op \in Operations :
              op = <<row.payload.provider, row.payload.ext>> /\ RowsOf(op) = {} =>
                /\ BookResult[op] = Null
                /\ BookResult'[op] = [payload |-> row.payload, status |-> row.status]
<1>1. /\ DOMAIN txns = 1 .. Len(txns) /\ Len(txns) \in Nat
      /\ DOMAIN txns' = 1 .. Len(txns) + 1
      /\ \A i \in 1 .. Len(txns) : txns'[i] = txns[i]
      /\ txns'[Len(txns) + 1] = row
  <2>1. txns \in Seq(Rows) BY DEF TypeInv,  TablesTypeOK
  <2>2. /\ Append(txns, row) \in Seq(Rows) /\ Len(Append(txns, row)) = Len(txns) + 1
        /\ \A i \in 1 .. Len(txns) : Append(txns, row)[i] = txns[i]
        /\ Append(txns, row)[Len(txns) + 1] = row
    BY <2>1, AppendProperties
  <2> QED BY <2>1, <2>2, LenProperties
<1>2. ASSUME NEW op \in Operations
      PROVE  RowsOf(op)' = IF op = <<row.payload.provider, row.payload.ext>>
                           THEN RowsOf(op) \cup {Len(txns) + 1} ELSE RowsOf(op)
  <2>1. op = <<op[1], op[2]>> BY DEF Operations
  <2>2. op = <<row.payload.provider, row.payload.ext>>
          <=> row.payload.provider = op[1] /\ row.payload.ext = op[2]
    BY <2>1
  <2>3. \A i : i \in DOMAIN txns' <=> i \in DOMAIN txns \/ i = Len(txns) + 1
    BY <1>1
  <2> QED BY <1>1, <2>2, <2>3 DEF RowsOf
<1>3. ASSUME NEW op \in Operations, op # <<row.payload.provider, row.payload.ext>>
      PROVE  BookResult'[op] = BookResult[op]
  <2>1. RowsOf(op)' = RowsOf(op) BY <1>2, <1>3
  <2>2. CASE RowsOf(op) = {}
    BY <2>1, <2>2, ResultOfRows DEF ResultOf
  <2>3. CASE RowsOf(op) # {}
    <3> DEFINE i == CHOOSE i \in RowsOf(op) : TRUE
    <3>1. i \in RowsOf(op) BY <2>3
    <3>2. txns'[i] = txns[i] BY <1>1, <3>1 DEF RowsOf
    <3>3. ResultOf(op) = [payload |-> txns[i].payload, status |-> txns[i].status]
      BY <2>3 DEF ResultOf
    <3>4. (CHOOSE j \in RowsOf(op)' : TRUE) = i BY <2>1
    <3>5. ResultOf(op)' = [payload |-> txns'[i].payload, status |-> txns'[i].status]
      BY <2>1, <2>3, <3>4 DEF ResultOf
    <3> QED BY <3>2, <3>3, <3>5, ResultOfRows
  <2> QED BY <2>2, <2>3
<1>4. ASSUME NEW op \in Operations, op = <<row.payload.provider, row.payload.ext>>,
             RowsOf(op) = {}
      PROVE  /\ BookResult[op] = Null
             /\ BookResult'[op] = [payload |-> row.payload, status |-> row.status]
  <2>1. RowsOf(op)' = {Len(txns) + 1} BY <1>2, <1>4
  <2>2. (CHOOSE i \in RowsOf(op)' : TRUE) = Len(txns) + 1 BY <2>1
  <2>3. ResultOf(op)' = [payload |-> row.payload, status |-> row.status]
    BY <1>1, <2>1, <2>2 DEF ResultOf
  <2> QED BY <1>4, <2>3, ResultOfRows DEF ResultOf
<1> QED BY <1>3, <1>4

(* An outcome that settles p, stored with the result of its operation, is  *)
(* a step of the book.                                                     *)
LEMMA SettlesBook ==
  ASSUME TypeInv, NEW p \in CallPayloads, p.wallet \in Wallets, NEW o \in Outcomes, NEW op,
         op = <<p.provider, p.ext>>, wallets[p.wallet] \in WalletRecords,
         Settles(o, wallets[p.wallet], p),
         wallets' = [wallets EXCEPT ![p.wallet] = o.wallet],
         \/ BookResult[op] = Null
         \/ /\ BookResult[op] = [payload |-> p, status |-> "PENDING_REFERENCE"]
            /\ o.status # "PENDING_REFERENCE",
         BookResult' = [BookResult EXCEPT ![op] = [payload |-> p, status |-> o.status]]
  PROVE  Book!BookNext
<1> DEFINE copied == wallets[p.wallet]
<1>1. /\ o.wallet \in WalletRecords /\ o.wallet # Null /\ copied # Null
      /\ wallets \in [Wallets -> WalletRecords \cup {Null}]
  BY NamesAssumption DEF Outcomes, TypeInv, TablesTypeOK
<1>2. BookBalance' = [BookBalance EXCEPT ![p.wallet] = o.wallet.balance]
  BY <1>1 DEF BookBalance
<1>3. BookBalance[p.wallet] = copied.balance /\ BookBalance[p.wallet] # Null
      /\ copied.balance \in Nat /\ o.wallet.balance \in Nat
  BY <1>1, NamesAssumption DEF BookBalance, WalletRecords
<1>4. ASSUME NEW change \in Book!Effects(p), o.status = "PROCESSED",
             o.wallet.balance = copied.balance + change
      PROVE  Book!Process(op, p, change)
  <2> HIDE DEF copied
  <2>1. BookBalance[p.wallet] + change = o.wallet.balance
    BY <1>3, <1>4
  <2>2. BookBalance[p.wallet] + change >= 0
    BY <1>3, <2>1
  <2> QED BY <1>2, <1>3, <1>4, <2>1, <2>2 DEF Book!Process
<1>5. ASSUME o.wallet = copied PROVE BookBalance' = BookBalance
  <2>1. BookBalance = [w \in Wallets |-> BookBalance[w]] BY DEF BookBalance
  <2> QED BY <1>2, <1>3, <1>5, <2>1
<1>6. ASSUME o.status = "REJECTED", o.wallet = copied PROVE Book!Reject(op, p)
  BY <1>5, <1>6 DEF Book!Reject
<1>7. ASSUME o.status = "PENDING_REFERENCE", o.wallet = copied PROVE Book!Park(op, p)
  BY <1>5, <1>7 DEF Book!Park
<1> QED BY <1>4, <1>6, <1>7 DEF Settles, Book!BookNext

(* A commit settles, rejects or parks its call.                            *)
LEMMA CommitSettles ==
  ASSUME BookInv, NEW s \in Sessions, Commit(s)
  PROVE  Book!BookNext
<1> DEFINE c == call[s]
           p == c.payload
           o == draft[s]
           t == Len(txns) + 1
           row == Row(c.key, p, Relink(o, Own, t))
           op == <<p.provider, p.ext>>
<1>inv. TypeInv /\ LedgerInv /\ WritersInv /\ SettledInv
  BY DEF BookInv, UniqueInv, LedgerInv
<1>1. /\ c \in Calls /\ p \in OperationPayloads /\ p.wallet \in Wallets
      /\ c.key \in Keys /\ o \in Outcomes /\ t \in Nat \ {0} /\ copy[s] \in WalletRecords
  BY <1>inv, CommitFinds DEF Commit
<1>2. copy[s] = wallets[p.wallet] /\ Settles(o, copy[s], p)
  BY <1>inv DEF Commit, LedgerInv, LocksInv, HoldsWallet, LockedSteps, SettledInv
<1>3. wallets' = [wallets EXCEPT ![p.wallet] = o.wallet]
  BY DEF Commit
<1>4. row \in Rows /\ txns' = Append(txns, row)
  BY <1>1, RowOK DEF Commit
<1>5. row.payload = p /\ row.status = o.status
  BY DEF Row, Relink
<1>6. op \in Operations /\ p \in CallPayloads
  BY <1>1 DEF Operations, OperationPayloads, CallPayloads
<1>7. RowsOf(op) = {}
  <2>1. RowsWithExt(p) = {}
    BY <1>inv DEF WritersInv, WritingSteps, Commit, Duplicate
  <2> QED BY <2>1 DEF RowsOf, RowsWithExt
<1>8. /\ BookResult[op] = Null
      /\ BookResult' = [BookResult EXCEPT ![op] = [payload |-> p, status |-> o.status]]
  <2> HIDE DEF row
  <2>1. /\ BookResult[op] = Null
        /\ BookResult'[op] = [payload |-> p, status |-> o.status]
        /\ \A q \in Operations : q # op => BookResult'[q] = BookResult[q]
    BY <1>inv, <1>4, <1>5, <1>6, <1>7, ResultAppend
  <2>2. BookResult = [q \in Operations |-> BookResult[q]]
        /\ BookResult' = [q \in Operations |-> BookResult'[q]]
    BY DEF BookResult
  <2> QED BY <1>6, <2>1, <2>2
<1> HIDE DEF p, o, op
<1> QED BY <1>inv, <1>1, <1>2, <1>3, <1>6, <1>8, SettlesBook DEF op

(* A new wallet opens its account; its opening row is no client's result.  *)
LEMMA CreateWalletOpensBook ==
  ASSUME TypeInv, NEW w \in Wallets, NEW player \in Players,
         NEW currency \in Currencies, NEW amount \in Openings,
         CreateWallet(w, player, currency, amount)
  PROVE  Book!Open(w, amount)
<1> DEFINE wal == [player |-> player, currency |-> currency, balance |-> amount, version |-> 1]
<1>1. amount \in Nat
  BY CallsAssumption
<1>2. wallets[w] = Null /\ wallets' = [wallets EXCEPT ![w] = wal]
      /\ wallets \in [Wallets -> WalletRecords \cup {Null}]
  BY DEF CreateWallet, TypeInv,  TablesTypeOK
<1>3. wal \in WalletRecords /\ wal.balance = amount /\ wal # Null
  BY <1>1, NamesAssumption DEF WalletRecords
<1>4. BookBalance[w] = Null /\ BookBalance' = [BookBalance EXCEPT ![w] = amount]
  BY <1>2, <1>3 DEF BookBalance
<1>5. BookResult' = BookResult
  <2>1. CASE UNCHANGED txns
    BY <2>1 DEF BookResult
  <2>2. CASE txns' = Append(txns, OpeningRow(w))
    <3>1. OpeningRow(w) \in Rows
      BY DEF OpeningRow, Row, Rows, Payloads, Statuses, NoTx, NoBalance
    <3>2. OpeningRow(w).payload.provider = Internal
      BY DEF OpeningRow, OpeningPayload, Row
    <3>3. \A op \in Operations : op # <<OpeningRow(w).payload.provider, OpeningRow(w).payload.ext>>
      BY <3>2, NamesAssumption DEF Operations
    <3>4. \A op \in Operations : BookResult'[op] = BookResult[op]
      BY <2>2, <3>1, <3>3, ResultAppend
    <3>5. BookResult = [q \in Operations |-> BookResult[q]]
          /\ BookResult' = [q \in Operations |-> BookResult'[q]]
      BY DEF BookResult
    <3> QED BY <3>4, <3>5
  <2> QED BY <2>1, <2>2 DEF CreateWallet
<1> QED BY <1>4, <1>5 DEF Book!Open

(* Every step of the service is one step of the book, or shows nothing.    *)
LEMMA WalletBookStep ==
  ASSUME BookInv, [Next]_vars
  PROVE  [Book!BookNext]_(Book!bookVars)
<1>inv. TypeInv /\ LedgerInv
  BY DEF BookInv, UniqueInv, LedgerInv
<1>1. ASSUME UNCHANGED <<wallets, txns>> PROVE UNCHANGED Book!bookVars
  BY <1>1 DEF Book!bookVars, BookBalance, BookResult
<1>2. CASE UNCHANGED vars
  BY <1>1, <1>2 DEF vars, tables
<1>3. ASSUME NEW w \in Wallets, NEW player \in Players, NEW currency \in Currencies,
             NEW amount \in Openings, CreateWallet(w, player, currency, amount)
      PROVE  Book!BookNext
  BY <1>inv, <1>3, CreateWalletOpensBook DEF Book!BookNext
<1>4. ASSUME NEW s \in Sessions, Session(s), ~Commit(s)
      PROVE  UNCHANGED Book!bookVars
  BY <1>inv, <1>1, <1>4, SessionKeepsLocks, WritersEnter DEF LedgerInv
<1>5. ASSUME NEW s \in Sessions, Commit(s) PROVE Book!BookNext
  BY <1>5, CommitSettles
<1> QED BY <1>2, <1>3, <1>4, <1>5 DEF Next

LEMMA WalletBookInit ==
  ASSUME Init
  PROVE  Book!BookInit
BY DEF Init, Book!BookInit, BookBalance, BookResult

(* The service keeps the promise made to its clients: an operation is      *)
(* settled once, with the effect of its kind on its wallet in the same     *)
(* step, whatever sessions, retries, conflicts and crashes do.             *)
THEOREM ServiceKeepsWalletBook == Spec => ImplementsWalletBook
BY WalletBookInit, WalletBookStep, BookInvHolds, PTL DEF Spec, ImplementsWalletBook, Book!BookSpec
===============================================================================
