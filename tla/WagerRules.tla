------------------------------ MODULE WagerRules ------------------------------
(***************************************************************************)
(* The business rules of wagering.service.ts as pure operators: which      *)
(* committed transaction a reference names, whether the reference may be   *)
(* used, in which direction the money moves, and the outcome of applying   *)
(* one operation to one wallet.  `rows` is the wager_transactions table as *)
(* the deciding statement sees it (a sequence; a row's id is its index),   *)
(* `own` the id of the transaction being decided, `p` its payload.         *)
(* Amounts are minor units (cents) of one currency.                        *)
(***************************************************************************)
EXTENDS Integers, Sequences

CONSTANT Null   \* an absent value: no reference, no row, no owner, no message

NoTx      == 0           \* referenceTransactionId IS NULL
NoBalance == -1          \* observedBalance not set yet
NoMove    == "NONE"      \* the outcome writes no ledger entry

ProviderKinds == {"BET", "WIN", "LOSS", "REFUND", "ROLLBACK"}
Kinds         == ProviderKinds \cup {"OPENING"}
Directions    == {"DEBIT", "CREDIT"}
ActiveStatus  == {"PENDING", "PENDING_REFERENCE", "PROCESSED"}

(* Failure codes a business rule stores on a rejected transaction.         *)
RejectionCodes ==
  {"INSUFFICIENT_FUNDS", "REVERSAL_WOULD_NEGATIVE", "CURRENCY_MISMATCH",
   "REFERENCE_NOT_PROCESSED", "REFERENCE_SCOPE_MISMATCH",
   "REFERENCE_AMOUNT_MISMATCH", "INVALID_REFERENCE_KIND",
   "REFERENCE_ALREADY_REVERSED", "REFERENCE_NOT_FOUND"}

-------------------------------------------------------------------------------
(* Direction and reference rules                                           *)

ShouldResolveReference(p) ==
  p.kind \in {"REFUND", "ROLLBACK"} \/ (p.kind = "WIN" /\ p.refExt # Null)

(* Mutant: a ROLLBACK always credits.                                      *)
IsDebitForBetOnly(kind, refKind) == kind = "BET"

IsDebit(kind, refKind) ==
  kind = "BET" \/ (kind = "ROLLBACK" /\ refKind # "BET")

Named(rows, ext) == {i \in DOMAIN rows : rows[i].payload.ext = ext}

(* The rows findOne may return: the provider's own, else any provider's.   *)
References(rows, p) ==
  LET named == Named(rows, p.refExt)
      same  == {i \in named : rows[i].payload.provider = p.provider}
  IN  IF p.refExt = Null THEN {} ELSE IF same # {} THEN same ELSE named

SameScope(ref, p) ==
  /\ ref.provider = p.provider
  /\ ref.player   = p.player
  /\ ref.wallet   = p.wallet
  /\ ref.currency = p.currency
  /\ ref.round    = p.round

ReversibleKinds(kind) ==
  IF kind \in {"REFUND", "WIN"} THEN {"BET"} ELSE {"BET", "WIN", "REFUND"}

AlreadyReversed(rows, own, kind, i) ==
  /\ kind \in {"REFUND", "ROLLBACK"}
  /\ \E j \in DOMAIN rows : /\ j # own
                            /\ rows[j].ref = i
                            /\ rows[j].payload.kind = kind
                            /\ rows[j].status \in ActiveStatus

(* The first rule the reference i breaks, in the order the code asks.      *)
ReferenceFailure(rows, own, p, i) ==
  LET ref == rows[i] IN
  IF ref.status # "PROCESSED" THEN "REFERENCE_NOT_PROCESSED"
  ELSE IF ~SameScope(ref.payload, p) THEN "REFERENCE_SCOPE_MISMATCH"
  ELSE IF p.kind # "WIN" /\ ref.payload.amount # p.amount
       THEN "REFERENCE_AMOUNT_MISMATCH"
  ELSE IF ref.payload.kind \notin ReversibleKinds(p.kind)
       THEN "INVALID_REFERENCE_KIND"
  ELSE IF AlreadyReversed(rows, own, p.kind, i)
       THEN "REFERENCE_ALREADY_REVERSED"
  ELSE "NONE"

-------------------------------------------------------------------------------
(* Outcomes: the row's new columns, the wallet after it, and the direction *)
(* of the ledger entry (NoMove: none).                                     *)

Rejected(wal, ref, code) ==
  [status |-> "REJECTED", failure |-> code, ref |-> ref,
   observed |-> wal.balance, wallet |-> wal, move |-> NoMove]

Parked(wal) ==
  [status |-> "PENDING_REFERENCE", failure |-> "NONE", ref |-> NoTx,
   observed |-> NoBalance, wallet |-> wal, move |-> NoMove]

(* Wallet.applyMovement: the balance moves and the version is bumped.      *)
ApplyMovement(wal, direction, amount) ==
  [wal EXCEPT !.balance = IF direction = "CREDIT" THEN @ + amount
                                                  ELSE @ - amount,
              !.version = @ + 1]

Processed(wal, ref, move) ==
  [status |-> "PROCESSED", failure |-> "NONE", ref |-> ref,
   observed |-> wal.balance, wallet |-> wal, move |-> move]

InsufficientFundsCode(kind) ==
  IF kind = "BET" THEN "INSUFFICIENT_FUNDS" ELSE "REVERSAL_WOULD_NEGATIVE"

(* Mutant: no balance check before a debit.                                *)
MovementWithoutFundsCheck(wal, p, ref, refKind) ==
  LET direction == IF IsDebit(p.kind, refKind) THEN "DEBIT" ELSE "CREDIT"
  IN  Processed(ApplyMovement(wal, direction, p.amount), ref, direction)

(* Mutant: a debit of the whole balance is refused.                        *)
MovementRefusesExactBalance(wal, p, ref, refKind) ==
  LET direction == IF IsDebit(p.kind, refKind) THEN "DEBIT" ELSE "CREDIT"
  IN  IF direction = "DEBIT" /\ wal.balance <= p.amount
      THEN Rejected(wal, ref, InsufficientFundsCode(p.kind))
      ELSE Processed(ApplyMovement(wal, direction, p.amount), ref, direction)

ExecuteWalletMovement(wal, p, ref, refKind) ==
  LET direction == IF IsDebit(p.kind, refKind) THEN "DEBIT" ELSE "CREDIT"
  IN  IF direction = "DEBIT" /\ wal.balance < p.amount
      THEN Rejected(wal, ref, InsufficientFundsCode(p.kind))
      ELSE Processed(ApplyMovement(wal, direction, p.amount), ref, direction)

(* Mutant: the reference is used but its id is not recorded.               *)
WithReferenceUnlinked(wal, rows, own, p, i) ==
  LET failure == ReferenceFailure(rows, own, p, i)
  IN  IF failure # "NONE" THEN Rejected(wal, i, failure)
      ELSE ExecuteWalletMovement(wal, p, NoTx, rows[i].payload.kind)

WithReference(wal, rows, own, p, i) ==
  LET failure == ReferenceFailure(rows, own, p, i)
  IN  IF failure # "NONE" THEN Rejected(wal, i, failure)
      ELSE ExecuteWalletMovement(wal, p, i, rows[i].payload.kind)

(* WageringService.apply: a set, because the fallback lookup by external   *)
(* id alone may return any of several providers' rows.                     *)
Apply(wal, rows, own, p) ==
  IF p.kind = "LOSS" THEN {Processed(wal, NoTx, NoMove)}
  ELSE IF ~ShouldResolveReference(p)
       THEN {ExecuteWalletMovement(wal, p, NoTx, "NONE")}
  ELSE IF References(rows, p) = {} THEN {Parked(wal)}
  ELSE {WithReference(wal, rows, own, p, i) : i \in References(rows, p)}

(* processWagerMovement: the wallet must be the caller's and in the        *)
(* payload's currency before the operation is applied.                     *)
ProcessWagerMovement(wal, rows, own, p) ==
  IF wal.player # p.player
  THEN {Rejected(wal, NoTx, "REFERENCE_SCOPE_MISMATCH")}
  ELSE IF wal.currency # p.currency
  THEN {Rejected(wal, NoTx, "CURRENCY_MISMATCH")}
  ELSE Apply(wal, rows, own, p)
===============================================================================
