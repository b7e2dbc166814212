--------------------------- MODULE WageringProofs ---------------------------
(***************************************************************************)
(* Theorems about Wagering, for any number of sessions, wallets, players,  *)
(* keys, messages, calls and faults.  One lemma per action says that it    *)
(* preserves the types and the bookkeeping of each session (TypeInv); the  *)
(* other invariants are proved on top of it.                               *)
(***************************************************************************)
EXTENDS Wagering, SequenceTheorems, TLAPS

-------------------------------------------------------------------------------
(* The inductive type invariant                                            *)

(* The statements at which a session holds its wallet's row lock.          *)
LockedSteps == {"insert", "apply", "flush"}

(* What a session knows at each of its statements.                         *)
SessionOK(s) ==
  /\ pc[s] # "idle" => call[s] \in Calls
  /\ pc[s] \in {"inbox", "stage"} => call[s].msg # Null
  /\ pc[s] \in LockedSteps => copy[s] # Null
  /\ pc[s] = "flush" => draft[s] \in Outcomes

(* Every wallet has its row lock, whoever may hold it.                     *)
LocksOK == lock = [w \in Wallets |-> lock[w]]

TypeInv ==
  /\ TablesTypeOK
  /\ SessionsTypeOK
  /\ LocksOK
  /\ \A s \in Sessions : SessionOK(s)

(* What the lemmas about a step prove of it: the parts of TypeInv a        *)
(* session's own step may disturb.                                         *)
LocalInv ==
  /\ SessionsTypeOK
  /\ LocksOK
  /\ \A s \in Sessions : SessionOK(s)

(* A call starts at the inbox lookup exactly when it has a message.        *)
LEMMA FirstStepOK ==
  ASSUME NEW c \in Calls
  PROVE  /\ FirstStep(c) \in {"inbox", "findKey"}
         /\ FirstStep(c) = "inbox" => c.msg # Null
BY DEF FirstStep

(* Ending a call with a well-typed answer keeps every session in order.    *)
LEMMA FinishOK ==
  ASSUME TypeInv, NEW s \in Sessions, NEW a \in Answers, Finish(s, a)
  PROVE  LocalInv'
<1>1. SessionsTypeOK'
  BY DEF TypeInv, LocksOK, SessionsTypeOK, Finish, GoTo, Steps, MaxAttempts
<1>2. LocksOK'
  BY DEF TypeInv, LocksOK, Finish, Released
<1>3. ASSUME NEW x \in Sessions PROVE SessionOK(x)'
  BY <1>3 DEF TypeInv, LocksOK, SessionsTypeOK, SessionOK, Finish, GoTo, LockedSteps
<1> QED BY <1>1, <1>2, <1>3 DEF LocalInv

(* So does a rolled back attempt that resumes outside the locked steps.    *)
LEMMA RollbackOK ==
  ASSUME TypeInv, NEW s \in Sessions, pc[s] # "idle",
         NEW n \in 0 .. MaxAttempts - 1,
         NEW step \in {"inbox", "findKey", "rereadKey"},
         step = "inbox" => call[s].msg # Null,
         Rollback(s, step, n)
  PROVE  LocalInv'
<1>1. SessionsTypeOK'
  BY DEF TypeInv, LocksOK, SessionsTypeOK, Rollback, GoTo, Steps
<1>2. LocksOK'
  BY DEF TypeInv, LocksOK, Rollback, Released
<1>3. ASSUME NEW x \in Sessions PROVE SessionOK(x)'
  BY <1>3 DEF TypeInv, LocksOK, SessionsTypeOK, SessionOK, Rollback, GoTo, LockedSteps
<1> QED BY <1>1, <1>2, <1>3 DEF LocalInv

(* An error is a well-typed answer.                                        *)
LEMMA FailedOK ==
  ASSUME NEW c \in Calls, NEW code \in ErrorCodes
  PROVE  Failed(c, code) \in Answers
BY DEF Failed, NoAnswer, Answers, NoTx, NoBalance

(* The result of a stored row is a well-typed answer.                      *)
LEMMA OutputOK ==
  ASSUME NEW c \in Calls, NEW t \in Nat, NEW row \in Rows, NEW replay \in BOOLEAN
  PROVE  Output(c, t, row, replay) \in Answers
BY DEF Output, Answers, Rows

(* The attempt loop goes round or ends.                                    *)
LEMMA RetryOK ==
  ASSUME TypeInv, NEW s \in Sessions, pc[s] # "idle", Retry(s)
  PROVE  LocalInv'
<1>1. call[s] \in Calls
  BY DEF TypeInv, SessionOK
<1>2. CASE Rollback(s, FirstStep(call[s]), attempt[s] + 1) /\ attempt[s] + 1 < MaxAttempts
  <2>1. attempt[s] + 1 \in 0 .. MaxAttempts - 1
    BY <1>2 DEF TypeInv, LocksOK, SessionsTypeOK, MaxAttempts
  <2> QED BY <1>1, <1>2, <2>1, FirstStepOK, RollbackOK
<1>3. CASE Finish(s, Failed(call[s], "DEPENDENCY_UNAVAILABLE"))
  <2>1. Failed(call[s], "DEPENDENCY_UNAVAILABLE") \in Answers
    BY <1>1, FailedOK DEF ErrorCodes
  <2> QED BY <1>3, <2>1, FinishOK
<1> QED BY <1>2, <1>3 DEF Retry


-------------------------------------------------------------------------------
(* Every statement that leaves the tables alone                            *)

LEMMA ExecuteOK ==
  ASSUME TypeInv, NEW s \in Sessions, NEW c \in Calls, Execute(s, c)
  PROVE  LocalInv'
<1>1. FirstStep(c) \in {"inbox", "findKey"} /\ (FirstStep(c) = "inbox" => c.msg # Null)
  BY FirstStepOK
<1>2. SessionsTypeOK' /\ LocksOK'
  BY <1>1 DEF TypeInv, LocksOK, SessionsTypeOK, Execute, GoTo, Steps
<1>3. ASSUME NEW x \in Sessions PROVE SessionOK(x)'
  BY <1>1, <1>3 DEF TypeInv, LocksOK, SessionsTypeOK, SessionOK, Execute, GoTo, LockedSteps
<1> QED BY <1>2, <1>3 DEF LocalInv

(* A session that only moves on, to a step that asks no more of it.        *)
LEMMA MoveOK ==
  ASSUME TypeInv, NEW s \in Sessions, pc[s] # "idle",
         NEW step \in {"findKey", "findExt", "lock", "apply", "rereadExt"},
         step = "apply" => pc[s] \in LockedSteps,
         GoTo(s, step), UNCHANGED <<lock, call, attempt, copy, draft, answer>>,
         seen' \in [Sessions -> BOOLEAN]
  PROVE  LocalInv'
<1>1. SessionsTypeOK' /\ LocksOK'
  BY DEF TypeInv, LocksOK, SessionsTypeOK, GoTo, Steps
<1>2. ASSUME NEW x \in Sessions PROVE SessionOK(x)'
  BY <1>2 DEF TypeInv, LocksOK, SessionsTypeOK, SessionOK, GoTo, LockedSteps
<1> QED BY <1>1, <1>2 DEF LocalInv

LEMMA CheckInboxOK ==
  ASSUME TypeInv, NEW s \in Sessions, CheckInbox(s)
  PROVE  LocalInv'
<1>1. call[s] \in Calls /\ pc[s] # "idle"
  BY DEF TypeInv, SessionOK, CheckInbox
<1>2. CASE Finish(s, Failed(call[s], "MESSAGE_PERMANENT_FAILURE"))
  BY <1>1, <1>2, FinishOK, FailedOK DEF ErrorCodes
<1>3. CASE /\ seen' = [seen EXCEPT ![s] = InboxRows(call[s].msg) # {}]
           /\ GoTo(s, "findKey")
           /\ UNCHANGED <<lock, call, attempt, copy, draft, answer>>
  <2>1. seen' \in [Sessions -> BOOLEAN]
    BY <1>3 DEF TypeInv, LocksOK, SessionsTypeOK
  <2> QED BY <1>1, <1>3, <2>1, MoveOK
<1> QED BY <1>2, <1>3 DEF CheckInbox

LEMMA ExistingOK ==
  ASSUME TypeInv, NEW s \in Sessions, pc[s] # "idle", NEW i \in DOMAIN txns,
         Existing(s, i)
  PROVE  LocalInv'
<1>1. call[s] \in Calls
  BY DEF TypeInv, SessionOK
<1>2. Output(call[s], i, txns[i], TRUE) \in Answers
  <2>1. txns[i] \in Rows /\ i \in Nat
    BY ElementOfSeq, LenProperties DEF TypeInv, LocksOK, TablesTypeOK
  <2> QED BY <1>1, <2>1, OutputOK
<1>3. CASE Finish(s, Failed(call[s], "IDEMPOTENCY_CONFLICT"))
  BY <1>1, <1>3, FinishOK, FailedOK DEF ErrorCodes
<1>4. CASE Finish(s, Output(call[s], i, txns[i], TRUE))
  BY <1>2, <1>4, FinishOK
<1>5. CASE /\ call[s].msg # Null
           /\ answer' = [answer EXCEPT ![s] = Output(call[s], i, txns[i], TRUE)]
           /\ GoTo(s, "stage")
           /\ UNCHANGED <<lock, locals>>
  <2>1. SessionsTypeOK' /\ LocksOK'
    BY <1>2, <1>5 DEF TypeInv, LocksOK, SessionsTypeOK, GoTo, Steps, locals
  <2>2. ASSUME NEW x \in Sessions PROVE SessionOK(x)'
    BY <1>5, <2>2 DEF TypeInv, LocksOK, SessionsTypeOK, SessionOK, GoTo, LockedSteps, locals
  <2> QED BY <2>1, <2>2 DEF LocalInv
<1> QED BY <1>3, <1>4, <1>5 DEF Existing

LEMMA FindByKeyOK ==
  ASSUME TypeInv, NEW s \in Sessions, FindByKey(s)
  PROVE  LocalInv'
<1>1. pc[s] # "idle"
  BY DEF FindByKey
<1>2. CASE \E i \in RowsWithKey(call[s].key) : Existing(s, i)
  BY <1>1, <1>2, ExistingOK DEF RowsWithKey
<1>3. CASE GoTo(s, "findExt") /\ UNCHANGED <<lock, locals, answer>>
  BY <1>1, <1>3, MoveOK DEF locals, TypeInv, LocksOK, SessionsTypeOK
<1> QED BY <1>2, <1>3 DEF FindByKey

LEMMA FindByExternalIdOK ==
  ASSUME TypeInv, NEW s \in Sessions, FindByExternalId(s)
  PROVE  LocalInv'
<1>1. pc[s] # "idle" /\ call[s] \in Calls
  BY DEF FindByExternalId, TypeInv, SessionOK
<1>2. CASE \E i \in RowsWithExt(call[s].payload) : Existing(s, i)
  BY <1>1, <1>2, ExistingOK DEF RowsWithExt
<1>3. CASE Finish(s, Failed(call[s], "DEPENDENCY_UNAVAILABLE"))
  BY <1>1, <1>3, FinishOK, FailedOK DEF ErrorCodes
<1>4. CASE GoTo(s, "lock") /\ UNCHANGED <<lock, locals, answer>>
  BY <1>1, <1>4, MoveOK DEF locals, TypeInv, LocksOK, SessionsTypeOK
<1> QED BY <1>2, <1>3, <1>4 DEF FindByExternalId

LEMMA LockWalletOK ==
  ASSUME TypeInv, NEW s \in Sessions, LockWallet(s)
  PROVE  LocalInv'
<1>1. pc[s] # "idle" /\ call[s] \in Calls
  BY DEF LockWallet, TypeInv, SessionOK
<1> DEFINE w == call[s].payload.wallet
<1>2. w \in Wallets
  BY <1>1, CallsAssumption DEF OperationPayloads
<1>3. CASE Finish(s, Failed(call[s], "WALLET_NOT_FOUND"))
  BY <1>1, <1>3, FinishOK, FailedOK DEF ErrorCodes
<1>4. CASE /\ wallets[w] # Null
           /\ lock' = [lock EXCEPT ![w] = s]
           /\ copy' = [copy EXCEPT ![s] = wallets[w]]
           /\ GoTo(s, "insert")
           /\ UNCHANGED <<call, attempt, seen, draft, answer>>
  <2>1. wallets[w] \in WalletRecords
    BY <1>2, <1>4 DEF TypeInv, LocksOK, TablesTypeOK
  <2>2. SessionsTypeOK' /\ LocksOK'
    BY <1>2, <1>4, <2>1 DEF TypeInv, LocksOK, SessionsTypeOK, GoTo, Steps
  <2>3. ASSUME NEW x \in Sessions PROVE SessionOK(x)'
    BY <1>1, <1>4, <2>3 DEF TypeInv, LocksOK, SessionsTypeOK, SessionOK, GoTo, LockedSteps
  <2> QED BY <2>2, <2>3 DEF LocalInv
<1> QED BY <1>3, <1>4 DEF LockWallet

LEMMA InsertPendingOK ==
  ASSUME TypeInv, NEW s \in Sessions, InsertPending(s)
  PROVE  LocalInv'
<1>1. pc[s] = "insert"
  BY DEF InsertPending
<1>2. CASE GoTo(s, "apply") /\ UNCHANGED <<lock, locals, answer>>
  BY <1>1, <1>2, MoveOK DEF locals, TypeInv, LocksOK, SessionsTypeOK, LockedSteps
<1>3. CASE Rollback(s, "rereadKey", attempt[s])
  BY <1>1, <1>3, RollbackOK DEF TypeInv, LocksOK, SessionsTypeOK
<1> QED BY <1>2, <1>3 DEF InsertPending

LEMMA WinnerOK ==
  ASSUME TypeInv, NEW s \in Sessions, pc[s] # "idle", NEW i \in DOMAIN txns,
         Winner(s, i)
  PROVE  LocalInv'
<1>1. call[s] \in Calls
  BY DEF TypeInv, SessionOK
<1>2. txns[i] \in Rows /\ i \in Nat
  BY ElementOfSeq, LenProperties DEF TypeInv, LocksOK, TablesTypeOK
<1>3. Output(call[s], i, txns[i], TRUE) \in Answers
  BY <1>1, <1>2, OutputOK
<1> QED BY <1>1, <1>3, FinishOK, FailedOK DEF Winner, ErrorCodes

LEMMA RereadByKeyOK ==
  ASSUME TypeInv, NEW s \in Sessions, RereadByKey(s)
  PROVE  LocalInv'
<1>1. pc[s] # "idle"
  BY DEF RereadByKey
<1>2. CASE \E i \in RowsWithKey(call[s].key) : Winner(s, i)
  BY <1>1, <1>2, WinnerOK DEF RowsWithKey
<1>3. CASE GoTo(s, "rereadExt") /\ UNCHANGED <<lock, locals, answer>>
  BY <1>1, <1>3, MoveOK DEF locals, TypeInv, LocksOK, SessionsTypeOK
<1> QED BY <1>2, <1>3 DEF RereadByKey

LEMMA RereadByExternalIdOK ==
  ASSUME TypeInv, NEW s \in Sessions, RereadByExternalId(s)
  PROVE  LocalInv'
<1>1. pc[s] # "idle"
  BY DEF RereadByExternalId
<1>2. CASE \E i \in RowsWithExt(call[s].payload) : Winner(s, i)
  BY <1>1, <1>2, WinnerOK DEF RowsWithExt
<1> QED BY <1>1, <1>2, RetryOK DEF RereadByExternalId

LEMMA FailuresOK ==
  ASSUME TypeInv, NEW s \in Sessions, Contended(s) \/ Crash(s)
  PROVE  LocalInv'
<1>1. NoAnswer \in Answers
  BY DEF NoAnswer, Answers, NoTx, NoBalance
<1> QED BY <1>1, FinishOK, RetryOK DEF Contended, Crash

-------------------------------------------------------------------------------
(* The rules                                                               *)

(* The movement of an outcome leads from the wallet it was decided on to   *)
(* the wallet it stores.                                                   *)
Fits(o, wal, amount) ==
  \/ o.move = NoMove /\ o.wallet = wal
  \/ /\ o.move \in Directions
     /\ o.wallet.balance =
          wal.balance + (IF o.move = "CREDIT" THEN amount ELSE -amount)

(* What the rules may decide on a wallet.                                  *)
Decision(o, wal, p) ==
  o \in Outcomes /\ o.ref \in Nat /\ Fits(o, wal, p.amount)

(* A rejection changes nothing.                                            *)
LEMMA RejectedOK ==
  ASSUME NEW wal \in WalletRecords, NEW ref \in Nat, NEW p \in OperationPayloads,
         NEW code \in RejectionCodes
  PROVE  Decision(Rejected(wal, ref, code), wal, p)
BY DEF Rejected, Decision, Fits, Outcomes, WalletRecords, Statuses, NoMove

(* A movement changes the balance and the version, and nothing else.       *)
LEMMA MovedWallet ==
  ASSUME NEW wal \in WalletRecords, NEW b, NEW v
  PROVE  [wal EXCEPT !.balance = b, !.version = v] =
           [player |-> wal.player, currency |-> wal.currency,
            balance |-> b, version |-> v]
<1> DEFINE half == [wal EXCEPT !.balance = b]
<1>1. half = [player |-> wal.player, currency |-> wal.currency,
              balance |-> b, version |-> wal.version]
  BY DEF WalletRecords
<1>2. HIDE DEF half
<1>3. [half EXCEPT !.version = v] = [player |-> wal.player, currency |-> wal.currency,
                                     balance |-> b, version |-> v]
  BY <1>1
<1> QED BY <1>3 DEF half

(* A movement ends at a balance that is not negative.                      *)
LEMMA MovementOK ==
  ASSUME NEW wal \in WalletRecords, NEW ref \in Nat, NEW p \in OperationPayloads,
         NEW refKind
  PROVE  Decision(ExecuteWalletMovement(wal, p, ref, refKind), wal, p)
<1> DEFINE direction == IF IsDebit(p.kind, refKind) THEN "DEBIT" ELSE "CREDIT"
           after     == ApplyMovement(wal, direction, p.amount)
<1>1. CASE direction = "DEBIT" /\ wal.balance < p.amount
  <2>1. InsufficientFundsCode(p.kind) \in RejectionCodes
    BY DEF InsufficientFundsCode, RejectionCodes
  <2> QED BY <1>1, <2>1, RejectedOK DEF ExecuteWalletMovement
<1>2. CASE ~(direction = "DEBIT" /\ wal.balance < p.amount)
  <2>1. p.amount \in Nat /\ wal.balance \in Nat /\ wal.version \in Nat \ {0}
    BY DEF OperationPayloads, WalletRecords
  <2>2. after = [player |-> wal.player, currency |-> wal.currency,
                 balance |-> wal.balance + (IF direction = "CREDIT" THEN p.amount
                                                                    ELSE -p.amount),
                 version |-> wal.version + 1]
    BY <2>1, MovedWallet DEF ApplyMovement
  <2>3. after \in WalletRecords
    BY <1>2, <2>1, <2>2 DEF WalletRecords
  <2>4. after.balance \in Nat /\ wal.balance \in Nat
    BY <2>3 DEF WalletRecords
  <2>5. Processed(after, ref, direction) \in Outcomes
    BY <2>3, <2>4 DEF Processed, Outcomes, Statuses, Directions
  <2>6. ExecuteWalletMovement(wal, p, ref, refKind) = Processed(after, ref, direction)
    BY <1>2 DEF ExecuteWalletMovement
  <2> QED BY <2>2, <2>5, <2>6 DEF Decision, Fits, Processed, Directions
<1> QED BY <1>1, <1>2

(* Whatever the rows, the rules decide within Decision.                    *)
LEMMA ApplyDecides ==
  ASSUME NEW wal \in WalletRecords, NEW rows, DOMAIN rows \subseteq Nat, NEW own,
         NEW p \in OperationPayloads, NEW o \in Apply(wal, rows, own, p)
  PROVE  Decision(o, wal, p)
<1>1. CASE o = Processed(wal, NoTx, NoMove) \/ o = Parked(wal)
  BY <1>1 DEF Processed, Parked, Decision, Fits, Outcomes, WalletRecords, Statuses,
              NoTx, NoBalance, NoMove
<1>2. CASE o = ExecuteWalletMovement(wal, p, NoTx, "NONE")
  BY <1>2, MovementOK DEF NoTx
<1>3. CASE \E i \in References(rows, p) : o = WithReference(wal, rows, own, p, i)
  <2>1. PICK i \in References(rows, p) : o = WithReference(wal, rows, own, p, i)
    BY <1>3
  <2>2. i \in Nat
    BY DEF References, Named
  <2>3. ReferenceFailure(rows, own, p, i) \in RejectionCodes \cup {"NONE"}
    BY DEF ReferenceFailure, RejectionCodes
  <2> QED BY <2>1, <2>2, <2>3, RejectedOK, MovementOK DEF WithReference
<1> QED BY <1>1, <1>2, <1>3 DEF Apply

LEMMA DecisionOK ==
  ASSUME NEW wal \in WalletRecords, NEW rows, DOMAIN rows \subseteq Nat, NEW own,
         NEW p \in OperationPayloads,
         NEW o \in ProcessWagerMovement(wal, rows, own, p)
  PROVE  Decision(o, wal, p)
<1>1. CASE o = Rejected(wal, NoTx, "REFERENCE_SCOPE_MISMATCH")
  BY <1>1, RejectedOK DEF NoTx, RejectionCodes
<1>2. CASE o = Rejected(wal, NoTx, "CURRENCY_MISMATCH")
  BY <1>2, RejectedOK DEF NoTx, RejectionCodes
<1> QED BY <1>1, <1>2, ApplyDecides DEF ProcessWagerMovement

(* The rows a session sees are numbered from 1.                            *)
LEMMA VisibleOK ==
  ASSUME TypeInv, NEW s \in Sessions
  PROVE  DOMAIN Visible(s) \subseteq Nat /\ Len(txns) \in Nat
<1> DEFINE S == Rows \cup {PendingRow(call[s])}
<1>1. txns \in Seq(S)
  BY SeqMonotonic DEF TypeInv, LocksOK, TablesTypeOK
<1>2. Visible(s) \in Seq(S)
  BY <1>1, AppendProperties DEF Visible
<1> QED BY <1>1, <1>2, LenProperties

(* The rows a deciding session sees: the committed ones and its own.       *)
LEMMA VisibleRows ==
  ASSUME TypeInv, NEW s \in Sessions
  PROVE  /\ DOMAIN txns = 1 .. Len(txns) /\ Len(txns) \in Nat
         /\ DOMAIN Visible(s) = 1 .. Len(txns) + 1
         /\ \A i \in DOMAIN txns : Visible(s)[i] = txns[i]
         /\ Visible(s)[Len(txns) + 1] = PendingRow(call[s])
<1> DEFINE S == Rows \cup {PendingRow(call[s])}
<1>1. txns \in Seq(S)
  BY SeqMonotonic DEF TypeInv, LocksOK, TablesTypeOK
<1>2. PendingRow(call[s]) \in S
  OBVIOUS
<1> HIDE DEF S
<1> QED BY <1>1, <1>2, AppendProperties, LenProperties DEF Visible

LEMMA ApplyRulesOK ==
  ASSUME TypeInv, NEW s \in Sessions, ApplyRules(s)
  PROVE  /\ LocalInv'
         /\ draft'[s] \in Outcomes
         /\ Fits(draft'[s], copy[s], call[s].payload.amount)
<1>1. /\ call[s] \in Calls
      /\ copy[s] \in WalletRecords
  BY DEF ApplyRules, TypeInv, LocksOK, SessionsTypeOK, SessionOK, LockedSteps
<1>2. call[s].payload \in OperationPayloads
  BY <1>1, CallsAssumption
<1>3. PICK o \in ProcessWagerMovement(copy[s], Visible(s), Len(txns) + 1, call[s].payload) :
        draft' = [draft EXCEPT ![s] = Relink(o, Len(txns) + 1, Own)]
  BY DEF ApplyRules
<1>4. Decision(o, copy[s], call[s].payload)
  BY <1>1, <1>2, VisibleOK, DecisionOK
<1>5. /\ Relink(o, Len(txns) + 1, Own) \in Outcomes
      /\ Fits(Relink(o, Len(txns) + 1, Own), copy[s], call[s].payload.amount)
  BY <1>4 DEF Decision, Fits, Relink, Outcomes, Own
<1>6. draft'[s] = Relink(o, Len(txns) + 1, Own)
  BY <1>3 DEF TypeInv, LocksOK, SessionsTypeOK
<1>7. SessionsTypeOK' /\ LocksOK'
  BY <1>3, <1>5 DEF ApplyRules, TypeInv, LocksOK, SessionsTypeOK, GoTo, Steps
<1>8. ASSUME NEW x \in Sessions PROVE SessionOK(x)'
  BY <1>3, <1>5, <1>8 DEF ApplyRules, TypeInv, LocksOK, SessionsTypeOK, SessionOK, GoTo, LockedSteps
<1> QED BY <1>5, <1>6, <1>7, <1>8 DEF LocalInv

-------------------------------------------------------------------------------
(* Every statement that writes the tables                                  *)

LEMMA StageInboxOK ==
  ASSUME TypeInv, NEW s \in Sessions, StageInbox(s)
  PROVE  TablesTypeOK' /\ LocalInv'
<1>1. /\ pc[s] # "idle" /\ call[s] \in Calls
      /\ call[s].msg # Null
      /\ answer[s] \in Answers
  BY DEF StageInbox, TypeInv, LocksOK, SessionsTypeOK, SessionOK
<1>2. LocalInv'
  <2>1. CASE Finish(s, answer[s])
    BY <1>1, <2>1, FinishOK
  <2>2. CASE Rollback(s, "rereadKey", attempt[s])
    BY <1>1, <2>2, RollbackOK DEF TypeInv, LocksOK, SessionsTypeOK
  <2> QED BY <2>1, <2>2 DEF StageInbox
<1>3. [msg |-> call[s].msg, hash |-> call[s].payload] \in [msg : Msgs, hash : OperationPayloads]
  BY <1>1, CallsAssumption
<1>4. TablesTypeOK'
  BY <1>3 DEF StageInbox, TypeInv, LocksOK, TablesTypeOK
<1> QED BY <1>2, <1>4

LEMMA FlushConflictOK ==
  ASSUME TypeInv, NEW s \in Sessions, FlushInboxConflict(s) \/ FlushReferenceConflict(s)
  PROVE  LocalInv'
<1>1. pc[s] # "idle" /\ call[s] \in Calls
  BY DEF FlushInboxConflict, FlushReferenceConflict, TypeInv, SessionOK
<1>2. CASE Rollback(s, "rereadKey", attempt[s])
  BY <1>1, <1>2, RollbackOK DEF TypeInv, LocksOK, SessionsTypeOK
<1>3. CASE Finish(s, Failed(call[s], "REFERENCE_ALREADY_REVERSED"))
  BY <1>1, <1>3, FinishOK, FailedOK DEF ErrorCodes
<1> QED BY <1>2, <1>3 DEF FlushInboxConflict, FlushReferenceConflict

(* The events of an outcome are events.                                    *)
LEMMA EventsOK ==
  ASSUME NEW t \in Nat \ {0}, NEW kind, NEW w \in Wallets, NEW o \in Outcomes
  PROVE  Events(t, kind, w, o) \in Seq(EventRecords)
<1> DEFINE event(type) == [type |-> type, tx |-> t, wallet |-> w,
                           failure |-> o.failure, balance |-> o.wallet.balance]
<1>1. o.failure \in RejectionCodes \cup {"NONE"} /\ o.wallet.balance \in Nat
  BY DEF Outcomes, WalletRecords
<1>2. o.status \in Statuses
  BY DEF Outcomes
<1>3. /\ event("PROCESSED") \in EventRecords
      /\ event("BALANCE_CHANGED") \in EventRecords
      /\ event(o.status) \in EventRecords
  BY <1>1, <1>2 DEF EventRecords, Statuses
<1>4. \/ Events(t, kind, w, o) = <<event("PROCESSED"), event("BALANCE_CHANGED")>>
      \/ Events(t, kind, w, o) = <<event(o.status)>>
  BY DEF Events
<1> HIDE DEF event
<1>5. CASE Events(t, kind, w, o) = <<event("PROCESSED"), event("BALANCE_CHANGED")>>
  BY <1>3, <1>5
<1>6. CASE Events(t, kind, w, o) = <<event(o.status)>>
  BY <1>3, <1>6
<1> QED BY <1>4, <1>5, <1>6

(* The ledger entry of an outcome is an entry.                             *)
LEMMA WriteLedgerOK ==
  ASSUME TypeInv, NEW w \in Wallets, NEW t \in Nat \ {0}, NEW amount \in Nat \ {0},
         NEW before \in Nat, NEW o \in Outcomes, WriteLedger(w, t, amount, before, o)
  PROVE  ledger' \in [Wallets -> Seq(Entries)]
<1>1. ledger \in [Wallets -> Seq(Entries)]
  BY DEF TypeInv, LocksOK, TablesTypeOK
<1>2. CASE o.move = NoMove
  BY <1>1, <1>2 DEF WriteLedger
<1>3. CASE o.move # NoMove
  <2> DEFINE e == Entry(t, o.move, amount, before, o.wallet.balance)
  <2>1. e \in Entries
    BY <1>3 DEF Entry, Entries, Outcomes, WalletRecords
  <2>2. Append(ledger[w], e) \in Seq(Entries)
    BY <1>1, <2>1, AppendProperties
  <2>3. ledger' = [ledger EXCEPT ![w] = Append(ledger[w], e)]
    BY <1>3 DEF WriteLedger
  <2> QED BY <1>1, <2>2, <2>3
<1> QED BY <1>2, <1>3

(* The row an outcome leaves is a row.                                     *)
LEMMA RowOK ==
  ASSUME NEW key \in Keys, NEW p \in OperationPayloads, NEW o \in Outcomes,
         NEW t \in Nat
  PROVE  Row(key, p, Relink(o, Own, t)) \in Rows
BY DEF Row, Rows, Relink, Outcomes, Own, Payloads

(* What a commit finds: a served call, its wallet and its decision.        *)
LEMMA CommitFinds ==
  ASSUME TypeInv, NEW s \in Sessions, pc[s] = "flush"
  PROVE  /\ call[s] \in Calls
         /\ call[s].payload \in OperationPayloads
         /\ call[s].payload.wallet \in Wallets
         /\ call[s].payload.amount \in Nat \ {0}
         /\ call[s].key \in Keys
         /\ call[s].msg \in Msgs \cup {Null}
         /\ draft[s] \in Outcomes
         /\ copy[s] \in WalletRecords
         /\ Len(txns) \in Nat
<1>1. call[s] \in Calls /\ draft[s] \in Outcomes /\ copy[s] \in WalletRecords
  BY DEF TypeInv, LocksOK, SessionsTypeOK, SessionOK, LockedSteps
<1>2. call[s].payload \in OperationPayloads
  BY <1>1, CallsAssumption
<1>3. Len(txns) \in Nat
  BY LenProperties DEF TypeInv, LocksOK, TablesTypeOK
<1> QED BY <1>1, <1>2, <1>3, CallsAssumption DEF OperationPayloads

(* What a commit appends: the decided row of the call it serves.           *)
LEMMA CommitAppends ==
  ASSUME TypeInv, NEW s \in Sessions, Commit(s)
  PROVE  LET row == Row(call[s].key, call[s].payload, Relink(draft[s], Own, Len(txns) + 1)) IN
         /\ row \in Rows
         /\ txns' = Append(txns, row)
         /\ row.payload = call[s].payload
<1> DEFINE row == Row(call[s].key, call[s].payload, Relink(draft[s], Own, Len(txns) + 1))
<1>1. pc[s] = "flush" /\ txns' = Append(txns, row)
  BY DEF Commit
<1>2. /\ call[s].payload \in OperationPayloads /\ call[s].key \in Keys
      /\ draft[s] \in Outcomes /\ Len(txns) + 1 \in Nat
  BY <1>1, CommitFinds
<1>3. row \in Rows
  BY <1>2, RowOK
<1>4. row.payload = call[s].payload
  BY DEF Row
<1> QED BY <1>1, <1>3, <1>4

LEMMA CommitOK ==
  ASSUME TypeInv, NEW s \in Sessions, Commit(s)
  PROVE  TablesTypeOK' /\ LocalInv'
<1> DEFINE c == call[s]
           p == c.payload
           o == draft[s]
           t == Len(txns) + 1
           row == Row(c.key, p, Relink(o, Own, t))
<1>1. /\ c \in Calls /\ p \in OperationPayloads /\ p.wallet \in Wallets
      /\ p.amount \in Nat \ {0} /\ c.key \in Keys /\ c.msg \in Msgs \cup {Null}
      /\ o \in Outcomes /\ copy[s] \in WalletRecords
      /\ t \in Nat \ {0}
  BY CommitFinds DEF Commit
<1>2. row \in Rows
  BY <1>1, RowOK
<1>3. LocalInv'
  <2>1. Finish(s, Output(c, t, row, FALSE))
    BY DEF Commit
  <2>2. Output(c, t, row, FALSE) \in Answers
    BY <1>1, <1>2, OutputOK
  <2> HIDE DEF c, t, row
  <2> QED BY <2>1, <2>2, FinishOK
<1>4. wallets' \in [Wallets -> WalletRecords \cup {Null}]
  BY <1>1 DEF Commit, TypeInv, LocksOK, TablesTypeOK, Outcomes
<1>5. txns' \in Seq(Rows)
  <2>1. txns' = Append(txns, row)
    BY DEF Commit
  <2> HIDE DEF row
  <2> QED BY <1>2, <2>1, AppendProperties DEF TypeInv, LocksOK, TablesTypeOK
<1>6. ledger' \in [Wallets -> Seq(Entries)]
  <2>1. WriteLedger(p.wallet, t, p.amount, copy[s].balance, o)
    BY DEF Commit
  <2>2. copy[s].balance \in Nat
    BY <1>1 DEF WalletRecords
  <2> HIDE DEF p, t, o
  <2> QED BY <1>1, <2>1, <2>2, WriteLedgerOK
<1>7. outbox' \in Seq(EventRecords)
  <2>1. outbox' = outbox \o Events(t, p.kind, p.wallet, o)
    BY DEF Commit
  <2>2. Events(t, p.kind, p.wallet, o) \in Seq(EventRecords)
    BY <1>1, EventsOK
  <2> HIDE DEF p, t, o
  <2> QED BY <2>1, <2>2, ConcatProperties DEF TypeInv, LocksOK, TablesTypeOK
<1>8. inbox' \subseteq [msg : Msgs, hash : OperationPayloads]
  BY <1>1 DEF Commit, TypeInv, LocksOK, TablesTypeOK
<1> QED BY <1>3, <1>4, <1>5, <1>6, <1>7, <1>8 DEF TablesTypeOK

LEMMA CreateWalletOK ==
  ASSUME TypeInv, NEW w \in Wallets, NEW player \in Players,
         NEW currency \in Currencies, NEW amount \in Openings,
         CreateWallet(w, player, currency, amount)
  PROVE  TablesTypeOK'
<1>1. amount \in Nat
  BY CallsAssumption
<1>2. wallets' \in [Wallets -> WalletRecords \cup {Null}]
  BY <1>1 DEF CreateWallet, TypeInv, LocksOK, TablesTypeOK, WalletRecords
<1>3. UNCHANGED <<inbox, outbox>>
  BY DEF CreateWallet
<1>4. CASE UNCHANGED <<txns, ledger>>
  BY <1>2, <1>3, <1>4 DEF TypeInv, LocksOK, TablesTypeOK
<1>5. CASE /\ amount # 0
           /\ txns' = Append(txns, OpeningRow(w))
           /\ ledger' = [ledger EXCEPT ![w] =
                Append(@, Entry(Len(txns) + 1, "CREDIT", amount, 0, amount))]
  <2>1. OpeningRow(w) \in Rows
    BY DEF OpeningRow, Row, Rows, Payloads, Statuses, NoTx, NoBalance
  <2>2. txns' \in Seq(Rows)
    BY <1>5, <2>1, AppendProperties DEF TypeInv, LocksOK, TablesTypeOK
  <2>3. Len(txns) \in Nat
    BY LenProperties DEF TypeInv, LocksOK, TablesTypeOK
  <2>4. Entry(Len(txns) + 1, "CREDIT", amount, 0, amount) \in Entries
    BY <1>1, <1>5, <2>3 DEF Entry, Entries, Directions
  <2>5. ledger' \in [Wallets -> Seq(Entries)]
    BY <1>5, <2>4, AppendProperties DEF TypeInv, LocksOK, TablesTypeOK
  <2> QED BY <1>2, <1>3, <2>2, <2>5 DEF TypeInv, LocksOK, TablesTypeOK
<1> QED BY <1>4, <1>5 DEF CreateWallet

-------------------------------------------------------------------------------
(* Type correctness                                                        *)

LEMMA InitOK == Init => TypeInv
<1> SUFFICES ASSUME Init PROVE TypeInv
  OBVIOUS
<1>1. NoAnswer \in Answers
  BY DEF NoAnswer, Answers, NoTx, NoBalance
<1>2. TablesTypeOK /\ SessionsTypeOK /\ LocksOK
  BY <1>1 DEF Init, TablesTypeOK, SessionsTypeOK, LocksOK, Steps, MaxAttempts
<1> QED BY <1>2 DEF Init, TypeInv, SessionOK, LockedSteps

LEMMA NextOK == TypeInv /\ [Next]_vars => TypeInv'
<1> SUFFICES ASSUME TypeInv, [Next]_vars PROVE TypeInv'
  OBVIOUS
<1>1. CASE UNCHANGED vars
  BY <1>1 DEF TypeInv, LocksOK, TablesTypeOK, SessionsTypeOK, SessionOK, vars, tables, locals
<1>2. ASSUME UNCHANGED tables, LocalInv' PROVE TypeInv'
  BY <1>2 DEF TypeInv, LocksOK, TablesTypeOK, tables, LocalInv
<1>3. ASSUME TablesTypeOK', LocalInv' PROVE TypeInv'
  BY <1>3 DEF TypeInv, LocksOK, LocalInv
<1>4. ASSUME NEW w \in Wallets, NEW player \in Players, NEW currency \in Currencies,
             NEW amount \in Openings, CreateWallet(w, player, currency, amount)
      PROVE  TypeInv'
  <2>1. LocalInv'
    BY <1>4 DEF CreateWallet, locals, LocalInv, TypeInv, LocksOK, SessionsTypeOK, SessionOK
  <2> QED BY <1>3, <1>4, <2>1, CreateWalletOK
<1>5. ASSUME NEW s \in Sessions, Session(s) PROVE TypeInv'
  <2>1. ASSUME NEW c \in Calls, Execute(s, c) PROVE TypeInv'
    BY <1>2, <2>1, ExecuteOK DEF Execute
  <2>2. CASE CheckInbox(s)
    BY <1>2, <2>2, CheckInboxOK DEF CheckInbox
  <2>3. CASE FindByKey(s)
    BY <1>2, <2>3, FindByKeyOK DEF FindByKey
  <2>4. CASE FindByExternalId(s)
    BY <1>2, <2>4, FindByExternalIdOK DEF FindByExternalId
  <2>5. CASE StageInbox(s)
    BY <1>3, <2>5, StageInboxOK
  <2>6. CASE LockWallet(s)
    BY <1>2, <2>6, LockWalletOK DEF LockWallet
  <2>7. CASE InsertPending(s)
    BY <1>2, <2>7, InsertPendingOK DEF InsertPending
  <2>8. CASE ApplyRules(s)
    BY <1>2, <2>8, ApplyRulesOK DEF ApplyRules
  <2>9. CASE FlushInboxConflict(s) \/ FlushReferenceConflict(s)
    BY <1>2, <2>9, FlushConflictOK DEF FlushInboxConflict, FlushReferenceConflict
  <2>10. CASE Commit(s)
    BY <1>3, <2>10, CommitOK
  <2>11. CASE RereadByKey(s)
    BY <1>2, <2>11, RereadByKeyOK DEF RereadByKey
  <2>12. CASE RereadByExternalId(s)
    BY <1>2, <2>12, RereadByExternalIdOK DEF RereadByExternalId
  <2>13. CASE Contended(s) \/ Crash(s)
    BY <1>2, <2>13, FailuresOK DEF Contended, Crash
  <2> QED BY <1>5, <2>1, <2>2, <2>3, <2>4, <2>5, <2>6, <2>7, <2>8, <2>9, <2>10, <2>11,
             <2>12, <2>13 DEF Session, Progress
<1> QED BY <1>1, <1>4, <1>5 DEF Next

LEMMA TypeInvHolds == Spec => []TypeInv
BY InitOK, NextOK, PTL DEF Spec

(* A session takes free locks and gives back its own, and no others.       *)
LEMMA SessionLocks ==
  ASSUME TypeInv, NEW s \in Sessions, Session(s), NEW w \in Wallets
  PROVE  \/ lock'[w] = lock[w]
         \/ lock[w] = s /\ lock'[w] = Null
         \/ lock[w] = Null /\ lock'[w] = s
<1> DEFINE Given == lock'[w] = lock[w] \/ (lock[w] = s /\ lock'[w] = Null)
<1>1. ASSUME lock' = Released(s) PROVE Given
  BY <1>1 DEF Released
<1>2. ASSUME NEW a, Finish(s, a) PROVE Given
  BY <1>1, <1>2 DEF Finish
<1>3. ASSUME NEW step, NEW n, Rollback(s, step, n) PROVE Given
  BY <1>1, <1>3 DEF Rollback
<1>4. ASSUME Retry(s) PROVE Given
  BY <1>2, <1>3, <1>4 DEF Retry
<1>5. CASE LockWallet(s)
  <2>1. CASE lock[call[s].payload.wallet] = Null
             /\ lock' = [lock EXCEPT ![call[s].payload.wallet] = s]
    BY <2>1 DEF TypeInv, LocksOK
  <2> QED BY <1>2, <1>5, <2>1 DEF LockWallet
<1> HIDE DEF Given
<1>6. ASSUME lock' = lock PROVE Given
  BY <1>6 DEF Given
<1>7. CASE CheckInbox(s) \/ StageInbox(s)
  BY <1>2, <1>3, <1>6, <1>7 DEF CheckInbox, StageInbox, Given
<1>8. CASE FindByKey(s) \/ FindByExternalId(s)
  BY <1>2, <1>6, <1>8 DEF FindByKey, FindByExternalId, Existing, Given
<1>9. CASE InsertPending(s) \/ FlushInboxConflict(s) \/ FlushReferenceConflict(s)
  BY <1>2, <1>3, <1>6, <1>9 DEF InsertPending, FlushInboxConflict, FlushReferenceConflict, Given
<1>10. CASE Commit(s)
  BY <1>2, <1>10 DEF Commit, Given
<1>11. CASE RereadByKey(s) \/ RereadByExternalId(s)
  BY <1>2, <1>4, <1>6, <1>11 DEF RereadByKey, RereadByExternalId, Winner, Given
<1>12. CASE Contended(s) \/ Crash(s)
  BY <1>2, <1>4, <1>12 DEF Contended, Crash, Given
<1>13. CASE ApplyRules(s) \/ \E c \in Calls : Execute(s, c)
  BY <1>13 DEF ApplyRules, Execute
<1> QED BY <1>5, <1>7, <1>8, <1>9, <1>10, <1>11, <1>12, <1>13 DEF Session, Progress, Given

(* Whatever the sessions do, every stored row is final or parked, no       *)
(* balance of a wallet, a ledger entry or an event is negative, and only   *)
(* sessions hold row locks.                                                *)
THEOREM TypeCorrect == Spec => []TypeOK
<1> DEFINE Owned == \A w \in Wallets : lock[w] \in Sessions \cup {Null}
<1>1. Init => Owned
  BY DEF Init
<1>2. TypeInv /\ Owned /\ [Next]_vars => Owned'
  <2> SUFFICES ASSUME TypeInv, Owned, [Next]_vars PROVE Owned'
    OBVIOUS
  <2>1. CASE lock' = lock
    BY <2>1
  <2>2. ASSUME NEW s \in Sessions, Session(s) PROVE Owned'
    BY <2>2, SessionLocks
  <2> QED BY <2>1, <2>2 DEF Next, CreateWallet, vars
<1>3. TypeInv /\ Owned => TypeOK
  BY DEF TypeInv, LocksOK, TypeOK
<1> QED BY <1>1, <1>2, <1>3, TypeInvHolds, PTL DEF Spec

-------------------------------------------------------------------------------
(* The wallet and its ledger                                               *)

(* Between locking the wallet and the commit a session owns the row lock   *)
(* and its copy is the committed wallet.                                   *)
HoldsWallet(s) ==
  pc[s] \in LockedSteps =>
    /\ lock[call[s].payload.wallet] = s
    /\ copy[s] = wallets[call[s].payload.wallet]

(* What is about to be flushed was decided on that copy.                   *)
DraftFits(s) ==
  pc[s] = "flush" => Fits(draft[s], copy[s], call[s].payload.amount)

LocksInv == \A s \in Sessions : HoldsWallet(s) /\ DraftFits(s)

LedgerInv == TypeInv /\ LocksInv /\ WalletMatchesLedger

(* The wallet of a session that holds one.                                 *)
LEMMA HeldWallet ==
  ASSUME TypeInv, NEW s \in Sessions, pc[s] \in LockedSteps
  PROVE  call[s].payload.wallet \in Wallets
BY CallsAssumption DEF TypeInv, SessionOK, LockedSteps, OperationPayloads

(* Nobody else holds a wallet that s has locked.                           *)
LEMMA LockExcludes ==
  ASSUME TypeInv, LocksInv, NEW s \in Sessions, NEW x \in Sessions, x # s,
         NEW w \in Wallets, lock[w] = s \/ lock[w] = Null, pc[x] \in LockedSteps
  PROVE  call[x].payload.wallet # w
BY NamesAssumption DEF LocksInv, HoldsWallet

(* An attempt that ends disturbs nobody, if it writes no wallet but its    *)
(* own.                                                                    *)
LEMMA EndKeepsLocks ==
  ASSUME TypeInv, LocksInv, NEW s \in Sessions,
         \/ \E a \in Answers : Finish(s, a)
         \/ \E step \in {"inbox", "findKey", "rereadKey"} :
              \E n \in 0 .. MaxAttempts - 1 : Rollback(s, step, n),
         \A w \in Wallets : lock[w] # s => wallets'[w] = wallets[w]
  PROVE  LocksInv'
<1>1. PICK step \in {"idle", "inbox", "findKey", "rereadKey"} : GoTo(s, step)
  BY DEF Finish, Rollback
<1>2. /\ lock' = Released(s)
      /\ \A x \in Sessions \ {s} :
           call'[x] = call[x] /\ copy'[x] = copy[x] /\ draft'[x] = draft[x]
  BY DEF Finish, Rollback, TypeInv, LocksOK, SessionsTypeOK
<1> SUFFICES ASSUME NEW x \in Sessions PROVE (HoldsWallet(x) /\ DraftFits(x))'
  BY DEF LocksInv
<1>3. CASE x = s
  BY <1>1, <1>3 DEF HoldsWallet, DraftFits, LockedSteps, GoTo, TypeInv, LocksOK, SessionsTypeOK
<1>4. CASE x # s
  <2>1. pc'[x] = pc[x]
    BY <1>1, <1>4 DEF GoTo, TypeInv, LocksOK, SessionsTypeOK
  <2>2. ASSUME pc[x] \in LockedSteps
        PROVE  /\ lock'[call[x].payload.wallet] = x
               /\ wallets'[call[x].payload.wallet] = wallets[call[x].payload.wallet]
    BY <1>2, <1>4, <2>2, HeldWallet DEF Released, LocksInv, HoldsWallet
  <2> QED BY <1>2, <1>4, <2>1, <2>2 DEF LocksInv, HoldsWallet, DraftFits, LockedSteps
<1> QED BY <1>3, <1>4

(* Nor does a statement that neither locks nor decides.                    *)
LEMMA MoveKeepsLocks ==
  ASSUME TypeInv, LocksInv, NEW s \in Sessions, NEW step \in Steps \ {"flush"},
         step \in LockedSteps => pc[s] \in LockedSteps,
         GoTo(s, step), UNCHANGED <<wallets, lock, call, copy, draft>>
  PROVE  LocksInv'
BY DEF LocksInv, HoldsWallet, DraftFits, GoTo, TypeInv, LocksOK, SessionsTypeOK

(* The attempt loop ends or restarts an attempt.                           *)
LEMMA RetryEnds ==
  ASSUME TypeInv, NEW s \in Sessions, pc[s] # "idle", Retry(s)
  PROVE  \/ \E a \in Answers : Finish(s, a)
         \/ \E step \in {"inbox", "findKey", "rereadKey"} :
              \E n \in 0 .. MaxAttempts - 1 : Rollback(s, step, n)
<1>1. call[s] \in Calls
  BY DEF TypeInv, SessionOK
<1>2. CASE Rollback(s, FirstStep(call[s]), attempt[s] + 1) /\ attempt[s] + 1 < MaxAttempts
  <2>1. attempt[s] + 1 \in 0 .. MaxAttempts - 1
    BY <1>2 DEF TypeInv, LocksOK, SessionsTypeOK, MaxAttempts
  <2> QED BY <1>1, <1>2, <2>1, FirstStepOK
<1>3. CASE Finish(s, Failed(call[s], "DEPENDENCY_UNAVAILABLE"))
  BY <1>1, <1>3, FailedOK DEF ErrorCodes
<1> QED BY <1>2, <1>3 DEF Retry

(* What a stored row answers is an answer.                                 *)
LEMMA StoredAnswer ==
  ASSUME TypeInv, NEW s \in Sessions, pc[s] # "idle", NEW i \in DOMAIN txns
  PROVE  /\ Output(call[s], i, txns[i], TRUE) \in Answers
         /\ Failed(call[s], "IDEMPOTENCY_CONFLICT") \in Answers
<1>1. txns[i] \in Rows /\ i \in Nat /\ call[s] \in Calls
  BY ElementOfSeq, LenProperties DEF TypeInv, LocksOK, TablesTypeOK, SessionOK
<1> QED BY <1>1, OutputOK, FailedOK DEF ErrorCodes

(* Every step of a session but its commit leaves the wallets alone and     *)
(* keeps the locks.                                                        *)
LEMMA SessionKeepsLocks ==
  ASSUME TypeInv, LocksInv, NEW s \in Sessions, Session(s), ~Commit(s)
  PROVE  LocksInv' /\ UNCHANGED <<wallets, ledger>>
<1> DEFINE Ends == \/ \E a \in Answers : Finish(s, a)
                   \/ \E step \in {"inbox", "findKey", "rereadKey"} :
                        \E n \in 0 .. MaxAttempts - 1 : Rollback(s, step, n)
<1>1. ASSUME Ends, UNCHANGED wallets PROVE LocksInv'
  BY <1>1, EndKeepsLocks
<1>2. pc[s] # "idle" => call[s] \in Calls
  BY DEF TypeInv, SessionOK
<1>3. attempt[s] \in 0 .. MaxAttempts - 1
  BY DEF TypeInv, LocksOK, SessionsTypeOK
<1>4. ASSUME NEW i \in DOMAIN txns, pc[s] # "idle", Existing(s, i), UNCHANGED wallets
      PROVE  LocksInv'
  <2>1. CASE GoTo(s, "stage") /\ UNCHANGED <<lock, locals>>
    BY <1>4, <2>1, MoveKeepsLocks DEF locals, Steps, LockedSteps
  <2>2. CASE Ends
    BY <1>1, <1>4, <2>2
  <2> QED BY <1>4, <2>1, <2>2, StoredAnswer DEF Existing
<1>5. ASSUME NEW i \in DOMAIN txns, pc[s] # "idle", Winner(s, i), UNCHANGED wallets
      PROVE  LocksInv'
  BY <1>1, <1>5, StoredAnswer DEF Winner
<1>6. ASSUME NEW c \in Calls, Execute(s, c) PROVE LocksInv' /\ UNCHANGED <<wallets, ledger>>
  <2>1. FirstStep(c) \in {"inbox", "findKey"}
    BY FirstStepOK
  <2> QED BY <1>6, <2>1 DEF Execute, GoTo, tables, LocksInv, HoldsWallet, DraftFits,
                            LockedSteps, TypeInv, LocksOK, SessionsTypeOK
<1>7. CASE CheckInbox(s)
  <2>1. CASE Finish(s, Failed(call[s], "MESSAGE_PERMANENT_FAILURE"))
    BY <1>1, <1>2, <1>7, <2>1, FailedOK DEF CheckInbox, tables, ErrorCodes
  <2>2. CASE GoTo(s, "findKey") /\ UNCHANGED <<lock, call, attempt, copy, draft, answer>>
    BY <1>7, <2>2, MoveKeepsLocks DEF CheckInbox, tables, Steps, LockedSteps
  <2> QED BY <1>7, <2>1, <2>2 DEF CheckInbox, tables
<1>8. CASE FindByKey(s)
  <2>1. CASE GoTo(s, "findExt") /\ UNCHANGED <<lock, locals, answer>>
    BY <1>8, <2>1, MoveKeepsLocks DEF FindByKey, tables, locals, Steps, LockedSteps
  <2> QED BY <1>4, <1>8, <2>1 DEF FindByKey, tables, RowsWithKey
<1>9. CASE FindByExternalId(s)
  <2>1. CASE GoTo(s, "lock") /\ UNCHANGED <<lock, locals, answer>>
    BY <1>9, <2>1, MoveKeepsLocks DEF FindByExternalId, tables, locals, Steps, LockedSteps
  <2>2. CASE Finish(s, Failed(call[s], "DEPENDENCY_UNAVAILABLE"))
    BY <1>1, <1>2, <1>9, <2>2, FailedOK DEF FindByExternalId, tables, ErrorCodes
  <2> QED BY <1>4, <1>9, <2>1, <2>2 DEF FindByExternalId, tables, RowsWithExt
<1>10. CASE StageInbox(s)
  <2>1. answer[s] \in Answers
    BY DEF TypeInv, LocksOK, SessionsTypeOK
  <2> QED BY <1>1, <1>3, <1>10, <2>1 DEF StageInbox
<1>11. CASE LockWallet(s)
  <2> DEFINE w == call[s].payload.wallet
  <2>1. w \in Wallets /\ pc[s] # "idle"
    BY <1>2, <1>11, CallsAssumption DEF LockWallet, OperationPayloads
  <2>2. CASE Finish(s, Failed(call[s], "WALLET_NOT_FOUND"))
    BY <1>1, <1>2, <1>11, <2>1, <2>2, FailedOK DEF LockWallet, tables, ErrorCodes
  <2>3. CASE /\ lock[w] = Null
             /\ lock' = [lock EXCEPT ![w] = s]
             /\ copy' = [copy EXCEPT ![s] = wallets[w]]
             /\ GoTo(s, "insert")
             /\ UNCHANGED <<call, attempt, seen, draft, answer>>
    <3> SUFFICES ASSUME NEW x \in Sessions PROVE (HoldsWallet(x) /\ DraftFits(x))'
      BY <1>11 DEF LocksInv, LockWallet, tables
    <3>1. CASE x = s
      BY <1>11, <2>1, <2>3, <3>1 DEF LockWallet, tables, HoldsWallet, DraftFits, GoTo, TypeInv,
                                     LocksOK, SessionsTypeOK
    <3>2. CASE x # s
      <4>1. pc'[x] = pc[x] /\ copy'[x] = copy[x] /\ UNCHANGED <<wallets, call, draft>>
        BY <1>11, <2>3, <3>2 DEF LockWallet, tables, GoTo, TypeInv, LocksOK, SessionsTypeOK
      <4>2. pc[x] \in LockedSteps => lock'[call[x].payload.wallet] = lock[call[x].payload.wallet]
        BY <2>1, <2>3, <3>2, LockExcludes, HeldWallet DEF TypeInv, LocksOK
      <4> QED BY <4>1, <4>2 DEF LocksInv, HoldsWallet, DraftFits
    <3> QED BY <3>1, <3>2
  <2> QED BY <1>11, <2>2, <2>3 DEF LockWallet, tables
<1>12. CASE InsertPending(s)
  <2>1. CASE GoTo(s, "apply") /\ UNCHANGED <<lock, locals, answer>>
    BY <1>12, <2>1, MoveKeepsLocks DEF InsertPending, tables, locals, Steps, LockedSteps
  <2> QED BY <1>1, <1>3, <1>12, <2>1 DEF InsertPending, tables
<1>13. CASE ApplyRules(s)
  <2>1. Fits(draft'[s], copy[s], call[s].payload.amount)
    BY <1>13, ApplyRulesOK
  <2>2. /\ UNCHANGED <<wallets, ledger, lock, call, copy>>
        /\ pc[s] = "apply" /\ GoTo(s, "flush")
        /\ \A x \in Sessions \ {s} : draft'[x] = draft[x]
    BY <1>13 DEF ApplyRules, tables, TypeInv, LocksOK, SessionsTypeOK
  <2> QED BY <2>1, <2>2 DEF LocksInv, HoldsWallet, DraftFits, GoTo, LockedSteps,
                            TypeInv, LocksOK, SessionsTypeOK
<1>14. CASE FlushInboxConflict(s)
  BY <1>1, <1>3, <1>14 DEF FlushInboxConflict, tables
<1>15. CASE FlushReferenceConflict(s)
  BY <1>1, <1>2, <1>15, FailedOK DEF FlushReferenceConflict, tables, ErrorCodes
<1>16. CASE RereadByKey(s)
  <2>1. CASE GoTo(s, "rereadExt") /\ UNCHANGED <<lock, locals, answer>>
    BY <1>16, <2>1, MoveKeepsLocks DEF RereadByKey, tables, locals, Steps, LockedSteps
  <2> QED BY <1>5, <1>16, <2>1 DEF RereadByKey, tables, RowsWithKey
<1>17. CASE RereadByExternalId(s)
  BY <1>1, <1>5, <1>17, RetryEnds DEF RereadByExternalId, tables, RowsWithExt
<1>18. CASE Contended(s) \/ Crash(s)
  <2>1. NoAnswer \in Answers
    BY DEF NoAnswer, Answers, NoTx, NoBalance
  <2> QED BY <1>1, <1>18, <2>1, RetryEnds DEF Contended, Crash, tables
<1> QED BY <1>6, <1>7, <1>8, <1>9, <1>10, <1>11, <1>12, <1>13, <1>14, <1>15, <1>16, <1>17,
           <1>18 DEF Session, Progress

(* Appending an entry that starts at the last balance keeps the chain.     *)
LEMMA ChainedAppend ==
  ASSUME NEW l \in Seq(Entries), Chained(l), NEW e \in Entries,
         e.before = LastBalance(l), e.after = e.before + Sign(e)
  PROVE  Chained(Append(l, e)) /\ LastBalance(Append(l, e)) = e.after
<1>1. /\ Len(l) \in Nat /\ DOMAIN l = 1 .. Len(l)
      /\ Append(l, e) \in Seq(Entries)
      /\ DOMAIN Append(l, e) = 1 .. Len(l) + 1
      /\ Len(Append(l, e)) = Len(l) + 1
      /\ \A i \in 1 .. Len(l) : Append(l, e)[i] = l[i]
      /\ Append(l, e)[Len(l) + 1] = e
  BY AppendProperties, LenProperties
<1>2. Append(l, e) # << >>
  BY <1>1, EmptySeq
<1>3. LastBalance(Append(l, e)) = e.after
  BY <1>1, <1>2 DEF LastBalance
<1>4. ASSUME NEW i \in 1 .. Len(l) + 1
      PROVE  LET m == Append(l, e) IN
             /\ m[i].before = IF i = 1 THEN 0 ELSE m[i - 1].after
             /\ m[i].after  = m[i].before + Sign(m[i])
  <2>1. CASE i \in 1 .. Len(l)
    BY <1>1, <2>1 DEF Chained
  <2>2. CASE i = Len(l) + 1
    <3>1. l = << >> <=> Len(l) = 0
      BY EmptySeq
    <3>2. LastBalance(l) = IF i = 1 THEN 0 ELSE l[i - 1].after
      BY <1>1, <2>2, <3>1 DEF LastBalance
    <3>3. i # 1 => i - 1 \in 1 .. Len(l) /\ Append(l, e)[i - 1] = l[i - 1]
      <4>1. i # 1 => i - 1 \in 1 .. Len(l)
        BY <1>1, <2>2
      <4> QED BY <1>1, <4>1
    <3>4. Append(l, e)[i] = e
      BY <1>1, <2>2
    <3> QED BY <3>2, <3>3, <3>4
  <2> QED BY <1>1, <2>1, <2>2
<1> QED BY <1>1, <1>3, <1>4 DEF Chained

(* An outcome written to a wallet and its ledger: the wallet it was        *)
(* decided on is the stored one.                                           *)
Writes(w, t, amount, copied, o) ==
  /\ w \in Wallets /\ t \in Nat \ {0} /\ amount \in Nat \ {0}
  /\ o \in Outcomes /\ copied \in WalletRecords /\ copied = wallets[w]
  /\ Fits(o, copied, amount)
  /\ wallets' = [wallets EXCEPT ![w] = o.wallet]
  /\ WriteLedger(w, t, amount, copied.balance, o)

(* It continues the chain of the wallet's ledger.                          *)
LEMMA WritesKeepLedger ==
  ASSUME TypeInv, WalletMatchesLedger, NEW w, NEW t, NEW amount, NEW copied, NEW o,
         Writes(w, t, amount, copied, o)
  PROVE  WalletMatchesLedger'
<1> DEFINE e == Entry(t, o.move, amount, copied.balance, o.wallet.balance)
<1>1. /\ w \in Wallets /\ amount \in Nat \ {0} /\ o \in Outcomes
      /\ copied \in WalletRecords /\ t \in Nat \ {0}
      /\ copied = wallets[w] /\ Fits(o, copied, amount)
      /\ wallets' = [wallets EXCEPT ![w] = o.wallet]
      /\ WriteLedger(w, t, amount, copied.balance, o)
  BY DEF Writes
<1>2. o.wallet \in WalletRecords /\ o.wallet # Null /\ wallets[w] # Null
  BY <1>1, NamesAssumption DEF Outcomes
<1>3. /\ Chained(ledger[w]) /\ wallets[w].balance = LastBalance(ledger[w])
      /\ ledger[w] \in Seq(Entries)
  BY <1>1, <1>2 DEF WalletMatchesLedger, TypeInv, TablesTypeOK
<1>4. Chained(ledger'[w]) /\ wallets'[w].balance = LastBalance(ledger'[w]) /\ wallets'[w] # Null
  <2>1. wallets'[w] = o.wallet
    BY <1>1 DEF TypeInv, TablesTypeOK
  <2>2. CASE o.move = NoMove
    <3>1. o.wallet = copied
      BY <1>1, <2>2 DEF Fits, NoMove, Directions
    <3>2. ledger' = ledger
      BY <1>1, <2>2 DEF WriteLedger
    <3> QED BY <1>1, <1>2, <1>3, <2>1, <3>1, <3>2
  <2>3. CASE o.move # NoMove
    <3>1. e \in Entries
      BY <1>1, <2>3 DEF Entry, Entries, Outcomes, WalletRecords
    <3>2. e.before = LastBalance(ledger[w]) /\ e.after = o.wallet.balance
      BY <1>1, <1>3 DEF Entry
    <3>3. e.after = e.before + Sign(e)
      BY <1>1, <2>3 DEF Fits, Entry, Sign
    <3>4. ledger'[w] = Append(ledger[w], e)
      BY <1>1, <2>3 DEF WriteLedger, TypeInv, TablesTypeOK
    <3> HIDE DEF e
    <3>5. Chained(Append(ledger[w], e)) /\ LastBalance(Append(ledger[w], e)) = e.after
      BY <1>3, <3>1, <3>2, <3>3, ChainedAppend
    <3> QED BY <1>2, <2>1, <3>2, <3>4, <3>5
  <2> QED BY <2>2, <2>3
<1>5. ASSUME NEW v \in Wallets, v # w
      PROVE  wallets'[v] = wallets[v] /\ ledger'[v] = ledger[v]
  BY <1>1, <1>5 DEF WriteLedger, TypeInv, TablesTypeOK
<1> SUFFICES ASSUME NEW v \in Wallets
             PROVE  /\ Chained(ledger'[v])
                    /\ wallets'[v] = Null => ledger'[v] = << >>
                    /\ wallets'[v] # Null => wallets'[v].balance = LastBalance(ledger'[v])
  BY DEF WalletMatchesLedger, Chained, LastBalance
<1>6. CASE v = w
  BY <1>4, <1>6
<1>7. CASE v # w
  BY <1>5, <1>7 DEF WalletMatchesLedger
<1> QED BY <1>6, <1>7

(* A commit replaces the wallet its session holds and continues its ledger *)
(* from the balance the session copied.                                    *)
LEMMA CommitWrites ==
  ASSUME TypeInv, LocksInv, NEW s \in Sessions, Commit(s)
  PROVE  Writes(call[s].payload.wallet, Len(txns) + 1, call[s].payload.amount, copy[s], draft[s])
<1>1. lock[call[s].payload.wallet] = s /\ copy[s] = wallets[call[s].payload.wallet]
      /\ Fits(draft[s], copy[s], call[s].payload.amount)
  BY DEF Commit, LocksInv, HoldsWallet, DraftFits, LockedSteps
<1> QED BY <1>1, CommitFinds DEF Commit, Writes

LEMMA CommitKeepsLedger ==
  ASSUME LedgerInv, NEW s \in Sessions, Commit(s)
  PROVE  LocksInv' /\ WalletMatchesLedger'
<1> DEFINE w == call[s].payload.wallet
           o == draft[s]
           t == Len(txns) + 1
<1>1. /\ call[s] \in Calls /\ w \in Wallets /\ o \in Outcomes /\ t \in Nat
      /\ call[s].key \in Keys /\ call[s].payload \in OperationPayloads
  BY CommitFinds DEF Commit, LedgerInv
<1>2. Output(call[s], t, Row(call[s].key, call[s].payload, Relink(o, Own, t)), FALSE) \in Answers
  BY <1>1, RowOK, OutputOK
<1>3. \E a \in Answers : Finish(s, a)
  BY <1>2 DEF Commit
<1>4. lock[w] = s /\ wallets' = [wallets EXCEPT ![w] = o.wallet]
  BY DEF Commit, LedgerInv, LocksInv, HoldsWallet, LockedSteps
<1>5. \A v \in Wallets : lock[v] # s => wallets'[v] = wallets[v]
  BY <1>1, <1>4 DEF LedgerInv, TypeInv, TablesTypeOK
<1>6. LocksInv'
  BY <1>3, <1>5, EndKeepsLocks DEF LedgerInv
<1> QED BY <1>6, CommitWrites, WritesKeepLedger DEF LedgerInv

(* A new wallet starts its ledger with its opening balance.                *)
LEMMA CreateWalletKeepsLedger ==
  ASSUME LedgerInv, NEW w \in Wallets, NEW player \in Players,
         NEW currency \in Currencies, NEW amount \in Openings,
         CreateWallet(w, player, currency, amount)
  PROVE  LocksInv' /\ WalletMatchesLedger'
<1> DEFINE wal == [player |-> player, currency |-> currency, balance |-> amount, version |-> 1]
           e   == Entry(Len(txns) + 1, "CREDIT", amount, 0, amount)
<1>1. amount \in Nat /\ Len(txns) \in Nat
  BY CallsAssumption, LenProperties DEF LedgerInv, TypeInv, LocksOK, TablesTypeOK
<1>2. wallets[w] = Null /\ ledger[w] = << >> /\ wallets' = [wallets EXCEPT ![w] = wal]
  BY DEF CreateWallet, LedgerInv, WalletMatchesLedger
<1>3. wallets'[w] = wal /\ wal # Null /\ \A v \in Wallets \ {w} : wallets'[v] = wallets[v]
  <2>1. wal \in WalletRecords
    BY <1>1 DEF WalletRecords
  <2> QED BY <1>2, <2>1, NamesAssumption DEF LedgerInv, TypeInv, LocksOK, TablesTypeOK
<1>4. LocksInv'
  <2>1. UNCHANGED <<lock, pc, call, copy, draft>>
    BY DEF CreateWallet, locals
  <2>2. ASSUME NEW x \in Sessions, pc[x] \in LockedSteps
        PROVE  /\ call[x].payload.wallet \in Wallets
               /\ call[x].payload.wallet # w
    BY <1>2, <2>2, HeldWallet DEF LedgerInv, LocksInv, HoldsWallet, TypeInv, SessionOK
  <2> QED BY <1>3, <2>1, <2>2 DEF LedgerInv, LocksInv, HoldsWallet, DraftFits
<1>5. Chained(ledger'[w]) /\ amount = LastBalance(ledger'[w])
  <2>1. CASE amount = 0 /\ ledger' = ledger
    BY <1>2, <2>1 DEF LedgerInv, WalletMatchesLedger, LastBalance
  <2>2. CASE amount # 0 /\ ledger' = [ledger EXCEPT ![w] = Append(@, e)]
    <3>1. e \in Entries /\ e.before = 0 /\ e.after = amount /\ Sign(e) = amount
      BY <1>1, <2>2 DEF Entry, Entries, Directions, Sign
    <3>2. ledger'[w] = Append(ledger[w], e) /\ ledger[w] \in Seq(Entries)
      BY <2>2 DEF LedgerInv, TypeInv, LocksOK, TablesTypeOK
    <3>3. Chained(ledger[w]) /\ LastBalance(ledger[w]) = 0
      BY <1>2 DEF LedgerInv, WalletMatchesLedger, LastBalance
    <3> HIDE DEF e
    <3>4. Chained(Append(ledger[w], e)) /\ LastBalance(Append(ledger[w], e)) = e.after
      BY <1>1, <3>1, <3>2, <3>3, ChainedAppend
    <3> QED BY <3>1, <3>2, <3>4
  <2> QED BY <2>1, <2>2 DEF CreateWallet
<1>6. \A v \in Wallets \ {w} : ledger'[v] = ledger[v]
  BY DEF CreateWallet, LedgerInv, TypeInv, LocksOK, TablesTypeOK
<1>7. WalletMatchesLedger'
  <2> SUFFICES ASSUME NEW v \in Wallets
               PROVE  /\ Chained(ledger'[v])
                      /\ wallets'[v] = Null => ledger'[v] = << >>
                      /\ wallets'[v] # Null => wallets'[v].balance = LastBalance(ledger'[v])
    BY DEF WalletMatchesLedger, Chained, LastBalance
  <2>1. CASE v = w
    BY <1>3, <1>5, <2>1
  <2>2. CASE v # w
    BY <1>3, <1>6, <2>2 DEF LedgerInv, WalletMatchesLedger
  <2> QED BY <2>1, <2>2
<1> QED BY <1>4, <1>7

LEMMA LedgerStep ==
  ASSUME LedgerInv, [Next]_vars
  PROVE  LedgerInv'
<1>1. TypeInv'
  BY NextOK DEF LedgerInv
<1>2. CASE UNCHANGED vars
  BY <1>1, <1>2 DEF LedgerInv, LocksInv, HoldsWallet, DraftFits, WalletMatchesLedger, Chained,
                    LastBalance, vars, tables, locals
<1>3. ASSUME NEW w \in Wallets, NEW player \in Players, NEW currency \in Currencies,
             NEW amount \in Openings, CreateWallet(w, player, currency, amount)
      PROVE  LocksInv' /\ WalletMatchesLedger'
  BY <1>3, CreateWalletKeepsLedger
<1>4. ASSUME NEW s \in Sessions, Session(s), ~Commit(s)
      PROVE  LocksInv' /\ WalletMatchesLedger'
  <2>1. LocksInv' /\ UNCHANGED <<wallets, ledger>>
    BY <1>4, SessionKeepsLocks DEF LedgerInv
  <2> QED BY <2>1 DEF LedgerInv, WalletMatchesLedger, Chained, LastBalance
<1>5. ASSUME NEW s \in Sessions, Commit(s) PROVE LocksInv' /\ WalletMatchesLedger'
  BY <1>5, CommitKeepsLedger
<1> QED BY <1>1, <1>2, <1>3, <1>4, <1>5 DEF Next, LedgerInv

LEMMA LedgerInit ==
  ASSUME Init
  PROVE  LedgerInv
<1>1. LocksInv
  BY DEF Init, LocksInv, HoldsWallet, DraftFits, LockedSteps
<1>2. WalletMatchesLedger
  BY DEF Init, WalletMatchesLedger, Chained
<1> QED BY <1>1, <1>2, InitOK DEF LedgerInv

LEMMA LedgerInvHolds == Spec => []LedgerInv
BY LedgerInit, LedgerStep, PTL DEF Spec

(* No interleaving of any number of sessions loses an update: every        *)
(* wallet's ledger is an unbroken chain from zero to its balance.          *)
THEOREM WalletLedgerAgreement == Spec => []WalletMatchesLedger
<1>1. LedgerInv => WalletMatchesLedger
  BY DEF LedgerInv
<1> QED BY <1>1, LedgerInvHolds, PTL

(* A session reaches its flush by the rules alone, and a step of another   *)
(* session does not disturb what it decided.                               *)
LEMMA OnlyRulesDecide ==
  ASSUME TypeInv, NEW s \in Sessions, Session(s), NEW x \in Sessions, pc'[x] = "flush"
  PROVE  \/ x = s /\ ApplyRules(s)
         \/ /\ pc[x] = "flush"
            /\ draft'[x] = draft[x] /\ copy'[x] = copy[x] /\ call'[x] = call[x]
<1> USE DEF TypeInv, LocksOK, SessionsTypeOK
<1>1. ASSUME NEW step \in Steps \ {"flush"}, GoTo(s, step),
             \A y \in Sessions \ {s} :
               draft'[y] = draft[y] /\ copy'[y] = copy[y] /\ call'[y] = call[y]
      PROVE  /\ pc[x] = "flush"
             /\ draft'[x] = draft[x] /\ copy'[x] = copy[x] /\ call'[x] = call[x]
  BY <1>1 DEF GoTo
<1>2. ASSUME NEW a, Finish(s, a)
      PROVE  /\ pc[x] = "flush"
             /\ draft'[x] = draft[x] /\ copy'[x] = copy[x] /\ call'[x] = call[x]
  BY <1>1, <1>2 DEF Finish, Steps
<1>3. ASSUME NEW step \in Steps \ {"flush"}, NEW n, Rollback(s, step, n)
      PROVE  /\ pc[x] = "flush"
             /\ draft'[x] = draft[x] /\ copy'[x] = copy[x] /\ call'[x] = call[x]
  BY <1>1, <1>3 DEF Rollback
<1>4. ASSUME pc[s] # "idle", Retry(s)
      PROVE  /\ pc[x] = "flush"
             /\ draft'[x] = draft[x] /\ copy'[x] = copy[x] /\ call'[x] = call[x]
  <2>1. FirstStep(call[s]) \in Steps \ {"flush"}
    BY DEF FirstStep, Steps
  <2> QED BY <1>2, <1>3, <1>4, <2>1 DEF Retry
<1>5. ASSUME NEW c \in Calls, Execute(s, c)
      PROVE  /\ pc[x] = "flush"
             /\ draft'[x] = draft[x] /\ copy'[x] = copy[x] /\ call'[x] = call[x]
  BY <1>1, <1>5 DEF Execute, FirstStep, Steps
<1>6. CASE CheckInbox(s)
  BY <1>1, <1>2, <1>6 DEF CheckInbox, Steps
<1>7. CASE FindByKey(s) \/ FindByExternalId(s)
  BY <1>1, <1>2, <1>7 DEF FindByKey, FindByExternalId, Existing, Steps, locals
<1>8. CASE StageInbox(s) \/ FlushInboxConflict(s) \/ FlushReferenceConflict(s)
  BY <1>2, <1>3, <1>8 DEF StageInbox, FlushInboxConflict, FlushReferenceConflict, Steps
<1>9. CASE LockWallet(s)
  BY <1>1, <1>2, <1>9 DEF LockWallet, Steps
<1>10. CASE InsertPending(s)
  BY <1>1, <1>3, <1>10 DEF InsertPending, Steps, locals
<1>11. CASE ApplyRules(s)
  BY <1>11 DEF ApplyRules, GoTo
<1>12. CASE Commit(s)
  BY <1>2, <1>12 DEF Commit
<1>13. CASE RereadByKey(s) \/ RereadByExternalId(s)
  BY <1>1, <1>2, <1>4, <1>13 DEF RereadByKey, RereadByExternalId, Winner, Steps, locals
<1>14. CASE Contended(s) \/ Crash(s)
  BY <1>2, <1>4, <1>14 DEF Contended, Crash
<1> QED BY <1>5, <1>6, <1>7, <1>8, <1>9, <1>10, <1>11, <1>12, <1>13, <1>14
        DEF Session, Progress

-------------------------------------------------------------------------------
(* At most one row per operation                                           *)

(* The statements after a session's INSERT and before its COMMIT.          *)
WritingSteps == {"apply", "flush"}

(* A writing session's row collides with no committed row and with no      *)
(* other writing session's row.                                            *)
WritersInv ==
  \A s \in Sessions :
    pc[s] \in WritingSteps =>
      /\ ~Duplicate(call[s])
      /\ \A x \in Sessions \ {s} :
           pc[x] \in WritingSteps => ~Collides(call[s], call[x])

(* A row is a client's, or the opening of the wallet that is its key.      *)
FromClient(row)  == row.key \in Keys /\ row.payload \in OperationPayloads
FromOpening(row) == /\ row.key \in Wallets /\ wallets[row.key] # Null
                    /\ row.payload = OpeningPayload(row.key)
RowOrigins == \A i \in DOMAIN txns : FromClient(txns[i]) \/ FromOpening(txns[i])

UniqueInv == LedgerInv /\ WritersInv /\ RowOrigins /\ OneRowPerOperation

(* A session writes only after an INSERT that met no duplicate, and its    *)
(* step moves no other session.                                            *)
LEMMA WritersEnter ==
  ASSUME TypeInv, NEW s \in Sessions, Session(s)
  PROVE  /\ \A x \in Sessions \ {s} : pc'[x] = pc[x] /\ call'[x] = call[x]
         /\ pc'[s] \in WritingSteps =>
              /\ call'[s] = call[s]
              /\ pc[s] \in WritingSteps \/ (~InsertBlocked(s) /\ ~Duplicate(call[s]))
         /\ ~Commit(s) => txns' = txns
<1> USE DEF TypeInv, LocksOK, SessionsTypeOK, Finish, Rollback, GoTo, WritingSteps, tables, locals
<1>1. ASSUME Retry(s)
      PROVE  /\ \A x \in Sessions \ {s} : pc'[x] = pc[x] /\ call'[x] = call[x]
             /\ pc'[s] \notin WritingSteps
  BY <1>1 DEF Retry, FirstStep
<1>2. ASSUME NEW c \in Calls, Execute(s, c)
      PROVE  /\ \A x \in Sessions \ {s} : pc'[x] = pc[x] /\ call'[x] = call[x]
             /\ pc'[s] \notin WritingSteps
             /\ txns' = txns
  BY <1>2 DEF Execute, FirstStep
<1>3. CASE CheckInbox(s) \/ StageInbox(s)
  BY <1>3 DEF CheckInbox, StageInbox
<1>4. CASE FindByKey(s) \/ FindByExternalId(s)
  BY <1>4 DEF FindByKey, FindByExternalId, Existing
<1>5. CASE LockWallet(s)
  BY <1>5 DEF LockWallet
<1>6. CASE InsertPending(s)
  BY <1>6 DEF InsertPending
<1>7. CASE ApplyRules(s)
  BY <1>7 DEF ApplyRules
<1>8. CASE FlushInboxConflict(s) \/ FlushReferenceConflict(s)
  BY <1>8 DEF FlushInboxConflict, FlushReferenceConflict
<1>9. CASE Commit(s)
  BY <1>9 DEF Commit
<1>10. CASE RereadByKey(s)
  BY <1>10 DEF RereadByKey, Winner
<1>11. CASE RereadByExternalId(s)
  BY <1>1, <1>11 DEF RereadByExternalId, Winner
<1>12. CASE Contended(s) \/ Crash(s)
  BY <1>1, <1>12 DEF Contended, Crash
<1> QED BY <1>2, <1>3, <1>4, <1>5, <1>6, <1>7, <1>8, <1>9, <1>10, <1>11, <1>12
        DEF Session, Progress

(* Two rows of different origin or of different sessions differ.           *)
Distinct(a, b) ==
  /\ a.key # b.key
  /\ a.payload.provider # b.payload.provider \/ a.payload.ext # b.payload.ext

(* Appending a row distinct from all others keeps them distinct.           *)
LEMMA AppendDistinct ==
  ASSUME TypeInv, OneRowPerOperation, NEW row, txns' = Append(txns, row), row \in Rows,
         \A i \in DOMAIN txns : Distinct(txns[i], row)
  PROVE  OneRowPerOperation'
<1>1. /\ DOMAIN txns = 1 .. Len(txns) /\ DOMAIN txns' = 1 .. Len(txns) + 1
      /\ Len(txns) \in Nat
      /\ \A i \in DOMAIN txns : txns'[i] = txns[i]
      /\ txns'[Len(txns) + 1] = row
  BY AppendProperties, LenProperties DEF TypeInv, LocksOK, TablesTypeOK
<1> SUFFICES ASSUME NEW i \in DOMAIN txns', NEW j \in DOMAIN txns', i # j
             PROVE  Distinct(txns'[i], txns'[j])
  BY DEF OneRowPerOperation, Distinct
<1>2. i \in DOMAIN txns \/ j \in DOMAIN txns
  BY <1>1
<1>3. CASE i \in DOMAIN txns /\ j \in DOMAIN txns
  BY <1>1, <1>3 DEF OneRowPerOperation, Distinct
<1>4. CASE i \notin DOMAIN txns \/ j \notin DOMAIN txns
  BY <1>1, <1>2, <1>4 DEF Distinct
<1> QED BY <1>3, <1>4

LEMMA CommitKeepsUnique ==
  ASSUME UniqueInv, NEW s \in Sessions, Commit(s)
  PROVE  (WritersInv /\ RowOrigins /\ OneRowPerOperation)'
<1> DEFINE c == call[s]
           t == Len(txns) + 1
           row == Row(c.key, c.payload, Relink(draft[s], Own, t))
<1>1. /\ c.key \in Keys /\ c.payload \in OperationPayloads /\ c.payload.wallet \in Wallets
      /\ draft[s] \in Outcomes /\ t \in Nat
  BY CommitFinds DEF Commit, UniqueInv, LedgerInv
<1>2. txns' = Append(txns, row) /\ row \in Rows /\ row.key = c.key /\ row.payload = c.payload
  BY <1>1, RowOK DEF Commit, Row
<1> HIDE DEF row
<1>3. ~Duplicate(c) /\ \A x \in Sessions \ {s} : pc[x] \in WritingSteps => ~Collides(c, call[x])
  BY DEF Commit, UniqueInv, WritersInv, WritingSteps
<1>4. /\ DOMAIN txns = 1 .. Len(txns) /\ DOMAIN txns' = 1 .. Len(txns) + 1
      /\ Len(txns) \in Nat
      /\ \A i \in DOMAIN txns : txns'[i] = txns[i]
      /\ txns'[t] = row
  BY <1>2, AppendProperties, LenProperties DEF UniqueInv, LedgerInv, TypeInv, LocksOK, TablesTypeOK
<1>5. OneRowPerOperation'
  <2>1. \A i \in DOMAIN txns : Distinct(txns[i], row)
    BY <1>2, <1>3 DEF Distinct, Duplicate, RowsWithKey, RowsWithExt
  <2> QED BY <1>2, <2>1, AppendDistinct DEF UniqueInv, LedgerInv
<1>6. RowOrigins'
  <2>1. wallets' = [wallets EXCEPT ![c.payload.wallet] = draft[s].wallet]
    BY DEF Commit
  <2>2. draft[s].wallet # Null
    BY <1>1, NamesAssumption DEF Outcomes
  <2>3. \A v \in Wallets : wallets[v] # Null => wallets'[v] # Null
    BY <2>1, <2>2 DEF UniqueInv, LedgerInv, TypeInv, LocksOK, TablesTypeOK
  <2>4. ASSUME NEW i \in DOMAIN txns PROVE (FromClient(txns[i]) \/ FromOpening(txns[i]))'
    BY <1>4, <2>3, <2>4 DEF UniqueInv, RowOrigins, FromClient, FromOpening
  <2>5. FromClient(txns'[t])
    BY <1>1, <1>2, <1>4 DEF FromClient
  <2> QED BY <1>4, <2>4, <2>5 DEF RowOrigins, FromClient, FromOpening
<1>7. WritersInv'
  <2>1. pc' = [pc EXCEPT ![s] = "idle"] /\ call' = [call EXCEPT ![s] = Null]
    BY DEF Commit, Finish, GoTo
  <2>2. ASSUME NEW x \in Sessions, x # s, pc[x] \in WritingSteps PROVE ~Duplicate(call[x])'
    <3>1. call'[x] = call[x] /\ ~Duplicate(call[x]) /\ ~Collides(c, call[x])
      BY <1>3, <2>1, <2>2 DEF UniqueInv, WritersInv, LedgerInv, TypeInv, LocksOK, SessionsTypeOK
    <3> QED BY <1>2, <1>4, <3>1 DEF Duplicate, RowsWithKey, RowsWithExt, Collides
  <2> QED BY <2>1, <2>2 DEF UniqueInv, WritersInv, WritingSteps, LedgerInv, TypeInv, LocksOK,
                            SessionsTypeOK
<1> QED BY <1>5, <1>6, <1>7

LEMMA CreateWalletKeepsUnique ==
  ASSUME UniqueInv, NEW w \in Wallets, NEW player \in Players,
         NEW currency \in Currencies, NEW amount \in Openings,
         CreateWallet(w, player, currency, amount)
  PROVE  (WritersInv /\ RowOrigins /\ OneRowPerOperation)'
<1>1. wallets[w] = Null /\ UNCHANGED <<pc, call>>
  BY DEF CreateWallet, locals
<1>2. wallets'[w] # Null /\ \A v \in Wallets \ {w} : wallets'[v] = wallets[v]
  <2> DEFINE wal == [player |-> player, currency |-> currency, balance |-> amount, version |-> 1]
  <2>1. wal \in WalletRecords
    BY CallsAssumption DEF WalletRecords
  <2>2. wallets' = [wallets EXCEPT ![w] = wal]
    BY DEF CreateWallet
  <2> QED BY <2>1, <2>2, NamesAssumption DEF UniqueInv, LedgerInv, TypeInv, LocksOK, TablesTypeOK
<1>3. \A v \in Wallets : wallets[v] # Null => wallets'[v] # Null
  BY <1>2
<1>4. CASE txns' = txns
  BY <1>1, <1>2, <1>4 DEF UniqueInv, RowOrigins, FromClient, FromOpening, WritersInv, Duplicate,
     RowsWithKey, RowsWithExt, OneRowPerOperation
<1>5. CASE txns' = Append(txns, OpeningRow(w))
  <2>1. OpeningRow(w) \in Rows /\ OpeningRow(w).key = w /\ OpeningRow(w).payload = OpeningPayload(w)
    BY DEF OpeningRow, Row, Rows, Payloads, Statuses, NoTx, NoBalance
  <2>2. OpeningPayload(w).provider = Internal /\ OpeningPayload(w).ext = w
    BY DEF OpeningPayload
  <2>3. /\ DOMAIN txns = 1 .. Len(txns) /\ DOMAIN txns' = 1 .. Len(txns) + 1
        /\ Len(txns) \in Nat
        /\ \A i \in DOMAIN txns : txns'[i] = txns[i]
        /\ txns'[Len(txns) + 1] = OpeningRow(w)
    BY <1>5, <2>1, AppendProperties, LenProperties
       DEF UniqueInv, LedgerInv, TypeInv, LocksOK, TablesTypeOK
  <2>4. ASSUME NEW i \in DOMAIN txns PROVE Distinct(txns[i], OpeningRow(w))
    <3>1. CASE FromClient(txns[i])
      BY <2>1, <2>2, <3>1, NamesAssumption DEF Distinct, FromClient, OperationPayloads
    <3>2. CASE FromOpening(txns[i])
      BY <1>1, <2>1, <2>2, <3>2 DEF Distinct, FromOpening, OpeningPayload
    <3> QED BY <3>1, <3>2 DEF UniqueInv, RowOrigins
  <2>5. OneRowPerOperation'
    BY <1>5, <2>1, <2>4, AppendDistinct DEF UniqueInv, LedgerInv
  <2>6. RowOrigins'
    <3>1. ASSUME NEW i \in DOMAIN txns PROVE (FromClient(txns[i]) \/ FromOpening(txns[i]))'
      BY <1>3, <2>3, <3>1 DEF UniqueInv, RowOrigins, FromClient, FromOpening
    <3>2. FromOpening(OpeningRow(w))'
      BY <1>2, <2>1 DEF FromOpening, OpeningRow, OpeningPayload, Row
    <3> QED BY <2>3, <3>1, <3>2 DEF RowOrigins, FromClient, FromOpening
  <2>7. WritersInv'
    <3>1. ASSUME NEW x \in Sessions, pc[x] \in WritingSteps PROVE ~Duplicate(call[x])'
      <4>1. call[x].key \in Keys /\ call[x].payload.provider \in Providers
        BY <3>1, CallsAssumption
           DEF UniqueInv, LedgerInv, TypeInv, SessionOK, WritingSteps, OperationPayloads
      <4>2. ~Duplicate(call[x])
        BY <3>1 DEF UniqueInv, WritersInv
      <4> QED BY <1>1, <2>1, <2>2, <2>3, <4>1, <4>2, NamesAssumption
              DEF Duplicate, RowsWithKey, RowsWithExt
    <3> QED BY <1>1, <3>1 DEF UniqueInv, WritersInv
  <2> QED BY <2>5, <2>6, <2>7
<1> QED BY <1>4, <1>5 DEF CreateWallet

LEMMA UniqueInit ==
  ASSUME Init
  PROVE  UniqueInv
BY LedgerInit
   DEF UniqueInv, Init, WritersInv, WritingSteps, RowOrigins, OneRowPerOperation

LEMMA UniqueStep ==
  ASSUME UniqueInv, [Next]_vars
  PROVE  UniqueInv'
<1>0. LedgerInv'
  BY LedgerStep DEF UniqueInv
<1> SUFFICES (WritersInv /\ RowOrigins /\ OneRowPerOperation)'
  BY <1>0 DEF UniqueInv
<1>1. CASE UNCHANGED vars
  BY <1>1 DEF UniqueInv, WritersInv, RowOrigins, FromClient, FromOpening, OneRowPerOperation,
              Duplicate, RowsWithKey, RowsWithExt, vars, tables, locals
<1>2. ASSUME NEW w \in Wallets, NEW player \in Players, NEW currency \in Currencies,
             NEW amount \in Openings, CreateWallet(w, player, currency, amount)
      PROVE  (WritersInv /\ RowOrigins /\ OneRowPerOperation)'
  BY <1>2, CreateWalletKeepsUnique
<1>3. ASSUME NEW s \in Sessions, Session(s), ~Commit(s)
      PROVE  (WritersInv /\ RowOrigins /\ OneRowPerOperation)'
  <2>1. UNCHANGED <<wallets, txns>>
    BY <1>3, SessionKeepsLocks, WritersEnter DEF UniqueInv, LedgerInv
  <2>2. (RowOrigins /\ OneRowPerOperation)'
    BY <2>1 DEF UniqueInv, RowOrigins, FromClient, FromOpening, OneRowPerOperation
  <2>3. /\ \A x \in Sessions \ {s} : pc'[x] = pc[x] /\ call'[x] = call[x]
        /\ pc'[s] \in WritingSteps =>
             /\ call'[s] = call[s]
             /\ pc[s] \in WritingSteps \/ (~InsertBlocked(s) /\ ~Duplicate(call[s]))
    BY <1>3, WritersEnter DEF UniqueInv, LedgerInv
  <2>4. \A x, y \in Sessions : Collides(call[x], call[y]) => Collides(call[y], call[x])
    BY DEF Collides
  <2>5. ASSUME NEW x \in Sessions, pc'[x] \in WritingSteps
        PROVE  /\ call'[x] = call[x] /\ ~Duplicate(call[x])
               /\ \A y \in Sessions \ {x} : pc'[y] \in WritingSteps =>
                    call'[y] = call[y] /\ ~Collides(call[x], call[y])
    BY <2>3, <2>4, <2>5 DEF UniqueInv, WritersInv, InsertBlocked, WritingSteps
  <2> QED BY <2>1, <2>2, <2>5 DEF WritersInv, Duplicate, RowsWithKey, RowsWithExt
<1>4. ASSUME NEW s \in Sessions, Commit(s)
      PROVE  (WritersInv /\ RowOrigins /\ OneRowPerOperation)'
  BY <1>4, CommitKeepsUnique
<1> QED BY <1>1, <1>2, <1>3, <1>4 DEF Next

LEMMA UniqueInvHolds == Spec => []UniqueInv
BY UniqueInit, UniqueStep, PTL DEF Spec

(* An operation never runs twice: whatever keys, messages and channels it  *)
(* comes by and however the sessions interleave, one row stands for it.    *)
THEOREM OperationsRunOnce == Spec => []OneRowPerOperation
<1>1. UniqueInv => OneRowPerOperation
  BY DEF UniqueInv
<1> QED BY <1>1, UniqueInvHolds, PTL

-------------------------------------------------------------------------------
(* Answers and messages                                                    *)

(* A session that will stage its inbox row has found the transaction.      *)
StagedInv ==
  \A s \in Sessions :
    pc[s] = "stage" => \E t \in DOMAIN txns : txns[t].payload = call[s].payload

DeliveryInv == TypeInv /\ AnswersAreDurable /\ StagedInv /\ InboxHasTransaction

(* The row i is the stored result of the call of s.                        *)
Stored(s, a) ==
  \E i \in DOMAIN txns, replay \in BOOLEAN :
    a = Output(call[s], i, txns[i], replay) /\ txns[i].payload = call[s].payload

(* The error a holds no result, and a conflict it names is in the tables.  *)
Refusal(a) ==
  /\ a.tx = NoTx
  /\ a.code = "IDEMPOTENCY_CONFLICT" => Contradicted(a.call)
  /\ a.code = "MESSAGE_PERMANENT_FAILURE" => Misaddressed(a.call)

(* Committed rows never change and never disappear.                        *)
LEMMA RowsAreKept ==
  ASSUME TypeInv, [Next]_vars
  PROVE  \A i \in DOMAIN txns : i \in DOMAIN txns' /\ txns'[i] = txns[i]
<1>1. ASSUME NEW row, row \in Rows, txns' = Append(txns, row)
      PROVE  \A i \in DOMAIN txns : i \in DOMAIN txns' /\ txns'[i] = txns[i]
  BY <1>1, AppendProperties, LenProperties DEF TypeInv, LocksOK, TablesTypeOK
<1>2. CASE UNCHANGED vars
  BY <1>2 DEF vars, tables
<1>3. ASSUME NEW w \in Wallets, NEW player \in Players, NEW currency \in Currencies,
             NEW amount \in Openings, CreateWallet(w, player, currency, amount)
      PROVE  \A i \in DOMAIN txns : i \in DOMAIN txns' /\ txns'[i] = txns[i]
  <2>1. OpeningRow(w) \in Rows
    BY DEF OpeningRow, Row, Rows, Payloads, Statuses, NoTx, NoBalance
  <2> QED BY <1>1, <1>3, <2>1 DEF CreateWallet
<1>4. ASSUME NEW s \in Sessions, Session(s)
      PROVE  \A i \in DOMAIN txns : i \in DOMAIN txns' /\ txns'[i] = txns[i]
  <2>1. CASE Commit(s)
    <3>1. Row(call[s].key, call[s].payload, Relink(draft[s], Own, Len(txns) + 1)) \in Rows
      BY <2>1, CommitAppends
    <3> QED BY <1>1, <2>1, <3>1 DEF Commit
  <2>2. CASE ~Commit(s)
    BY <1>4, <2>2, WritersEnter
  <2> QED BY <2>1, <2>2
<1> QED BY <1>2, <1>3, <1>4 DEF Next

(* What a session's step answers: what it had, an error, or a stored row.  *)
LEMMA AnswersStep ==
  ASSUME TypeInv, NEW s \in Sessions, Session(s), ~Commit(s)
  PROVE  /\ \A x \in Sessions \ {s} : answer'[x] = answer[x]
         /\ \/ answer'[s] = answer[s] \/ Stored(s, answer'[s])
            \/ \E a : Refusal(a) /\ answer'[s] = a
         /\ pc'[s] = "stage" =>
              call'[s] = call[s] /\ \E t \in DOMAIN txns : txns[t].payload = call[s].payload
<1> USE DEF TypeInv, LocksOK, SessionsTypeOK, Finish, Rollback, GoTo, tables, locals
<1> DEFINE Refused == \E a : Refusal(a) /\ answer'[s] = a
<1>0. ASSUME NEW a, Finish(s, a)
      PROVE  /\ \A x \in Sessions \ {s} : answer'[x] = answer[x]
             /\ answer'[s] = a /\ pc'[s] # "stage"
  BY <1>0
<1>1. ASSUME NEW a, Refusal(a), Finish(s, a)
      PROVE  /\ \A x \in Sessions \ {s} : answer'[x] = answer[x]
             /\ Refused /\ pc'[s] # "stage"
  BY <1>0, <1>1
<1>e. /\ Refusal(Failed(call[s], "DEPENDENCY_UNAVAILABLE"))
      /\ Refusal(Failed(call[s], "WALLET_NOT_FOUND"))
      /\ Refusal(Failed(call[s], "REFERENCE_ALREADY_REVERSED"))
      /\ Contradicted(call[s]) => Refusal(Failed(call[s], "IDEMPOTENCY_CONFLICT"))
      /\ Misaddressed(call[s]) => Refusal(Failed(call[s], "MESSAGE_PERMANENT_FAILURE"))
  BY DEF Refusal, Failed, NoAnswer
<1>2. ASSUME Retry(s)
      PROVE  /\ \A x \in Sessions \ {s} : answer'[x] = answer[x]
             /\ answer'[s] = answer[s] \/ Refused
             /\ pc'[s] # "stage"
  <2>1. CASE Finish(s, Failed(call[s], "DEPENDENCY_UNAVAILABLE"))
    BY <1>1, <1>e, <2>1
  <2>2. CASE ~Finish(s, Failed(call[s], "DEPENDENCY_UNAVAILABLE"))
    BY <1>2, <2>2 DEF Retry, FirstStep
  <2> QED BY <2>1, <2>2
<1>3. ASSUME NEW c \in Calls, Execute(s, c)
      PROVE  UNCHANGED answer /\ pc'[s] # "stage"
  BY <1>3 DEF Execute, FirstStep
<1> DEFINE Answered ==
      /\ \A x \in Sessions \ {s} : answer'[x] = answer[x]
      /\ answer'[s] = answer[s] \/ Stored(s, answer'[s]) \/ Refused
      /\ pc'[s] = "stage" =>
           call'[s] = call[s] /\ \E t \in DOMAIN txns : txns[t].payload = call[s].payload
<1>4. CASE CheckInbox(s)
  <2>1. CASE Finish(s, Failed(call[s], "MESSAGE_PERMANENT_FAILURE"))
    <3>1. Misaddressed(call[s])
      BY <1>4, <2>1 DEF CheckInbox, Misaddressed
    <3> QED BY <1>1, <1>e, <2>1, <3>1
  <2>2. CASE ~Finish(s, Failed(call[s], "MESSAGE_PERMANENT_FAILURE"))
    BY <1>4, <2>2 DEF CheckInbox
  <2> QED BY <2>1, <2>2
<1>5. ASSUME NEW i \in DOMAIN txns, Existing(s, i) \/ Winner(s, i),
             i \in RowsWithKey(call[s].key) \/ i \in RowsWithExt(call[s].payload)
      PROVE  Answered
  <2>1. txns[i].payload = call[s].payload => Stored(s, Output(call[s], i, txns[i], TRUE))
    BY DEF Stored
  <2>2. CASE /\ txns[i].payload # call[s].payload
             /\ Finish(s, Failed(call[s], "IDEMPOTENCY_CONFLICT"))
    <3>1. Contradicted(call[s])
      BY <1>5, <2>2 DEF Contradicted, RowsWithKey, RowsWithExt
    <3> QED BY <1>1, <1>e, <2>2, <3>1
  <2>3. CASE /\ txns[i].payload = call[s].payload
             /\ Finish(s, Output(call[s], i, txns[i], TRUE))
    BY <1>0, <2>1, <2>3
  <2>4. CASE /\ txns[i].payload = call[s].payload
             /\ answer' = [answer EXCEPT ![s] = Output(call[s], i, txns[i], TRUE)]
             /\ UNCHANGED locals
    BY <2>1, <2>4
  <2> QED BY <1>5, <2>2, <2>3, <2>4 DEF Existing, Winner
<1>6. CASE FindByKey(s) \/ FindByExternalId(s)
  BY <1>1, <1>e, <1>5, <1>6 DEF FindByKey, FindByExternalId, RowsWithKey, RowsWithExt
<1>7. CASE LockWallet(s)
  BY <1>1, <1>e, <1>7 DEF LockWallet
<1>8. CASE InsertPending(s) \/ ApplyRules(s) \/ FlushInboxConflict(s)
  BY <1>8 DEF InsertPending, ApplyRules, FlushInboxConflict
<1>9. CASE FlushReferenceConflict(s)
  BY <1>1, <1>e, <1>9 DEF FlushReferenceConflict
<1>10. CASE StageInbox(s)
  <2>1. CASE Finish(s, answer[s])
    BY <1>0, <2>1
  <2> QED BY <1>10, <2>1 DEF StageInbox
<1>11. CASE RereadByKey(s)
  BY <1>5, <1>11 DEF RereadByKey, RowsWithKey
<1>12. CASE RereadByExternalId(s)
  BY <1>2, <1>5, <1>12 DEF RereadByExternalId, RowsWithExt
<1>13. CASE Contended(s)
  BY <1>2, <1>13 DEF Contended
<1>14. CASE Crash(s)
  <2>1. Refusal(NoAnswer)
    BY DEF Refusal, NoAnswer
  <2> QED BY <1>0, <1>14, <2>1 DEF Crash
<1>15. Answered
  BY <1>3, <1>4, <1>6, <1>7, <1>8, <1>9, <1>10, <1>11, <1>12, <1>13, <1>14
     DEF Session, Progress
<1> QED BY <1>15

(* An answer that holds a stored row is durable.                           *)
Durable(a) ==
  /\ a.tx \in DOMAIN txns
  /\ txns[a.tx].payload = a.call.payload
  /\ a = Output(a.call, a.tx, txns[a.tx], a.replay)

LEMMA StoredIsDurable ==
  ASSUME NEW s \in Sessions, NEW a, Stored(s, a)
  PROVE  Durable(a)
BY DEF Stored, Output, Durable

(* How a step may change the inbox.                                        *)
LEMMA InboxStep ==
  ASSUME TypeInv, NEW s \in Sessions, Session(s)
  PROVE  \/ inbox' = inbox
         \/ /\ inbox' = inbox \cup {[msg |-> call[s].msg, hash |-> call[s].payload]}
            /\ InboxRows(call[s].msg) = {}
            /\ StageInbox(s) \/ Commit(s)
<1> USE DEF tables
<1>1. ASSUME NEW c \in Calls, Execute(s, c) PROVE inbox' = inbox
  BY <1>1 DEF Execute
<1>2. CASE StageInbox(s)
  BY <1>2 DEF StageInbox
<1>3. CASE Commit(s)
  BY <1>3 DEF Commit, InboxTaken
<1> QED BY <1>1, <1>2, <1>3 DEF Session, Progress, CheckInbox, FindByKey, FindByExternalId,
           LockWallet, InsertPending, ApplyRules, FlushInboxConflict, FlushReferenceConflict,
           RereadByKey, RereadByExternalId, Contended, Crash

(* A conflict lasts: its row and its inbox row are never deleted.          *)
LEMMA RefusalsLast ==
  ASSUME TypeInv, [Next]_vars, NEW a, Refusal(a)
  PROVE  Refusal(a)'
<1>1. \A i \in DOMAIN txns : i \in DOMAIN txns' /\ txns'[i] = txns[i]
  BY RowsAreKept
<1>2. inbox \subseteq inbox'
  <2>1. ASSUME NEW s \in Sessions, Session(s) PROVE inbox \subseteq inbox'
    BY <2>1, InboxStep
  <2> QED BY <2>1 DEF Next, CreateWallet, vars, tables
<1>3. Contradicted(a.call) => Contradicted(a.call)'
  BY <1>1 DEF Contradicted
<1>4. Misaddressed(a.call) => Misaddressed(a.call)'
  BY <1>2 DEF Misaddressed, InboxRows
<1> QED BY <1>3, <1>4 DEF Refusal

(* What a commit adds, and what it answers.                                *)
LEMMA CommitTells ==
  ASSUME TypeInv, NEW s \in Sessions, Commit(s)
  PROVE  LET t == Len(txns) + 1 IN
         /\ t \in DOMAIN txns' /\ t # NoTx
         /\ txns'[t].payload = call[s].payload
         /\ answer' = [answer EXCEPT ![s] = Output(call[s], t, txns'[t], FALSE)]
         /\ pc'[s] # "stage"
<1> DEFINE t == Len(txns) + 1
           row == Row(call[s].key, call[s].payload, Relink(draft[s], Own, t))
<1>1. row \in Rows /\ Len(txns) \in Nat
  BY CommitFinds, RowOK DEF Commit
<1>2. txns' = Append(txns, row) /\ Finish(s, Output(call[s], t, row, FALSE))
  BY DEF Commit
<1>3. row.payload = call[s].payload
  BY DEF Row
<1> HIDE DEF row
<1>4. t \in DOMAIN txns' /\ t # NoTx /\ txns'[t] = row
  BY <1>1, <1>2, AppendProperties, LenProperties DEF TypeInv, TablesTypeOK, NoTx
<1>5. answer' = [answer EXCEPT ![s] = Output(call[s], t, row, FALSE)] /\ pc'[s] # "stage"
  BY <1>2 DEF TypeInv, SessionsTypeOK, Finish, GoTo
<1> QED BY <1>3, <1>4, <1>5

(* Every answer a step gives is an error or the stored row.                *)
LEMMA AnswersGiven ==
  ASSUME TypeInv, [Next]_vars, NEW x \in Sessions
  PROVE  answer'[x] = answer[x] \/ Refusal(answer[x])' \/ Durable(answer[x])'
<1>1. \A i \in DOMAIN txns : i \in DOMAIN txns' /\ txns'[i] = txns[i]
  BY RowsAreKept
<1>2. ASSUME NEW s \in Sessions, Commit(s)
      PROVE  answer'[x] = answer[x] \/ Durable(answer[x])'
  <2>1. PICK t, row : /\ t = Len(txns) + 1 /\ t \in DOMAIN txns' /\ row = txns'[t]
                      /\ row.payload = call[s].payload
                      /\ answer' = [answer EXCEPT ![s] = Output(call[s], t, row, FALSE)]
    BY <1>2, CommitTells
  <2>2. CASE x = s
    <3>1. answer'[x] = Output(call[s], t, row, FALSE)
      BY <2>1, <2>2 DEF TypeInv, LocksOK, SessionsTypeOK
    <3>2. /\ answer'[x].tx = t /\ answer'[x].call = call[s] /\ answer'[x].replay = FALSE
      BY <3>1 DEF Output
    <3> QED BY <2>1, <3>1, <3>2 DEF Durable
  <2>3. CASE x # s
    BY <2>1, <2>3 DEF TypeInv, LocksOK, SessionsTypeOK
  <2> QED BY <2>2, <2>3
<1>3. ASSUME NEW s \in Sessions, Session(s), ~Commit(s)
      PROVE  answer'[x] = answer[x] \/ Refusal(answer[x])' \/ Durable(answer[x])'
  <2>1. \/ answer'[x] = answer[x] \/ (x = s /\ Stored(s, answer'[s]))
        \/ \E a : Refusal(a) /\ answer'[x] = a
    BY <1>3, AnswersStep
  <2>2. ASSUME x = s, Stored(s, answer'[s]) PROVE Durable(answer[x])'
    <3>1. PICK a : a = answer'[s]
      OBVIOUS
    <3>2. Durable(a)
      BY <2>2, <3>1, StoredIsDurable
    <3> QED BY <1>1, <2>2, <3>1, <3>2 DEF Durable
  <2>3. ASSUME NEW a, Refusal(a), answer'[x] = a PROVE Refusal(answer[x])'
    <3>1. Refusal(a)'
      BY <2>3, RefusalsLast
    <3> QED BY <2>3, <3>1 DEF Refusal
  <2> QED BY <2>1, <2>2, <2>3
<1>4. CASE UNCHANGED answer
  BY <1>4
<1> QED BY <1>2, <1>3, <1>4 DEF Next, CreateWallet, vars

(* A step keeps what is true of the inbox, ...                             *)
LEMMA InboxKept ==
  ASSUME TypeInv, StagedInv, InboxHasTransaction, [Next]_vars
  PROVE  (StagedInv /\ InboxHasTransaction)'
<1>1. \A i \in DOMAIN txns : i \in DOMAIN txns' /\ txns'[i] = txns[i]
  BY RowsAreKept
<1>2. CASE UNCHANGED <<pc, call, inbox>>
  BY <1>1, <1>2 DEF StagedInv, InboxHasTransaction
<1>3. ASSUME NEW s \in Sessions, Session(s)
      PROVE  (StagedInv /\ InboxHasTransaction)'
  <2>1. \A x \in Sessions \ {s} : pc'[x] = pc[x] /\ call'[x] = call[x]
    BY <1>3, WritersEnter
  <2>2. StagedInv'
    <3>1. pc'[s] = "stage" =>
            call'[s] = call[s] /\ \E i \in DOMAIN txns : txns[i].payload = call[s].payload
      BY <1>3, CommitTells, AnswersStep
    <3> QED BY <1>1, <2>1, <3>1 DEF StagedInv
  <2>3. InboxHasTransaction'
    <3>1. CASE inbox' = inbox
      BY <1>1, <3>1 DEF InboxHasTransaction
    <3>2. CASE /\ inbox' = inbox \cup {[msg |-> call[s].msg, hash |-> call[s].payload]}
               /\ InboxRows(call[s].msg) = {}
               /\ StageInbox(s) \/ Commit(s)
      <4>1. \E i \in DOMAIN txns' : txns'[i].payload = call[s].payload
        <5>1. CASE Commit(s)
          BY <5>1, CommitTells
        <5>2. CASE StageInbox(s)
          BY <1>1, <5>2 DEF StagedInv, StageInbox
        <5> QED BY <3>2, <5>1, <5>2
      <4> QED BY <1>1, <3>2, <4>1 DEF InboxHasTransaction, InboxRows
    <3> QED BY <1>3, <3>1, <3>2, InboxStep
  <2> QED BY <2>2, <2>3
<1>4. CASE UNCHANGED vars
  BY <1>2, <1>4 DEF vars, tables, locals
<1>5. ASSUME NEW w \in Wallets, NEW player \in Players, NEW currency \in Currencies,
             NEW amount \in Openings, CreateWallet(w, player, currency, amount)
      PROVE  (StagedInv /\ InboxHasTransaction)'
  BY <1>2, <1>5 DEF CreateWallet, locals
<1> QED BY <1>3, <1>4, <1>5 DEF Next

(* ... and, since rows are kept, every answer already given.               *)
LEMMA DeliveryStep ==
  ASSUME DeliveryInv, [Next]_vars
  PROVE  (AnswersAreDurable /\ StagedInv /\ InboxHasTransaction)'
<1>1. TypeInv /\ \A i \in DOMAIN txns : i \in DOMAIN txns' /\ txns'[i] = txns[i]
  BY RowsAreKept DEF DeliveryInv
<1>2. ASSUME NEW x \in Sessions PROVE Durable(answer[x])' \/ Refusal(answer[x])'
  <2>1. CASE answer'[x] = answer[x]
    <3>1. PICK a : a = answer[x]
      OBVIOUS
    <3>2. Durable(a) \/ Refusal(a)
      BY <3>1 DEF DeliveryInv, AnswersAreDurable, Durable, Refusal
    <3>3. CASE Durable(a)
      BY <1>1, <2>1, <3>1, <3>3 DEF Durable
    <3>4. CASE Refusal(a)
      <4>1. Refusal(a)'
        BY <1>1, <3>4, RefusalsLast
      <4> QED BY <2>1, <3>1, <4>1 DEF Refusal
    <3> QED BY <3>2, <3>3, <3>4
  <2> QED BY <1>1, <2>1, AnswersGiven
<1>3. AnswersAreDurable'
  <2>1. ASSUME NEW x \in Sessions, Durable(answer[x])' PROVE answer'[x].code = "NONE"
    <3>1. PICK a : a = answer'[x]
      OBVIOUS
    <3>2. a = Output(a.call, a.tx, txns'[a.tx], a.replay)
      BY <2>1, <3>1 DEF Durable, Output
    <3>3. a.code = "NONE"
      BY <3>2 DEF Output
    <3> QED BY <3>1, <3>3
  <2> QED BY <1>2, <2>1 DEF AnswersAreDurable, Durable, Refusal
<1> QED BY <1>3, InboxKept DEF DeliveryInv

LEMMA DeliveryInvHolds == Spec => []DeliveryInv
<1>1. Init => AnswersAreDurable /\ StagedInv /\ InboxHasTransaction
  BY DEF Init, AnswersAreDurable, StagedInv, InboxHasTransaction, NoAnswer
<1>2. DeliveryInv /\ TypeInv' /\ [Next]_vars => DeliveryInv'
  BY DeliveryStep DEF DeliveryInv
<1> QED BY <1>1, <1>2, TypeInvHolds, PTL DEF Spec, DeliveryInv

(* A message may be acknowledged as soon as it is in the inbox: its        *)
(* transaction is stored, and no other message took its id.                *)
THEOREM InboxIsBacked == Spec => []InboxHasTransaction
<1>1. DeliveryInv => InboxHasTransaction
  BY DEF DeliveryInv
<1> QED BY <1>1, DeliveryInvHolds, PTL

(* Every result a caller was given is stored, unchanged, under the         *)
(* operation it asked for, and every permanent refusal is in conflict with *)
(* another operation that is stored.                                       *)
THEOREM AnswersStayTrue == Spec => []AnswersAreDurable
<1>1. DeliveryInv => AnswersAreDurable
  BY DEF DeliveryInv
<1> QED BY <1>1, DeliveryInvHolds, PTL
===============================================================================
