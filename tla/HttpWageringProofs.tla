-------------------------- MODULE HttpWageringProofs --------------------------
(***************************************************************************)
(* A refusal read by an HTTP client is final, for any sessions, calls and  *)
(* faults.  Each error answer leaves its reason behind in the table of     *)
(* transactions: the row that owns the key or external id, the row that    *)
(* holds the result, or the rows that use up the reference.  Rows never    *)
(* change, so the reason outlives the answer and stops every later commit. *)
(***************************************************************************)
EXTENDS HttpWagering, WageringProofs

-------------------------------------------------------------------------------
(* The reasons an answer leaves behind                                     *)

(* The operation answered has its row, which is rejected if a says so.     *)
Recorded(a) ==
  /\ a.status \in Statuses
  /\ \E i \in DOMAIN txns :
       /\ txns[i].payload = a.call.payload
       /\ a.status = "REJECTED" => txns[i].status = "REJECTED"

(* Row i is the one the operation refers to, of its own provider.          *)
Refers(p, i) ==
  /\ i \in DOMAIN txns
  /\ p.refExt # Null
  /\ txns[i].payload.ext = p.refExt
  /\ txns[i].payload.provider = p.provider

(* The reference index refuses any further row of this kind.               *)
Exhausted(p) ==
  \E i \in DOMAIN txns :
    /\ ShouldResolveReference(p)
    /\ Refers(p, i)
    /\ \E j \in DOMAIN txns : /\ txns[j].ref = i
                              /\ txns[j].payload.kind = p.kind
                              /\ txns[j].status \in ActiveStatus

Grounded(a) ==
  /\ a.code = "IDEMPOTENCY_CONFLICT" => Contradicted(a.call)
  /\ a.code = "REFERENCE_ALREADY_REVERSED" => Exhausted(a.call.payload)
  /\ a.code = "NONE" /\ a.call # Null => Recorded(a)
  /\ a.code = "MESSAGE_PERMANENT_FAILURE" => a.call.msg # Null

(* What a session is about to store refers to the row its operation names. *)
DraftRefers(s) ==
  LET p == call[s].payload
      o == draft[s]
  IN  pc[s] = "flush" =>
        /\ o.status = "PENDING_REFERENCE" => o.ref = NoTx
        /\ o.status = "PROCESSED" =>
             IF ShouldResolveReference(p) THEN Refers(p, o.ref) ELSE o.ref = NoTx

(* Nobody parks an operation whose reference is known to be used up.       *)
NotParked(s) ==
  \A x \in Sessions :
    /\ pc[s] = "flush"
    /\ answer[x].code = "REFERENCE_ALREADY_REVERSED"
    /\ answer[x].call.payload = call[s].payload
    => draft[s].status # "PENDING_REFERENCE"

ReasonsInv ==
  \A s \in Sessions : Grounded(answer[s]) /\ DraftRefers(s) /\ NotParked(s)

RefusalInv == UniqueInv /\ ReasonsInv

(* The reasons outlive any step.                                           *)
LEMMA ReasonsStay ==
  ASSUME TypeInv, [Next]_vars
  PROVE  /\ \A c : Contradicted(c) => Contradicted(c)'
         /\ \A a : Recorded(a) => Recorded(a)'
         /\ \A p : Exhausted(p) => Exhausted(p)'
         /\ \A p, i : Refers(p, i) => Refers(p, i)'
<1>1. \A i \in DOMAIN txns : i \in DOMAIN txns' /\ txns'[i] = txns[i]
  BY RowsAreKept
<1>2. ASSUME NEW c, Contradicted(c) PROVE Contradicted(c)'
  BY <1>1, <1>2 DEF Contradicted
<1>3. ASSUME NEW a, Recorded(a) PROVE Recorded(a)'
  BY <1>1, <1>3 DEF Recorded
<1>4. ASSUME NEW p, NEW i, Refers(p, i) PROVE Refers(p, i)'
  BY <1>1, <1>4 DEF Refers
<1>5. ASSUME NEW p, Exhausted(p) PROVE Exhausted(p)'
  BY <1>1, <1>4, <1>5 DEF Exhausted
<1> QED BY <1>2, <1>3, <1>4, <1>5

-------------------------------------------------------------------------------
(* Decisions                                                               *)

(* What the rules decide refers to a processed row of the same provider,   *)
(* and they park only what refers to no row.                               *)
LEMMA ApplyRefers ==
  ASSUME NEW wal, NEW rows, NEW own, NEW p, NEW o \in Apply(wal, rows, own, p)
  PROVE  /\ o.status = "PENDING_REFERENCE" =>
              o.ref = NoTx /\ References(rows, p) = {}
         /\ o.status = "PROCESSED" =>
              IF ShouldResolveReference(p)
              THEN /\ o.ref \in References(rows, p)
                   /\ rows[o.ref].status = "PROCESSED"
                   /\ rows[o.ref].payload.provider = p.provider
              ELSE o.ref = NoTx
<1>1. ASSUME NEW ref, NEW code, o = Rejected(wal, ref, code)
      PROVE  o.status = "REJECTED"
  BY <1>1 DEF Rejected
<1>2. CASE o = Processed(wal, NoTx, NoMove) /\ p.kind = "LOSS"
  BY <1>2 DEF Processed, ShouldResolveReference
<1>3. CASE o = ExecuteWalletMovement(wal, p, NoTx, "NONE") /\ ~ShouldResolveReference(p)
  BY <1>1, <1>3 DEF ExecuteWalletMovement, Processed, Rejected
<1>4. CASE o = Parked(wal) /\ References(rows, p) = {}
  BY <1>4 DEF Parked
<1>5. CASE \E i \in References(rows, p) :
             ShouldResolveReference(p) /\ o = WithReference(wal, rows, own, p, i)
  <2>1. PICK i \in References(rows, p) :
          ShouldResolveReference(p) /\ o = WithReference(wal, rows, own, p, i)
    BY <1>5
  <2>2. CASE ReferenceFailure(rows, own, p, i) # "NONE"
    BY <2>1, <2>2 DEF WithReference, Rejected
  <2>3. CASE ReferenceFailure(rows, own, p, i) = "NONE"
    <3>1. rows[i].status = "PROCESSED" /\ rows[i].payload.provider = p.provider
      BY <2>3 DEF ReferenceFailure, SameScope
    <3>2. o = ExecuteWalletMovement(wal, p, i, rows[i].payload.kind)
      BY <2>1, <2>3 DEF WithReference
    <3>3. o.status = "REJECTED" \/ (o.status = "PROCESSED" /\ o.ref = i)
      BY <3>2 DEF ExecuteWalletMovement, Processed, Rejected
    <3> QED BY <2>1, <3>1, <3>3
  <2> QED BY <2>2, <2>3
<1> QED BY <1>2, <1>3, <1>4, <1>5 DEF Apply

LEMMA RulesRefer ==
  ASSUME NEW wal, NEW rows, NEW own, NEW p,
         NEW o \in ProcessWagerMovement(wal, rows, own, p)
  PROVE  /\ o.status = "PENDING_REFERENCE" =>
              o.ref = NoTx /\ References(rows, p) = {}
         /\ o.status = "PROCESSED" =>
              IF ShouldResolveReference(p)
              THEN /\ o.ref \in References(rows, p)
                   /\ rows[o.ref].status = "PROCESSED"
                   /\ rows[o.ref].payload.provider = p.provider
              ELSE o.ref = NoTx
<1>1. ASSUME NEW code, o = Rejected(wal, NoTx, code) PROVE o.status = "REJECTED"
  BY <1>1 DEF Rejected
<1> QED BY <1>1, ApplyRefers DEF ProcessWagerMovement

(* So a session's decision refers to a committed row, and a session parks  *)
(* nothing whose reference is used up.                                     *)
LEMMA DecisionRefers ==
  ASSUME TypeInv, NEW s \in Sessions, ApplyRules(s)
  PROVE  /\ DraftRefers(s)'
         /\ draft'[s].status = "PENDING_REFERENCE" => ~Exhausted(call[s].payload)
<1> DEFINE p == call[s].payload
           rows == Visible(s)
           own == Len(txns) + 1
<1>1. PICK o \in ProcessWagerMovement(copy[s], rows, own, p) :
        draft' = [draft EXCEPT ![s] = Relink(o, own, Own)]
  BY DEF ApplyRules
<1>2. draft'[s] = Relink(o, own, Own) /\ call' = call /\ txns' = txns
  BY <1>1 DEF ApplyRules, TypeInv,  SessionsTypeOK, tables
<1>3. /\ o.status = "PENDING_REFERENCE" => o.ref = NoTx /\ References(rows, p) = {}
      /\ o.status = "PROCESSED" =>
           IF ShouldResolveReference(p)
           THEN /\ o.ref \in References(rows, p)
                /\ rows[o.ref].status = "PROCESSED"
                /\ rows[o.ref].payload.provider = p.provider
           ELSE o.ref = NoTx
  BY <1>1, RulesRefer
<1>4. /\ DOMAIN txns = 1 .. Len(txns) /\ Len(txns) \in Nat
      /\ DOMAIN rows = 1 .. own
      /\ \A i \in DOMAIN txns : rows[i] = txns[i]
      /\ rows[own] = PendingRow(call[s])
  BY VisibleRows
<1>5. rows[own].status = "PENDING"
  BY <1>4 DEF PendingRow, Row
<1>6. o \in Outcomes /\ o.ref \in Nat
  <2>1. copy[s] \in WalletRecords /\ p \in OperationPayloads
    BY CallsAssumption DEF ApplyRules, TypeInv,  SessionsTypeOK, SessionOK, LockedSteps
  <2> QED BY <1>1, <2>1, VisibleOK, DecisionOK DEF Decision
<1> HIDE DEF rows
<1>7. draft'[s].status = o.status /\ (o.ref # own => draft'[s].ref = o.ref)
  BY <1>2, <1>6 DEF Relink, Outcomes
<1>8. ASSUME o.status = "PENDING_REFERENCE"
      PROVE  draft'[s].ref = NoTx /\ ~Exhausted(p)
  <2>1. draft'[s].ref = NoTx
    BY <1>3, <1>4, <1>7, <1>8 DEF NoTx
  <2>2. ASSUME Exhausted(p) PROVE FALSE
    <3>1. PICK i \in DOMAIN txns : Refers(p, i)
      BY <2>2 DEF Exhausted
    <3>2. i \in DOMAIN rows /\ rows[i] = txns[i]
      BY <1>4
    <3>3. i \in References(rows, p)
      BY <3>1, <3>2 DEF Refers, References, Named
    <3> QED BY <1>3, <1>8, <3>3
  <2> QED BY <2>1, <2>2
<1>9. ASSUME o.status = "PROCESSED", ShouldResolveReference(p)
      PROVE  draft'[s].ref = o.ref /\ Refers(p, o.ref)
  <2>1. o.ref # own
    BY <1>3, <1>5, <1>9
  <2>2. o.ref \in DOMAIN rows /\ rows[o.ref].payload.ext = p.refExt /\ p.refExt # Null
    BY <1>3, <1>9 DEF References, Named
  <2>3. o.ref \in DOMAIN txns
    BY <1>4, <2>1, <2>2
  <2> QED BY <1>3, <1>4, <1>7, <1>9, <2>1, <2>2, <2>3 DEF Refers
<1>10. ASSUME o.status = "PROCESSED", ~ShouldResolveReference(p)
       PROVE  draft'[s].ref = NoTx
  BY <1>3, <1>4, <1>7, <1>10 DEF NoTx
<1>11. DraftRefers(s)'
  <2>1. ASSUME o.status = "PROCESSED", ShouldResolveReference(p)
        PROVE  Refers(p, o.ref)'
    BY <1>2, <1>9, <2>1 DEF Refers
  <2>2. p' = p
    BY <1>2
  <2> HIDE DEF p
  <2>3. ASSUME o.status = "PROCESSED", ShouldResolveReference(p)
        PROVE  Refers(p, draft[s].ref)'
    BY <1>9, <2>1, <2>2, <2>3 DEF Refers
  <2> QED BY <1>7, <1>8, <1>10, <2>2, <2>3 DEF DraftRefers, p
<1> QED BY <1>7, <1>8, <1>11

-------------------------------------------------------------------------------
(* Answers                                                                 *)

(* What an answer given by a step rests on, in the tables before the step. *)
Reasoned(s, a) ==
  \/ a.code \in {"DEPENDENCY_UNAVAILABLE", "WALLET_NOT_FOUND"}
  \/ a.code = "NONE" /\ a.call = Null
  \/ a.code = "NONE" /\ a.call = call[s] /\ Recorded(a)
  \/ a.code = "IDEMPOTENCY_CONFLICT" /\ a.call = call[s] /\ Contradicted(a.call)
  \/ a.code = "MESSAGE_PERMANENT_FAILURE" /\ a.call = call[s] /\ call[s].msg # Null
  \/ /\ a.code = "REFERENCE_ALREADY_REVERSED" /\ a.call = call[s]
     /\ FlushReferenceConflict(s)

(* Every step of a session but its commit gives an answer that has its     *)
(* reason in the tables.                                                   *)
LEMMA AnswersHaveReasons ==
  ASSUME TypeInv, NEW s \in Sessions, Session(s), ~Commit(s)
  PROVE  /\ \A x \in Sessions \ {s} : answer'[x] = answer[x]
         /\ answer'[s] = answer[s] \/ Reasoned(s, answer'[s])
<1> USE DEF TypeInv,  SessionsTypeOK
<1> DEFINE Answered == /\ \A x \in Sessions \ {s} : answer'[x] = answer[x]
                       /\ answer'[s] = answer[s] \/ Reasoned(s, answer'[s])
<1>1. ASSUME NEW a, Reasoned(s, a) \/ a = answer[s],
             answer' = [answer EXCEPT ![s] = a]
      PROVE  Answered
  BY <1>1
<1>2. ASSUME NEW code, Reasoned(s, Failed(call[s], code)),
             Finish(s, Failed(call[s], code))
      PROVE  Answered
  BY <1>1, <1>2 DEF Failed, NoAnswer, Finish
<1>3. ASSUME NEW i \in DOMAIN txns, txns[i].payload = call[s].payload,
             answer' = [answer EXCEPT ![s] = Output(call[s], i, txns[i], TRUE)]
      PROVE  Answered
  <2>1. txns[i].status \in Statuses
    <3>1. txns \in Seq(Rows) /\ i \in 1 .. Len(txns)
      BY <1>3, LenProperties DEF TablesTypeOK
    <3>2. txns[i] \in Rows
      BY ONLY <3>1, ElementOfSeq
    <3> QED BY <3>2 DEF Rows
  <2>2. Reasoned(s, Output(call[s], i, txns[i], TRUE))
    BY <1>3, <2>1 DEF Reasoned, Output, Recorded
  <2> QED BY <1>1, <1>3, <2>2
<1>4. ASSUME NEW i \in DOMAIN txns, txns[i].payload # call[s].payload,
             i \in RowsWithKey(call[s].key) \/ i \in RowsWithExt(call[s].payload),
             Finish(s, Failed(call[s], "IDEMPOTENCY_CONFLICT"))
      PROVE  Answered
  <2>1. Contradicted(call[s])
    BY <1>4 DEF Contradicted, RowsWithKey, RowsWithExt
  <2> QED BY <1>2, <1>4, <2>1 DEF Reasoned, Failed, NoAnswer
<1>5. ASSUME NEW step, NEW n, Rollback(s, step, n) PROVE Answered
  BY <1>5 DEF Rollback
<1>6. ASSUME Retry(s) PROVE Answered
  <2>1. CASE Finish(s, Failed(call[s], "DEPENDENCY_UNAVAILABLE"))
    BY <1>2, <2>1 DEF Reasoned, Failed, NoAnswer
  <2> QED BY <1>5, <1>6, <2>1 DEF Retry
<1>7. ASSUME NEW c \in Calls, Execute(s, c) PROVE Answered
  BY <1>7 DEF Execute
<1>8. CASE CheckInbox(s)
  <2>1. call[s].msg # Null
    BY <1>8 DEF CheckInbox, SessionOK
  <2>2. CASE Finish(s, Failed(call[s], "MESSAGE_PERMANENT_FAILURE"))
    BY <1>2, <2>1, <2>2 DEF Reasoned, Failed, NoAnswer
  <2>3. CASE UNCHANGED answer
    BY <2>3
  <2> QED BY <1>8, <2>2, <2>3 DEF CheckInbox
<1>9. ASSUME NEW i \in DOMAIN txns, Existing(s, i),
             i \in RowsWithKey(call[s].key) \/ i \in RowsWithExt(call[s].payload)
      PROVE  Answered
  BY <1>3, <1>4, <1>9 DEF Existing, Finish
<1>10. CASE FindByKey(s) \/ FindByExternalId(s)
  <2>1. CASE Finish(s, Failed(call[s], "DEPENDENCY_UNAVAILABLE"))
    BY <1>2, <2>1 DEF Reasoned, Failed, NoAnswer
  <2> QED BY <1>9, <1>10, <2>1 DEF FindByKey, FindByExternalId, RowsWithKey, RowsWithExt
<1>11. CASE StageInbox(s)
  BY <1>1, <1>5, <1>11 DEF StageInbox, Finish
<1>12. CASE LockWallet(s)
  <2>1. CASE Finish(s, Failed(call[s], "WALLET_NOT_FOUND"))
    BY <1>2, <2>1 DEF Reasoned, Failed, NoAnswer
  <2> QED BY <1>12, <2>1 DEF LockWallet
<1>13. CASE InsertPending(s) \/ ApplyRules(s)
  BY <1>5, <1>13 DEF InsertPending, ApplyRules
<1>14. CASE FlushInboxConflict(s)
  BY <1>5, <1>14 DEF FlushInboxConflict
<1>15. CASE FlushReferenceConflict(s)
  <2>1. Finish(s, Failed(call[s], "REFERENCE_ALREADY_REVERSED"))
    BY <1>15 DEF FlushReferenceConflict
  <2> QED BY <1>2, <1>15, <2>1 DEF Reasoned, Failed, NoAnswer
<1>16. ASSUME NEW i \in DOMAIN txns, Winner(s, i),
              i \in RowsWithKey(call[s].key) \/ i \in RowsWithExt(call[s].payload)
       PROVE  Answered
  BY <1>3, <1>4, <1>16 DEF Winner, Finish
<1>17. CASE RereadByKey(s)
  BY <1>16, <1>17 DEF RereadByKey, RowsWithKey
<1>18. CASE RereadByExternalId(s)
  BY <1>6, <1>16, <1>18 DEF RereadByExternalId, RowsWithExt
<1>19. CASE Contended(s)
  BY <1>6, <1>19 DEF Contended
<1>20. CASE Crash(s)
  <2>1. Reasoned(s, NoAnswer)
    BY DEF Reasoned, NoAnswer
  <2> QED BY <1>1, <1>20, <2>1 DEF Crash, Finish
<1> QED BY <1>7, <1>8, <1>10, <1>11, <1>12, <1>13, <1>14, <1>15, <1>17, <1>18, <1>19, <1>20
        DEF Session, Progress

(* A commit answers with the row it stores.                                *)
LEMMA CommitAnswers ==
  ASSUME TypeInv, NEW s \in Sessions, Commit(s)
  PROVE  LET t == Len(txns) + 1 IN
         /\ DOMAIN txns' = DOMAIN txns \cup {t}
         /\ txns'[t].key = call[s].key
         /\ txns'[t].payload = call[s].payload
         /\ txns'[t].status = draft[s].status
         /\ \A x \in Sessions \ {s} : answer'[x] = answer[x]
         /\ Grounded(answer[s])'
<1> DEFINE c == call[s]
           t == Len(txns) + 1
           row == Row(c.key, c.payload, Relink(draft[s], Own, t))
<1>1. row \in Rows /\ Len(txns) \in Nat
  BY CommitFinds, RowOK DEF Commit
<1>2. row.key = c.key /\ row.payload = c.payload /\ row.status = draft[s].status
  <2>1. draft[s] \in Outcomes
    BY CommitFinds DEF Commit
  <2> QED BY <2>1 DEF Row, Relink, Outcomes
<1>3. txns' = Append(txns, row) /\ answer' = [answer EXCEPT ![s] = Output(c, t, row, FALSE)]
  BY DEF Commit, Finish
<1> HIDE DEF row
<1>4. DOMAIN txns' = DOMAIN txns \cup {t} /\ txns'[t] = row
  BY <1>1, <1>3, AppendProperties, LenProperties DEF TypeInv,  TablesTypeOK
<1>5. /\ answer'[s] = Output(c, t, row, FALSE)
      /\ \A x \in Sessions \ {s} : answer'[x] = answer[x]
  BY <1>3 DEF TypeInv,  SessionsTypeOK
<1>6. answer'[s].code = "NONE" /\ answer'[s].call = c /\ answer'[s].status = row.status
  BY <1>5 DEF Output
<1>7. Recorded(answer[s])'
  <2>1. row.status \in Statuses
    BY <1>1 DEF Rows
  <2> QED BY <1>2, <1>4, <1>6, <2>1 DEF Recorded
<1> QED BY <1>2, <1>4, <1>5, <1>6, <1>7 DEF Grounded

(* The reference index refuses a row only when the reference is used up.   *)
LEMMA ConflictExhausts ==
  ASSUME TypeInv, NEW s \in Sessions, DraftRefers(s), FlushReferenceConflict(s)
  PROVE  Exhausted(call[s].payload)
<1>1. /\ pc[s] = "flush"
      /\ ReferenceKindTaken(draft[s].ref, call[s].payload.kind, draft[s].status)
  BY DEF FlushReferenceConflict
<1>2. draft[s].status = "PROCESSED" /\ draft[s].ref # NoTx
  <2>1. draft[s].status \in Statuses
    BY <1>1, CommitFinds DEF Outcomes
  <2> QED BY <1>1, <2>1 DEF ReferenceKindTaken, ActiveStatus, Statuses, DraftRefers
<1>3. ShouldResolveReference(call[s].payload) /\ Refers(call[s].payload, draft[s].ref)
  BY <1>1, <1>2 DEF DraftRefers
<1> QED BY <1>1, <1>3 DEF Exhausted, ReferenceKindTaken, Refers

-------------------------------------------------------------------------------
(* The invariant                                                           *)

LEMMA ReasonsStep ==
  ASSUME RefusalInv, [Next]_vars
  PROVE  ReasonsInv'
<1>1. /\ \A c : Contradicted(c) => Contradicted(c)'
      /\ \A a : Recorded(a) => Recorded(a)'
      /\ \A p : Exhausted(p) => Exhausted(p)'
      /\ \A p, i : Refers(p, i) => Refers(p, i)'
  BY ReasonsStay DEF RefusalInv, UniqueInv, LedgerInv
<1>2. ASSUME NEW x \in Sessions, answer'[x] = answer[x]
      PROVE  Grounded(answer[x])'
  BY <1>1, <1>2 DEF RefusalInv, ReasonsInv, Grounded
<1>3. ASSUME NEW x \in Sessions, pc'[x] = "flush" => pc[x] = "flush",
             call'[x] = call[x], draft'[x] = draft[x]
      PROVE  DraftRefers(x)'
  <2>1. DraftRefers(x)
    BY DEF RefusalInv, ReasonsInv
  <2> QED BY <1>1, <1>3, <2>1 DEF DraftRefers
<1>4. CASE UNCHANGED <<pc, call, draft, answer>>
  <2>1. \A x \in Sessions : NotParked(x)'
    BY <1>4 DEF RefusalInv, ReasonsInv, NotParked
  <2> QED BY <1>2, <1>3, <1>4, <2>1 DEF ReasonsInv
<1>5. CASE UNCHANGED vars
  BY <1>4, <1>5 DEF vars, locals
<1>6. ASSUME NEW w \in Wallets, NEW player \in Players, NEW currency \in Currencies,
             NEW amount \in Openings, CreateWallet(w, player, currency, amount)
      PROVE  ReasonsInv'
  BY <1>4, <1>6 DEF CreateWallet, locals
<1>7. ASSUME NEW s \in Sessions, Session(s)
      PROVE  ReasonsInv'
  <2>1. /\ TypeInv
        /\ \A x \in Sessions : Grounded(answer[x]) /\ DraftRefers(x) /\ NotParked(x)
    BY DEF RefusalInv, ReasonsInv, UniqueInv, LedgerInv
  <2>2. /\ \A x \in Sessions \ {s} : answer'[x] = answer[x]
        /\ \/ answer'[s] = answer[s]
           \/ Grounded(answer[s])' /\ answer'[s].code # "REFERENCE_ALREADY_REVERSED"
           \/ /\ answer'[s].call = call[s]
              /\ FlushReferenceConflict(s) /\ Exhausted(call[s].payload)
              /\ answer'[s].code = "REFERENCE_ALREADY_REVERSED"
    <3>1. CASE Commit(s)
      <4>1. answer'[s].code = "NONE"
        BY <2>1, <3>1 DEF Commit, Finish, Output, TypeInv,  SessionsTypeOK
      <4> QED BY <2>1, <3>1, <4>1, CommitAnswers
    <3>2. CASE ~Commit(s)
      <4>1. /\ \A x \in Sessions \ {s} : answer'[x] = answer[x]
            /\ answer'[s] = answer[s] \/ Reasoned(s, answer'[s])
        BY <1>7, <2>1, <3>2, AnswersHaveReasons
      <4>2. ASSUME answer'[s].code # "REFERENCE_ALREADY_REVERSED", Reasoned(s, answer'[s])
            PROVE  Grounded(answer[s])'
        BY <1>1, <4>2 DEF Reasoned, Grounded
      <4>3. ASSUME answer'[s].code = "REFERENCE_ALREADY_REVERSED", Reasoned(s, answer'[s])
            PROVE  /\ answer'[s].call = call[s]
                   /\ FlushReferenceConflict(s) /\ Exhausted(call[s].payload)
        BY <2>1, <4>3, ConflictExhausts DEF Reasoned
      <4> QED BY <4>1, <4>2, <4>3
    <3> QED BY <3>1, <3>2
  <2>3. \A x \in Sessions : Grounded(answer[x])'
    <3>1. CASE /\ answer'[s].call = call[s]
               /\ Exhausted(call[s].payload)
               /\ answer'[s].code = "REFERENCE_ALREADY_REVERSED"
      <4>1. Exhausted(call[s].payload) => Exhausted(answer[s].call.payload)'
        <5> DEFINE p == call[s].payload
        <5>1. Exhausted(p) => (\E i \in DOMAIN txns' :
                 /\ ShouldResolveReference(p)
                 /\ (i \in DOMAIN txns' /\ p.refExt # Null
                     /\ txns'[i].payload.ext = p.refExt
                     /\ txns'[i].payload.provider = p.provider)
                 /\ \E j \in DOMAIN txns' : /\ txns'[j].ref = i
                                            /\ txns'[j].payload.kind = p.kind
                                            /\ txns'[j].status \in ActiveStatus)
          BY <2>1, RowsAreKept DEF Exhausted, Refers
        <5>2. answer'[s].call.payload = p
          BY <3>1
        <5> HIDE DEF p
        <5> QED BY <5>1, <5>2 DEF Exhausted, Refers, p
      <4> QED BY <1>2, <2>2, <3>1, <4>1 DEF Grounded
    <3> QED BY <1>2, <2>2, <3>1
  <2>4. ASSUME NEW x \in Sessions, pc'[x] = "flush", ~(x = s /\ ApplyRules(s))
        PROVE  pc[x] = "flush" /\ draft'[x] = draft[x] /\ call'[x] = call[x]
    BY <1>7, <2>1, <2>4, OnlyRulesDecide
  <2>5. \A x \in Sessions : DraftRefers(x)'
    <3> SUFFICES ASSUME NEW x \in Sessions PROVE DraftRefers(x)'
      OBVIOUS
    <3>1. CASE x = s /\ ApplyRules(s)
      BY <2>1, <3>1, DecisionRefers
    <3>2. CASE pc'[x] # "flush"
      BY <3>2 DEF DraftRefers
    <3>3. CASE pc'[x] = "flush" /\ ~(x = s /\ ApplyRules(s))
      BY <1>3, <2>4, <3>3
    <3> QED BY <3>1, <3>2, <3>3
  <2>6. \A x \in Sessions : NotParked(x)'
    <3> SUFFICES ASSUME NEW x \in Sessions, NEW y \in Sessions, pc'[x] = "flush",
                        answer'[y].code = "REFERENCE_ALREADY_REVERSED",
                        answer'[y].call.payload = call'[x].payload,
                        draft'[x].status = "PENDING_REFERENCE"
                 PROVE  FALSE
      BY DEF NotParked
    <3>1. CASE x = s /\ ApplyRules(s)
      <4>1. answer' = answer /\ call' = call
        BY <3>1 DEF ApplyRules
      <4>2. Exhausted(call[s].payload)
        BY <2>1, <3>1, <4>1 DEF Grounded
      <4> QED BY <2>1, <3>1, <4>2, DecisionRefers
    <3>2. CASE ~(x = s /\ ApplyRules(s)) /\ answer'[y] = answer[y]
      BY <2>1, <2>4, <3>2 DEF NotParked
    <3>3. CASE ~(x = s /\ ApplyRules(s)) /\ answer'[y] # answer[y]
      <4>1. y = s /\ FlushReferenceConflict(s) /\ answer'[s].call = call[s]
        BY <2>2, <3>3
      <4>2. pc[s] = "flush" /\ pc'[s] # "flush"
        BY <2>1, <4>1 DEF FlushReferenceConflict, Finish, GoTo, TypeInv,  SessionsTypeOK
      <4>3. x # s /\ pc[x] = "flush" /\ call'[x] = call[x]
        BY <2>4, <3>3, <4>2
      <4>4. Collides(call[s], call[x])
        BY <4>1, <4>3 DEF Collides
      <4> QED BY <4>2, <4>3, <4>4 DEF RefusalInv, UniqueInv, WritersInv, WritingSteps
    <3> QED BY <3>1, <3>2, <3>3
  <2> QED BY <2>3, <2>5, <2>6 DEF ReasonsInv
<1> QED BY <1>5, <1>6, <1>7 DEF Next

LEMMA RefusalInvHolds == Spec => []RefusalInv
<1>1. Init => ReasonsInv
  BY DEF Init, ReasonsInv, Grounded, DraftRefers, NotParked, NoAnswer
<1>2. RefusalInv /\ UniqueInv' /\ [Next]_vars => RefusalInv'
  BY ReasonsStep DEF RefusalInv
<1> QED BY <1>1, <1>2, UniqueInvHolds, PTL DEF Spec, RefusalInv

-------------------------------------------------------------------------------
(* The theorem                                                             *)

(* A commit of the operation a client was refused stores a rejection.      *)
LEMMA CommitRespectsRefusal ==
  ASSUME RefusalInv, OneRowPerOperation', NEW y \in Sessions, Commit(y),
         NEW s \in Sessions, Refused(answer[s], txns'[Len(txns) + 1])
  PROVE  txns'[Len(txns) + 1].status = "REJECTED"
<1> DEFINE t == Len(txns) + 1
           p == call[y].payload
           a == answer[s]
<1>1. /\ TypeInv /\ Grounded(a) /\ DraftRefers(y) /\ NotParked(y) /\ pc[y] = "flush"
      /\ OneRowPerOperation
  BY DEF RefusalInv, ReasonsInv, UniqueInv, LedgerInv, Commit
<1>2. /\ DOMAIN txns' = DOMAIN txns \cup {t}
      /\ txns'[t].key = call[y].key /\ txns'[t].payload = p
      /\ txns'[t].status = draft[y].status
  BY <1>1, CommitAnswers
<1>3. \A i \in DOMAIN txns : i # t /\ txns'[i] = txns[i]
  <2>1. DOMAIN txns = 1 .. Len(txns) /\ Len(txns) \in Nat
    BY <1>1, VisibleRows
  <2>2. Commit(y) => [Next]_vars
    BY DEF Next, Session, Progress
  <2> QED BY <1>1, <2>1, <2>2, RowsAreKept
<1>4. ASSUME NEW i \in DOMAIN txns
      PROVE  /\ txns[i].key # call[y].key
             /\ txns[i].payload.provider # p.provider \/ txns[i].payload.ext # p.ext
  BY <1>2, <1>3 DEF OneRowPerOperation
<1>5. a.call # Null /\ a.call.msg = Null /\ a.call.payload = p
  BY <1>2 DEF Refused
<1>6. a.code \in ErrorCodes \cup {"NONE"}
  BY <1>1 DEF TypeInv,  SessionsTypeOK, Answers
<1>7. a.code # "NONE" /\ a.code # "MESSAGE_PERMANENT_FAILURE"
  BY <1>1, <1>4, <1>5 DEF Grounded, Recorded
<1>8. CASE a.code = "IDEMPOTENCY_CONFLICT"
  <2>1. HttpStatus(a) = 409
    BY <1>8 DEF HttpStatus, ToHttpError, ErrorStatus
  <2>2. call[y].key = a.call.key
    BY <1>2, <2>1 DEF Refused
  <2> QED BY <1>1, <1>4, <1>5, <1>8, <2>2 DEF Grounded, Contradicted
<1>9. CASE a.code \in {"WALLET_NOT_FOUND", "DEPENDENCY_UNAVAILABLE"}
  <2>1. HttpStatus(a) \in {404, 503}
    BY <1>9 DEF HttpStatus, ToHttpError, ErrorStatus
  <2> QED BY <2>1 DEF Refused
<1>10. CASE a.code = "REFERENCE_ALREADY_REVERSED"
  <2>1. PICK i \in DOMAIN txns :
          /\ ShouldResolveReference(p) /\ Refers(p, i)
          /\ \E j \in DOMAIN txns : /\ txns[j].ref = i
                                    /\ txns[j].payload.kind = p.kind
                                    /\ txns[j].status \in ActiveStatus
    BY <1>1, <1>5, <1>10 DEF Grounded, Exhausted
  <2>2. draft[y].status # "PENDING_REFERENCE"
    BY <1>1, <1>5, <1>10 DEF NotParked
  <2>3. ASSUME draft[y].status = "PROCESSED" PROVE FALSE
    <3>1. Refers(p, draft[y].ref)
      BY <1>1, <2>1, <2>3 DEF DraftRefers
    <3>2. draft[y].ref = i
      BY <1>1, <2>1, <3>1 DEF Refers, OneRowPerOperation
    <3>3. i # NoTx
      <4>1. DOMAIN txns = 1 .. Len(txns) /\ Len(txns) \in Nat
        BY <1>1, VisibleRows
      <4> QED BY <4>1 DEF NoTx
    <3>4. ReferenceKindTaken(draft[y].ref, p.kind, draft[y].status)
      BY <2>1, <2>3, <3>2, <3>3 DEF ReferenceKindTaken, ActiveStatus
    <3> QED BY <3>4 DEF Commit
  <2>4. draft[y].status \in Statuses
    BY <1>1, CommitFinds DEF Outcomes
  <2> QED BY <1>2, <2>2, <2>3, <2>4 DEF Statuses
<1> QED BY <1>6, <1>7, <1>8, <1>9, <1>10 DEF ErrorCodes

(* No step of the service carries a refused operation out or parks it.      *)
LEMMA ServiceRespectsRefusals ==
  ASSUME RefusalInv, UniqueInv', [Next]_vars,
         NEW t \in DOMAIN txns', NEW s \in Sessions, Refused(answer[s], txns'[t]),
         t \in DOMAIN txns => txns'[t] # txns[t]
  PROVE  txns'[t].status = "REJECTED"
<1>1. TypeInv /\ t \notin DOMAIN txns
  BY RowsAreKept DEF RefusalInv, UniqueInv, LedgerInv
<1>2. CASE UNCHANGED vars
  BY <1>1, <1>2 DEF vars, tables
<1>3. ASSUME NEW w \in Wallets, NEW player \in Players, NEW currency \in Currencies,
             NEW amount \in Openings, CreateWallet(w, player, currency, amount)
      PROVE  FALSE
  <2>1. txns' = Append(txns, OpeningRow(w))
    BY <1>1, <1>3 DEF CreateWallet
  <2>2. OpeningRow(w) \in Rows
    BY DEF OpeningRow, Row, Rows, Payloads, Statuses, NoTx, NoBalance
  <2>3. txns'[t] = OpeningRow(w)
    BY <1>1, <2>1, <2>2, AppendProperties, LenProperties DEF TypeInv,  TablesTypeOK
  <2>4. txns'[t].payload.provider = Internal
    BY <2>3 DEF OpeningRow, Row, OpeningPayload
  <2>5. answer[s].call \in Calls /\ txns'[t].payload = answer[s].call.payload
    BY <1>1 DEF Refused, TypeInv,  SessionsTypeOK, Answers
  <2> QED BY <2>4, <2>5, CallsAssumption, NamesAssumption DEF OperationPayloads
<1>4. ASSUME NEW y \in Sessions, Session(y) PROVE txns'[t].status = "REJECTED"
  <2>1. Commit(y)
    BY <1>1, <1>4, WritersEnter
  <2>2. t = Len(txns) + 1
    BY <1>1, <2>1, CommitAnswers
  <2> QED BY <2>1, <2>2, CommitRespectsRefusal DEF UniqueInv
<1> QED BY <1>2, <1>3, <1>4 DEF Next

(* Whoever reads 422, or 409 under a key, reads it for good: no session of *)
(* any instance later carries the operation out or parks it.               *)
THEOREM RefusalsStand == Spec => RefusalsAreFinal
<1>1. RefusalInv /\ RefusalInv' /\ [Next]_vars =>
        [\A t \in DOMAIN txns' : \A s \in Sessions :
           /\ Refused(answer[s], txns'[t])
           /\ t \in DOMAIN txns => txns'[t] # txns[t]
           => txns'[t].status = "REJECTED"]_vars
  BY ServiceRespectsRefusals DEF RefusalInv
<1> QED BY <1>1, RefusalInvHolds, PTL DEF Spec, RefusalsAreFinal

-------------------------------------------------------------------------------
(* References are used once                                                *)

UsesReference(row) == row.status = "PROCESSED" /\ ShouldResolveReference(row.payload)

(* A row that uses a reference stores the id of the row its operation      *)
(* names, and is the only one of its kind to store it.                     *)
LinkedOnce ==
  \A t \in DOMAIN txns :
    UsesReference(txns[t]) =>
      /\ Refers(txns[t].payload, txns[t].ref)
      /\ \A u \in DOMAIN txns \ {t} :
           UsesReference(txns[u]) /\ txns[u].ref = txns[t].ref
             => txns[u].payload.kind # txns[t].payload.kind

(* What the rules and the reference index grant a row that is written.     *)
FirstUse(row) ==
  UsesReference(row) =>
    /\ Refers(row.payload, row.ref)
    /\ \A u \in DOMAIN txns :
         UsesReference(txns[u]) /\ txns[u].ref = row.ref
           => txns[u].payload.kind # row.payload.kind

(* Names lead to ids: a name of a provider is the name of one row.         *)
LEMMA LinksAreNames ==
  ASSUME LinkedOnce, OneRowPerOperation
  PROVE  ReferencesUsedOnce
<1> SUFFICES ASSUME NEW t \in DOMAIN txns, NEW u \in DOMAIN txns, t # u,
                    UsesReference(txns[t]), UsesReference(txns[u]),
                    txns[t].payload.kind = txns[u].payload.kind,
                    txns[t].payload.provider = txns[u].payload.provider,
                    txns[t].payload.refExt = txns[u].payload.refExt
             PROVE  FALSE
  BY DEF ReferencesUsedOnce, UsesReference
<1>1. Refers(txns[t].payload, txns[t].ref) /\ Refers(txns[u].payload, txns[u].ref)
  BY DEF LinkedOnce
<1>2. txns[t].ref = txns[u].ref
  BY <1>1 DEF Refers, OneRowPerOperation
<1> QED BY <1>2 DEF LinkedOnce

(* Writing one row, new or parked until now, keeps them so.                *)
LEMMA FirstUseKeepsLinks ==
  ASSUME LinkedOnce, NEW t, NEW row, FirstUse(row),
         DOMAIN txns' = DOMAIN txns \cup {t}, txns'[t] = row,
         \A u \in DOMAIN txns \ {t} : txns'[u] = txns[u],
         \A u \in DOMAIN txns : txns'[u].payload = txns[u].payload
  PROVE  LinkedOnce'
<1>1. ASSUME NEW p, NEW i, Refers(p, i) PROVE Refers(p, i)'
  BY <1>1 DEF Refers
<1>2. ASSUME NEW x \in DOMAIN txns', UsesReference(txns'[x])
      PROVE  /\ Refers(txns[x].payload, txns[x].ref)'
             /\ \A u \in DOMAIN txns' \ {x} :
                  UsesReference(txns'[u]) /\ txns'[u].ref = txns'[x].ref
                    => txns'[u].payload.kind # txns'[x].payload.kind
  <2>1. CASE x = t
    <3>1. Refers(row.payload, row.ref)
      BY <1>2, <2>1 DEF FirstUse
    <3>2. Refers(row.payload, row.ref)'
      BY <3>1 DEF Refers
    <3> QED BY <1>2, <2>1, <3>2 DEF FirstUse, Refers
  <2>2. CASE x # t
    <3>1. x \in DOMAIN txns /\ txns'[x] = txns[x] /\ UsesReference(txns[x])
      BY <1>2, <2>2
    <3>2. Refers(txns[x].payload, txns[x].ref)'
      BY <1>1, <3>1 DEF LinkedOnce, Refers
    <3>3. ASSUME NEW u \in DOMAIN txns' \ {x},
                 UsesReference(txns'[u]), txns'[u].ref = txns'[x].ref
          PROVE  txns'[u].payload.kind # txns'[x].payload.kind
      <4>1. CASE u = t
        BY <3>1, <3>3, <4>1 DEF FirstUse
      <4>2. CASE u # t
        BY <3>1, <3>3, <4>2 DEF LinkedOnce
      <4> QED BY <4>1, <4>2
    <3> QED BY <3>2, <3>3
  <2> QED BY <2>1, <2>2
<1> QED BY <1>2 DEF LinkedOnce, UsesReference

(* The row a session commits is the first of its kind to use its reference.*)
LEMMA CommitUsesFirst ==
  ASSUME RefusalInv, NEW s \in Sessions, Commit(s)
  PROVE  FirstUse(txns'[Len(txns) + 1])
<1> DEFINE t == Len(txns) + 1
<1>1. PICK c, o : c = call[s] /\ o = draft[s]
  OBVIOUS
<1>2. /\ TypeInv /\ pc[s] = "flush" /\ DraftRefers(s)
      /\ ~ReferenceKindTaken(o.ref, c.payload.kind, o.status)
      /\ txns' = Append(txns, Row(c.key, c.payload, Relink(o, Own, t)))
  BY <1>1 DEF RefusalInv, ReasonsInv, UniqueInv, LedgerInv, Commit
<1>3. /\ o \in Outcomes /\ Row(c.key, c.payload, Relink(o, Own, t)) \in Rows
      /\ Len(txns) \in Nat /\ DOMAIN txns = 1 .. Len(txns)
  BY <1>1, <1>2, CommitFinds, RowOK, VisibleRows
<1>4. txns'[t] = Row(c.key, c.payload, Relink(o, Own, t))
  BY <1>2, <1>3, AppendProperties DEF TypeInv, TablesTypeOK
<1>5. /\ txns'[t].payload = c.payload /\ txns'[t].status = o.status
      /\ o.ref # Own => txns'[t].ref = o.ref
  BY <1>3, <1>4 DEF Row, Relink, Outcomes
<1> SUFFICES ASSUME UsesReference(txns'[t])
             PROVE  /\ Refers(txns'[t].payload, txns'[t].ref)
                    /\ \A u \in DOMAIN txns :
                         UsesReference(txns[u]) /\ txns[u].ref = txns'[t].ref
                           => txns[u].payload.kind # txns'[t].payload.kind
  BY DEF FirstUse
<1>6. o.status = "PROCESSED" /\ ShouldResolveReference(c.payload) /\ Refers(c.payload, o.ref)
  BY <1>1, <1>2, <1>5 DEF UsesReference, DraftRefers
<1>7. o.ref # Own /\ o.ref # NoTx
  BY <1>3, <1>6 DEF Refers, Own, NoTx
<1>8. \A u \in DOMAIN txns :
        UsesReference(txns[u]) /\ txns[u].ref = o.ref => txns[u].payload.kind # c.payload.kind
  BY <1>2, <1>6, <1>7 DEF ReferenceKindTaken, UsesReference, ActiveStatus
<1> QED BY <1>5, <1>6, <1>7, <1>8

LEMMA ServiceKeepsLinks ==
  ASSUME RefusalInv, LinkedOnce, [Next]_vars
  PROVE  LinkedOnce'
<1>1. TypeInv /\ DOMAIN txns = 1 .. Len(txns) /\ Len(txns) \in Nat
  BY VisibleRows DEF RefusalInv, UniqueInv, LedgerInv
<1>2. CASE UNCHANGED txns
  BY <1>2 DEF LinkedOnce, Refers
<1>3. ASSUME NEW row \in Rows, txns' = Append(txns, row), FirstUse(row)
      PROVE  LinkedOnce'
  <2> DEFINE t == Len(txns) + 1
  <2>1. txns \in Seq(Rows)
    BY <1>1 DEF TypeInv, TablesTypeOK
  <2>2. /\ DOMAIN txns' = DOMAIN txns \cup {t} /\ txns'[t] = row
        /\ \A u \in DOMAIN txns : txns'[u] = txns[u]
    BY <1>1, <1>3, <2>1, AppendProperties, LenProperties
  <2> HIDE DEF t
  <2> QED BY <1>3, <2>2, FirstUseKeepsLinks
<1>4. ASSUME NEW w \in Wallets, NEW player \in Players, NEW currency \in Currencies,
             NEW amount \in Openings, CreateWallet(w, player, currency, amount)
      PROVE  LinkedOnce'
  <2>1. OpeningRow(w) \in Rows
    BY DEF OpeningRow, Row, Rows, Payloads, Statuses, NoTx, NoBalance
  <2>2. FirstUse(OpeningRow(w))
    BY DEF FirstUse, UsesReference, OpeningRow, Row, OpeningPayload, ShouldResolveReference
  <2> QED BY <1>2, <1>3, <1>4, <2>1, <2>2 DEF CreateWallet
<1>5. ASSUME NEW s \in Sessions, Session(s) PROVE LinkedOnce'
  <2>1. CASE Commit(s)
    <3>1. PICK row : row = Row(call[s].key, call[s].payload,
                               Relink(draft[s], Own, Len(txns) + 1))
      OBVIOUS
    <3>2. row \in Rows /\ txns' = Append(txns, row)
      BY <1>1, <2>1, <3>1, CommitFinds, RowOK DEF Commit
    <3>3. txns'[Len(txns) + 1] = row
      BY <1>1, <3>2, AppendProperties DEF TypeInv, TablesTypeOK
    <3>4. FirstUse(row)
      BY <2>1, <3>3, CommitUsesFirst
    <3> QED BY <1>3, <3>2, <3>4
  <2>2. CASE ~Commit(s)
    BY <1>1, <1>2, <1>5, <2>2, WritersEnter
  <2> QED BY <2>1, <2>2
<1>6. CASE UNCHANGED vars
  BY <1>2, <1>6 DEF vars, tables
<1> QED BY <1>4, <1>5, <1>6 DEF Next

(* An operation is refunded, rolled back and paid out at most once each,   *)
(* under any names, keys and channels and for any concurrent sessions: the *)
(* decision links the row it names, and the unique index on the link, read *)
(* with the one on external ids, leaves room for one row of a kind.        *)
THEOREM ReferencesServeOnce == Spec => []ReferencesUsedOnce
<1>1. Init => LinkedOnce
  BY DEF Init, LinkedOnce
<1>2. RefusalInv /\ LinkedOnce /\ [Next]_vars => LinkedOnce'
  BY ServiceKeepsLinks
<1>3. RefusalInv /\ LinkedOnce => ReferencesUsedOnce
  BY LinksAreNames DEF RefusalInv, UniqueInv
<1> QED BY <1>1, <1>2, <1>3, RefusalInvHolds, PTL DEF Spec
===============================================================================
