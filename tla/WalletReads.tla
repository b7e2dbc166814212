------------------------------ MODULE WalletReads ------------------------------
(***************************************************************************)
(* The readers of wallets and wallet_ledger_entries: ReconciliationService *)
(* .reconcile and WalletService.ledger, whose statements are autocommitted *)
(* and run beside the commits of LedgerBook (which Wagering and            *)
(* PendingReference implement).                                            *)
(*                                                                         *)
(* Abstractions.  An entry is known by its sort key [at, id]: created_at   *)
(* is drawn from an instance's clock before the entry commits, so it may   *)
(* be any time; id is a random uuid, so it may fall anywhere in the order. *)
(* A cursor is the key it encodes: both keep milliseconds.  Amounts are    *)
(* minor units, and the other columns of an entry are left out.            *)
(***************************************************************************)
EXTENDS LedgerBook, FiniteSets, Functions

CONSTANTS
  Auditors,  \* concurrent calls of reconcile
  Clients,   \* clients that follow the cursors of ledger pages
  Times,     \* values of created_at
  Ids,       \* entry ids, bound: as many entries as this per wallet
  Limits,    \* limits clients ask for
  MaxPage    \* the largest page (100 in production)

Keys == [at : Times, id : Ids]

ASSUME ReadsAssumption ==
  /\ Times \subseteq Int /\ Ids \subseteq Int /\ Limits \subseteq Int
  /\ MaxPage \in Nat \ {0}
  /\ Null \notin Keys

VARIABLES
  keys,     \* sort keys of each wallet's entries, in commit order
  check,    \* what each auditor has read so far
  report,   \* its last result
  scan,     \* the wallet each client lists: Null or its id
  cursor,   \* nextCursor of the last page: Null when it was the last
  page,     \* the entries of the last page
  listed,   \* the entries of the pages before it
  known     \* the entries committed when the first page was read

auditVars == <<check, report>>
listVars  == <<scan, cursor, page, listed, known>>
vars      == <<bookVars, keys, auditVars, listVars>>

NoCheck  == [wallet |-> Null, stored |-> 0, before |-> 0]
NoReport == [wallet |-> Null, stored |-> 0, calculated |-> 0, checked |-> 0,
             consistent |-> TRUE, before |-> 0]

-------------------------------------------------------------------------------
(* Commits of the other services                                           *)

EntryKeys(w) == Range(keys[w])

(* The entry a step appends to the ledger has a sort key of its own.       *)
Stamp(w) ==
  IF ledger' = ledger THEN UNCHANGED keys
  ELSE \E k \in Keys : /\ \A e \in EntryKeys(w) : e.id # k.id
                       /\ keys' = [keys EXCEPT ![w] = Append(@, k)]

Commit(w) ==
  /\ \/ \E amount \in Openings : Open(w, amount)
     \/ \E change \in Movements : Post(w, change)
  /\ Stamp(w)
  /\ UNCHANGED <<auditVars, listVars>>

-------------------------------------------------------------------------------
(* ReconciliationService.reconcile                                         *)

Total(changes) == FoldFunction(+, 0, changes)

(* Its first statement reads the wallet; an unknown wallet ends the call.  *)
(* `before` remembers how many entries were committed by then.             *)
ReadWallet(a, w) ==
  /\ check[a] = NoCheck
  /\ balance[w] # Null
  /\ check' = [check EXCEPT ![a] = [wallet |-> w, stored |-> balance[w],
                                    before |-> Len(ledger[w])]]
  /\ UNCHANGED <<bookVars, keys, report, listVars>>

(* Its second statement sums and counts the entries, and it compares.      *)
SumLedger(a) ==
  LET c     == check[a]
      total == Total(ledger[c.wallet])
  IN
  /\ c # NoCheck
  /\ report' = [report EXCEPT ![a] =
       [wallet |-> c.wallet, stored |-> c.stored, calculated |-> total,
        checked |-> Len(ledger[c.wallet]), consistent |-> c.stored = total,
        before |-> c.before]]
  /\ check' = [check EXCEPT ![a] = NoCheck]
  /\ UNCHANGED <<bookVars, keys, listVars>>

-------------------------------------------------------------------------------
(* WalletService.ledger                                                    *)

(* (created_at, id) < (created_at, id) *)
Below(e, f) == e.at < f.at \/ (e.at = f.at /\ e.id < f.id)

PageSize(limit) ==
  CASE limit < 1       -> 1
    [] limit > MaxPage -> MaxPage
    [] OTHER           -> limit

(* ORDER BY created_at DESC, id DESC LIMIT n                               *)
Top(entries, n) == {e \in entries : Cardinality({f \in entries : Below(e, f)}) < n}

Lowest(entries) == CHOOSE e \in entries : \A f \in entries \ {e} : Below(e, f)

(* Mutant: <= instead of <.                                                *)
MatchingInclusive(w, after) ==
  {e \in EntryKeys(w) : after = Null \/ e = after \/ Below(e, after)}

(* WHERE wallet_id = ? AND (? is null OR (created_at, id) < (?, ?))        *)
Matching(w, after) == {e \in EntryKeys(w) : after = Null \/ Below(e, after)}

(* Mutant: the cursor is the last row fetched instead of the last one shown. *)
NextCursorOfLastRow(rows, size) ==
  IF Cardinality(rows) > size THEN Lowest(rows) ELSE Null

(* buildNextCursor: rows holds one more than the page if there is more.    *)
NextCursor(rows, size) ==
  IF Cardinality(rows) > size THEN Lowest(Top(rows, size)) ELSE Null

Answer(c, w, after, limit) ==
  LET size == PageSize(limit)
      rows == Top(Matching(w, after), size + 1)
  IN
  /\ page'   = [page EXCEPT ![c] = Top(rows, size)]
  /\ cursor' = [cursor EXCEPT ![c] = NextCursor(rows, size)]

FirstPage(c, w, limit) ==
  /\ Answer(c, w, Null, limit)
  /\ scan'   = [scan EXCEPT ![c] = w]
  /\ listed' = [listed EXCEPT ![c] = {}]
  /\ known'  = [known EXCEPT ![c] = EntryKeys(w)]
  /\ UNCHANGED <<bookVars, keys, auditVars>>

NextPage(c, limit) ==
  /\ cursor[c] # Null
  /\ Answer(c, scan[c], cursor[c], limit)
  /\ listed' = [listed EXCEPT ![c] = @ \cup page[c]]
  /\ UNCHANGED <<bookVars, keys, auditVars, scan, known>>

-------------------------------------------------------------------------------
Init ==
  /\ BookInit
  /\ keys   = [w \in Wallets |-> << >>]
  /\ check  = [a \in Auditors |-> NoCheck]
  /\ report = [a \in Auditors |-> NoReport]
  /\ scan   = [c \in Clients |-> Null]
  /\ cursor = [c \in Clients |-> Null]
  /\ page   = [c \in Clients |-> {}]
  /\ listed = [c \in Clients |-> {}]
  /\ known  = [c \in Clients |-> {}]

Next ==
  \/ \E w \in Wallets : Commit(w)
  \/ \E a \in Auditors : \/ \E w \in Wallets : ReadWallet(a, w)
                         \/ SumLedger(a)
  \/ \E c \in Clients, limit \in Limits :
       \/ \E w \in Wallets : FirstPage(c, w, limit)
       \/ NextPage(c, limit)

Spec == Init /\ [][Next]_vars

-------------------------------------------------------------------------------
(* Properties                                                              *)

Reports ==
  [wallet : Wallets \cup {Null}, stored : Nat, calculated : Int,
   checked : Nat, consistent : BOOLEAN, before : Nat]

(* Types, and: every ledger entry has one sort key, no two entries of a    *)
(* wallet share an id, and a client's pages come from the wallet it lists. *)
ReadsTypeOK ==
  /\ balance \in [Wallets -> Nat \cup {Null}]
  /\ ledger \in [Wallets -> Seq(Int)]
  /\ keys \in [Wallets -> Seq(Keys)]
  /\ \A w \in Wallets :
       /\ Len(keys[w]) = Len(ledger[w])
       /\ \A i, j \in DOMAIN keys[w] : keys[w][i].id = keys[w][j].id => i = j
  /\ check \in [Auditors -> [wallet : Wallets \cup {Null}, stored : Nat, before : Nat]]
  /\ report \in [Auditors -> Reports]
  /\ scan \in [Clients -> Wallets \cup {Null}]
  /\ cursor \in [Clients -> Keys \cup {Null}]
  /\ page \in [Clients -> SUBSET Keys]
  /\ listed \in [Clients -> SUBSET Keys]
  /\ known \in [Clients -> SUBSET Keys]

(* A reconciliation reports a difference that is exactly undone by the     *)
(* entries committed between its two statements: no divergence is invented *)
(* beyond those, none is hidden, and without a commit in between stored    *)
(* and calculated balance agree.                                           *)
DivergenceIsExplained ==
  \A a \in Auditors :
    LET r == report[a] IN
    r # NoReport =>
      /\ r.calculated - r.stored =
           Total(SubSeq(ledger[r.wallet], r.before + 1, r.checked))
      /\ r.consistent <=> r.calculated = r.stored

(* Following the cursors goes strictly down the order, whatever commits in *)
(* between and whatever the clocks say: no entry is listed twice, and a    *)
(* later page never shows an entry above an earlier one                    *)
(* (docs/brain/entities/WalletLedgerEntry.md:25, stable order).            *)
PagesDescend ==
  \A c \in Clients : \A e \in page[c], f \in listed[c] : Below(e, f)

(* A client that has followed the cursors to the last page has seen every  *)
(* entry that was committed when it read the first one, although pages are *)
(* read in separate statements and entries may have equal times.           *)
ListingIsComplete ==
  \A c \in Clients :
    cursor[c] = Null => known[c] \subseteq listed[c] \cup page[c]
===============================================================================
