------------------------------ MODULE LedgerBook ------------------------------
(***************************************************************************)
(* What the commits of the wagering and wallet services promise to those   *)
(* who read wallets and wallet_ledger_entries: a wallet's balance and its  *)
(* ledger change in one step, by one entry at a time, appended last; an    *)
(* entry never changes or disappears, and no balance is negative.          *)
(***************************************************************************)
EXTENDS Integers, Sequences

CONSTANTS
  Wallets,    \* wallet ids
  Openings,   \* initial balances
  Movements,  \* signed amounts: credits are positive
  Null        \* no wallet row

ASSUME LedgerAssumption ==
  /\ Openings \subseteq Nat
  /\ Movements \subseteq Int \ {0}
  /\ Null \notin Int

VARIABLES balance,  \* balance of each wallet, Null before it is created
          ledger    \* signed amounts of its entries, in commit order

bookVars == <<balance, ledger>>

BookInit ==
  /\ balance = [w \in Wallets |-> Null]
  /\ ledger  = [w \in Wallets |-> << >>]

Open(w, amount) ==
  /\ balance[w] = Null
  /\ balance' = [balance EXCEPT ![w] = amount]
  /\ ledger'  = IF amount = 0 THEN ledger
                ELSE [ledger EXCEPT ![w] = Append(@, amount)]

(* Mutants: the balance is not written, or not checked.                    *)
PostWithoutBalance(w, change) ==
  /\ balance[w] # Null
  /\ balance[w] + change >= 0
  /\ ledger' = [ledger EXCEPT ![w] = Append(@, change)]
  /\ UNCHANGED balance

PostUnchecked(w, change) ==
  /\ balance[w] # Null
  /\ balance' = [balance EXCEPT ![w] = @ + change]
  /\ ledger'  = [ledger EXCEPT ![w] = Append(@, change)]

Post(w, change) ==
  /\ balance[w] # Null
  /\ balance[w] + change >= 0
  /\ balance' = [balance EXCEPT ![w] = @ + change]
  /\ ledger'  = [ledger EXCEPT ![w] = Append(@, change)]

BookNext ==
  \E w \in Wallets :
    \/ \E amount \in Openings : Open(w, amount)
    \/ \E change \in Movements : Post(w, change)

BookSpec == BookInit /\ [][BookNext]_bookVars
===============================================================================
