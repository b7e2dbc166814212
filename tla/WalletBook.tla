------------------------------ MODULE WalletBook ------------------------------
(***************************************************************************)
(* What the wagering service promises, without sessions, locks, attempts   *)
(* or tables: an operation (provider, external id) is settled at most      *)
(* once, its result and its effect on the wallet's balance happen in one   *)
(* step, only a processed operation moves money, in the direction of its   *)
(* kind and by its amount, and no balance is ever negative.                *)
(***************************************************************************)
EXTENDS Integers

CONSTANTS Wallets, Operations, Payloads, Openings, Null

VARIABLES balance,   \* balance of each wallet, Null before it is created
          result     \* result of each operation: Null or [payload, status]

bookVars == <<balance, result>>

(* The balance changes a processed payload may cause.                      *)
Effects(p) ==
  CASE p.kind = "LOSS"              -> {0}
    [] p.kind = "BET"               -> {-p.amount}
    [] p.kind \in {"WIN", "REFUND"} -> {p.amount}
    [] p.kind = "ROLLBACK"          -> {p.amount, -p.amount}

BookInit ==
  /\ balance = [w \in Wallets |-> Null]
  /\ result  = [op \in Operations |-> Null]

Open(w, amount) ==
  /\ balance[w] = Null
  /\ balance' = [balance EXCEPT ![w] = amount]
  /\ UNCHANGED result

Process(op, p, change) ==
  /\ result[op] = Null \/ result[op] = [payload |-> p, status |-> "PENDING_REFERENCE"]
  /\ balance[p.wallet] # Null
  /\ balance[p.wallet] + change >= 0
  /\ balance' = [balance EXCEPT ![p.wallet] = @ + change]
  /\ result' = [result EXCEPT ![op] = [payload |-> p, status |-> "PROCESSED"]]

Reject(op, p) ==
  /\ result[op] = Null \/ result[op] = [payload |-> p, status |-> "PENDING_REFERENCE"]
  /\ result' = [result EXCEPT ![op] = [payload |-> p, status |-> "REJECTED"]]
  /\ UNCHANGED balance

Park(op, p) ==
  /\ result[op] = Null
  /\ result' = [result EXCEPT ![op] = [payload |-> p, status |-> "PENDING_REFERENCE"]]
  /\ UNCHANGED balance

BookNext ==
  \/ \E w \in Wallets, amount \in Openings : Open(w, amount)
  \/ \E p \in Payloads :
       LET op == <<p.provider, p.ext>> IN
       \/ \E change \in Effects(p) : Process(op, p, change)
       \/ Reject(op, p)
       \/ Park(op, p)

BookSpec == BookInit /\ [][BookNext]_bookVars
===============================================================================
