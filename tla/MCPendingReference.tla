-------------------------- MODULE MCPendingReference --------------------------
(* Small instances of PendingReference for TLC.                            *)
EXTENDS PendingReference, HttpWagering, TLC

CONSTANTS w1, w2, ana, brl, prov1, r1, k1, k2, k3, e1, e2, e3

PartySymmetry == Permutations(Sessions) \cup Permutations(Workers)

Pay(ext, kind, amount, refExt) ==
  [ext |-> ext, kind |-> kind, amount |-> amount, refExt |-> refExt,
   provider |-> prov1, player |-> ana, wallet |-> w1, currency |-> brl,
   round |-> r1]

Http(key, payload) == [key |-> key, payload |-> payload, msg |-> Null]

(* A bet and its refund, in either order.                                  *)
RefundCalls == {Http(k1, Pay(e1, "BET", 2, Null)),
                Http(k2, Pay(e2, "REFUND", 2, e1))}

(* ... and the rollback of that refund.                                    *)
ChainCalls == RefundCalls \cup {Http(k3, Pay(e3, "ROLLBACK", 2, e2))}

(* A bet and two wins of it.                                               *)
WinCalls == {Http(k1, Pay(e1, "BET", 2, Null)), Http(k2, Pay(e2, "WIN", 2, e1)),
             Http(k3, Pay(e3, "WIN", 1, e1))}
===============================================================================
