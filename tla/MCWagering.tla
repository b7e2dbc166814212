------------------------------ MODULE MCWagering ------------------------------
(* Small instances of Wagering for TLC.                                    *)
EXTENDS HttpWagering, TLC

CONSTANTS w1, w2, ana, bob, brl, prov1, prov2, r1,
          k1, k2, k3, k4, k5, e1, e2, e3, e4, e5, m1

SessionSymmetry == Permutations(Sessions)

Http(key, payload)     == [key |-> key, payload |-> payload, msg |-> Null]
Sqs(key, payload, msg) == [key |-> key, payload |-> payload, msg |-> msg]

Pay(ext, kind, amount, refExt) ==
  [ext |-> ext, kind |-> kind, amount |-> amount, refExt |-> refExt,
   provider |-> prov1, player |-> ana, wallet |-> w1, currency |-> brl,
   round |-> r1]

Bet(ext) == Pay(ext, "BET", 2, Null)

(* Two bets of which the balance covers one.  The first also arrives as a  *)
(* message under a key of its own; the second reuses that message's id; a  *)
(* loss reuses the first one's key.                                        *)
RaceCalls == {Http(k1, Bet(e1)), Sqs(k2, Bet(e1), m1), Sqs(k3, Bet(e2), m1),
              Http(k1, Pay(e3, "LOSS", 1, Null))}

(* Two refunds of one bet race, with each other and with a bet to which    *)
(* another provider gave the same external id: a refund that runs before   *)
(* its own provider's bet finds that one.                                  *)
ScopeCalls ==
  {Http(k1, Bet(e1)), Http(k2, [Bet(e1) EXCEPT !.provider = prov2]),
   Http(k4, Pay(e4, "REFUND", 2, e1)), Http(k5, Pay(e5, "REFUND", 2, e1))}

(* One message id for a bet and for a rollback of itself, whose loser goes *)
(* round the attempt loop, and two wins of the bet, which meet at the      *)
(* reference index.                                                        *)
LiveCalls ==
  {Sqs(k1, Bet(e1), m1), Sqs(k4, Pay(e4, "ROLLBACK", 2, e4), m1),
   Http(k2, Pay(e2, "WIN", 2, e1)), Http(k3, Pay(e3, "WIN", 1, e1))}

(* Two wins that reference the same bet.                                   *)
WinCalls ==
  {Http(k1, Bet(e1)), Http(k2, Pay(e2, "WIN", 2, e1)),
   Http(k3, Pay(e3, "WIN", 1, e1))}
===============================================================================
