----------------------------- MODULE HttpWagering -----------------------------
(***************************************************************************)
(* What wagering.controller.ts makes of the answers of Wagering: the HTTP  *)
(* status a client of POST /wagering/transactions sees.  The controller    *)
(* keeps no state; its DTO check is CallsAssumption.                       *)
(***************************************************************************)
EXTENDS Wagering

(* exceptionConstructors: the codes with a status of their own.            *)
ErrorStatus ==
  [IDEMPOTENCY_CONFLICT |-> 409, WALLET_NOT_FOUND |-> 404,
   DEPENDENCY_UNAVAILABLE |-> 503]

(* Mutant: the table is not consulted.                                     *)
ToHttpErrorUnprocessable(code) == 422

ToHttpError(code) ==
  IF code \in DOMAIN ErrorStatus THEN ErrorStatus[code] ELSE 422

OutputStatus ==
  [PROCESSED |-> 200, PENDING_REFERENCE |-> 202, REJECTED |-> 422]

HttpStatus(a) ==
  IF a.code # "NONE" THEN ToHttpError(a.code) ELSE OutputStatus[a.status]

(* A client that was refused (422), or told that its key or external id    *)
(* belongs to another operation (409).                                     *)
Refused(a, row) ==
  /\ a.call # Null /\ a.call.msg = Null
  /\ row.payload = a.call.payload
  /\ \/ HttpStatus(a) = 422
     \/ HttpStatus(a) = 409 /\ row.key = a.call.key

(* A refusal is final: once a client has read 422 no later step, of a call *)
(* under any key and over any channel or of a worker, carries the operation *)
(* out or parks it, and after 409 none does so under the same key.  404 and *)
(* 503 promise nothing, which is why they must not look like refusals.     *)
RefusalsAreFinal ==
  [][\A t \in DOMAIN txns' : \A s \in Sessions :
       /\ Refused(answer[s], txns'[t])
       /\ t \in DOMAIN txns => txns'[t] # txns[t]
       => txns'[t].status = "REJECTED"]_vars
===============================================================================
