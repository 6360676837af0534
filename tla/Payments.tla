------------------------------ MODULE Payments ------------------------------
(***************************************************************************)
(* The payment service: one payment row per reservation in Postgres, the   *)
(* gateway that takes and returns the money, and the handlers that read    *)
(* the row, wait for the gateway or the database, and write it.            *)
(*                                                                         *)
(* The gateway (SSLCommerz or the mock) is outside the code.  It gives     *)
(* every attempt a transaction of its own, settles it when it likes, and   *)
(* calls back /payments/confirm as often as it likes, but tells the truth. *)
(***************************************************************************)
EXTENDS Integers, FiniteSets

CONSTANTS
  Reservations,
  Txns,       \* bound: the attempts the gateway will ever see
  Reqs,       \* concurrent requests
  Amount,     \* the price of each reservation, in whole units
  MaxGiven,   \* bound: what the gateway will ever return of one transaction
  Regimes,    \* the sets of perils to consider
  None

\* overlap: requests about one payment may be in flight together
\* refunds: even two refunds of it
\* failure: a handler may stop at an await, an answer or an event may be lost
AllPerils == {"overlap", "refunds", "failure"}

ASSUME ConstantsAssumption ==
  /\ Amount \in Nat \ {0}
  /\ MaxGiven \in Nat
  /\ Regimes \subseteq SUBSET AllPerils
  /\ None \notin Txns \cup Reservations

VARIABLES
  pay,     \* the payment row of each reservation
  gw,      \* the gateway: what became of each transaction
  told,    \* the last event published about each reservation
  req,     \* locals of each request in flight
  perils   \* what may happen, one of Regimes for good

vars == <<pay, gw, told, req, perils>>

-----------------------------------------------------------------------------
\* The code never writes PENDING.
Statuses == {"PROCESSING", "COMPLETED", "FAILED", "CANCELLED", "REFUNDED", "PARTIALLY_REFUNDED"}

NoPay == [status |-> "none", txn |-> None, refunded |-> 0]
NoTxn == [state |-> "unused", for |-> None, given |-> 0]
NoReq == [call |-> "none", step |-> "idle", for |-> None, txn |-> None,
          status |-> "none", amount |-> 0, seen |-> 0]

PayRec == [status : Statuses \cup {"none"}, txn : Txns \cup {None}, refunded : Nat]
TxnRec == [state : {"unused", "open", "paid", "failed"},
           for : Reservations \cup {None}, given : Nat]
ReqRec == [call : {"none", "initiate", "confirm", "refund", "cancel"},
           step : {"idle", "charge", "create", "gateway", "write", "announce"},
           for : Reservations \cup {None}, txn : Txns \cup {None},
           status : Statuses \cup {"none"}, amount : Nat, seen : Nat]
Events == {"payment.completed", "payment.failed", "refund.completed"}

TypeOK ==
  /\ pay \in [Reservations -> PayRec]
  /\ gw \in [Txns -> TxnRec]
  /\ told \in [Reservations -> Events \cup {"none"}]
  /\ req \in [Reqs -> ReqRec]
  /\ perils \in Regimes

Init ==
  /\ pay = [r \in Reservations |-> NoPay]
  /\ gw = [t \in Txns |-> NoTxn]
  /\ told = [r \in Reservations |-> "none"]
  /\ req = [p \in Reqs |-> NoReq]
  /\ perils \in Regimes

Requested(r) == \E p \in Reqs : req[p].for = r

\* The money of t is, or may still come, with the company.
Accepted(t) == gw[t].state \in {"open", "paid"}

Start(p, r) ==
  /\ req[p] = NoReq
  /\ "overlap" \in perils \/ ~Requested(r)

Finish(p) == req' = [req EXCEPT ![p] = NoReq]

-----------------------------------------------------------------------------
(* POST /payments/initiate: PaymentsService.initiatePayment.               *)

\* Mutant: only a completed payment refuses another attempt.
InitiateUnlessCompleted(p, r) ==
  /\ Start(p, r)
  /\ pay[r].status # "COMPLETED"
  /\ req' = [req EXCEPT ![p] = [NoReq EXCEPT !.call = "initiate", !.step = "charge", !.for = r]]
  /\ UNCHANGED <<pay, gw, told, perils>>

\* findUnique: a completed or open payment is a 409; any other one is ignored.
InitiateRead(p, r) ==
  /\ Start(p, r)
  /\ pay[r].status \notin {"COMPLETED", "PENDING", "PROCESSING"}
  /\ req' = [req EXCEPT ![p] = [NoReq EXCEPT !.call = "initiate", !.step = "charge", !.for = r]]
  /\ UNCHANGED <<pay, gw, told, perils>>

\* gateway.processPayment, before anything is written: accepted (the mock has
\* taken the money, SSLCommerz has opened its page) or declined.
InitiateCharge(p, t, state) ==
  /\ req[p].step = "charge"
  /\ gw[t].state = "unused"
  /\ gw' = [gw EXCEPT ![t] = [state |-> state, for |-> req[p].for, given |-> 0]]
  /\ req' = [req EXCEPT ![p].step = "create", ![p].txn = t,
                        ![p].status = IF state = "open" THEN "PROCESSING" ELSE "FAILED"]
  /\ UNCHANGED <<pay, told, perils>>

\* The gateway accepted t and its answer is lost: the catch makes up another
\* transaction id, u, and reports a failure.
InitiateUnanswered(p, t, u) ==
  /\ "failure" \in perils
  /\ req[p].step = "charge"
  /\ t # u /\ gw[t].state = "unused" /\ gw[u].state = "unused"
  /\ gw' = [gw EXCEPT ![t] = [state |-> "open", for |-> req[p].for, given |-> 0],
                      ![u] = [state |-> "failed", for |-> req[p].for, given |-> 0]]
  /\ req' = [req EXCEPT ![p].step = "create", ![p].txn = u, ![p].status = "FAILED"]
  /\ UNCHANGED <<pay, told, perils>>

\* payment.create: reservationId is unique, so where there is a row it throws.
InitiateCreate(p) ==
  /\ req[p].step = "create"
  /\ LET r == req[p].for
     IN  pay' = IF pay[r] # NoPay THEN pay
                ELSE [pay EXCEPT ![r] = [status |-> req[p].status, txn |-> req[p].txn,
                                         refunded |-> 0]]
  /\ Finish(p)
  /\ UNCHANGED <<gw, told, perils>>

-----------------------------------------------------------------------------
(* POST /payments/confirm: PaymentsService.confirmPayment, called back by  *)
(* the gateway, which says what became of the transaction.                 *)

ConfirmRead(p, r, status) ==
  /\ Start(p, r)
  /\ pay[r].status \notin {"none", "COMPLETED", "CANCELLED"}
  /\ gw[pay[r].txn].state = (IF status = "COMPLETED" THEN "paid" ELSE "failed")
  /\ req' = [req EXCEPT ![p] = [NoReq EXCEPT !.call = "confirm", !.step = "write",
                                             !.for = r, !.status = status]]
  /\ UNCHANGED <<pay, gw, told, perils>>

\* Mutant: the whole row is written again, the refunds of before forgotten.
ConfirmAfresh(p) ==
  /\ req[p].call = "confirm" /\ req[p].step = "write"
  /\ pay' = [pay EXCEPT ![req[p].for].status = req[p].status, ![req[p].for].refunded = 0]
  /\ req' = [req EXCEPT ![p].step = "announce"]
  /\ UNCHANGED <<gw, told, perils>>

\* payment.update, whatever the row holds by now.
ConfirmWrite(p) ==
  /\ req[p].call = "confirm" /\ req[p].step = "write"
  /\ pay' = [pay EXCEPT ![req[p].for].status = req[p].status]
  /\ req' = [req EXCEPT ![p].step = "announce"]
  /\ UNCHANGED <<gw, told, perils>>

\* Mutant: the status for the routing key.
EventIsStatus(call, status) == status

\* The last step of a confirmation and of a refund: publish the event.
EventOf(call, status) ==
  IF call = "refund" THEN "refund.completed"
  ELSE IF status = "COMPLETED" THEN "payment.completed" ELSE "payment.failed"

Announce(p) ==
  /\ req[p].step = "announce"
  /\ told' = [told EXCEPT ![req[p].for] = EventOf(req[p].call, req[p].status)]
  /\ Finish(p)
  /\ UNCHANGED <<pay, gw, perils>>

-----------------------------------------------------------------------------
(* POST /payments/:id/refund: PaymentsService.refundPayment.               *)

\* Mutant: what was refunded before is not looked at.
RefundAny(p, r, amount) ==
  /\ Start(p, r)
  /\ "refunds" \in perils \/ \A q \in Reqs : req[q].for = r => req[q].call # "refund"
  /\ pay[r].status = "COMPLETED"
  /\ amount <= Amount
  /\ req' = [req EXCEPT ![p] = [NoReq EXCEPT !.call = "refund", !.step = "gateway", !.for = r,
                                  !.txn = pay[r].txn, !.amount = amount,
                                  !.seen = pay[r].refunded]]
  /\ UNCHANGED <<pay, gw, told, perils>>

RefundRead(p, r, amount) ==
  /\ Start(p, r)
  /\ "refunds" \in perils \/ \A q \in Reqs : req[q].for = r => req[q].call # "refund"
  /\ pay[r].status = "COMPLETED"
  /\ amount <= Amount - pay[r].refunded
  /\ req' = [req EXCEPT ![p] = [NoReq EXCEPT !.call = "refund", !.step = "gateway", !.for = r,
                                  !.txn = pay[r].txn, !.amount = amount,
                                  !.seen = pay[r].refunded]]
  /\ UNCHANGED <<pay, gw, told, perils>>

\* gateway.processRefund succeeds.
RefundGateway(p) ==
  /\ req[p].step = "gateway"
  /\ gw[req[p].txn].given + req[p].amount <= MaxGiven
  /\ gw' = [gw EXCEPT ![req[p].txn].given = @ + req[p].amount]
  /\ req' = [req EXCEPT ![p].step = "write"]
  /\ UNCHANGED <<pay, told, perils>>

\* Mutant: the gateway's answer is not looked at.
RefundAnyway(p) ==
  /\ req[p].step = "gateway"
  /\ req' = [req EXCEPT ![p].step = "write"]
  /\ UNCHANGED <<pay, gw, told, perils>>

\* It reports a failure: nothing is written.  (When only its answer was lost the
\* money has been returned all the same: RefundGateway, then Stop.)
RefundRefused(p) ==
  /\ req[p].step = "gateway"
  /\ Finish(p)
  /\ UNCHANGED <<pay, gw, told, perils>>

\* Mutant: the refund is recorded and nobody is told.
RefundSilently(p) ==
  /\ req[p].call = "refund" /\ req[p].step = "write"
  /\ LET total == req[p].seen + req[p].amount
     IN  pay' = [pay EXCEPT ![req[p].for].refunded = total,
                            ![req[p].for].status = IF total >= Amount THEN "REFUNDED"
                                                   ELSE "PARTIALLY_REFUNDED"]
  /\ Finish(p)
  /\ UNCHANGED <<gw, told, perils>>

\* refundAmount := what the row said before the gateway was called + the amount.
RefundWrite(p) ==
  /\ req[p].call = "refund" /\ req[p].step = "write"
  /\ LET total == req[p].seen + req[p].amount
     IN  pay' = [pay EXCEPT ![req[p].for].refunded = total,
                            ![req[p].for].status = IF total >= Amount THEN "REFUNDED"
                                                   ELSE "PARTIALLY_REFUNDED"]
  /\ req' = [req EXCEPT ![p].step = "announce"]
  /\ UNCHANGED <<gw, told, perils>>

-----------------------------------------------------------------------------
(* POST /payments/:id/cancel: PaymentsService.cancelPayment.  The gateway  *)
(* is not told.                                                            *)

CancelRead(p, r) ==
  /\ Start(p, r)
  /\ pay[r].status \in {"PENDING", "PROCESSING"}
  /\ req' = [req EXCEPT ![p] = [NoReq EXCEPT !.call = "cancel", !.step = "write", !.for = r]]
  /\ UNCHANGED <<pay, gw, told, perils>>

CancelWrite(p) ==
  /\ req[p].call = "cancel" /\ req[p].step = "write"
  /\ pay' = [pay EXCEPT ![req[p].for].status = "CANCELLED"]
  /\ Finish(p)
  /\ UNCHANGED <<gw, told, perils>>

-----------------------------------------------------------------------------
\* The customer pays, or does not.
Settle(t, state) ==
  /\ gw[t].state = "open"
  /\ gw' = [gw EXCEPT ![t].state = state]
  /\ UNCHANGED <<pay, told, req, perils>>

\* A handler stops at an await; an event that was to be published is lost (the
\* channel is down, or the process).
Stop(p) ==
  /\ "failure" \in perils
  /\ req[p] # NoReq
  /\ Finish(p)
  /\ UNCHANGED <<pay, gw, told, perils>>

RequestStart(p) ==
  \E r \in Reservations :
    \/ InitiateRead(p, r) \/ CancelRead(p, r)
    \/ \E status \in {"COMPLETED", "FAILED"} : ConfirmRead(p, r, status)
    \/ \E amount \in 1..Amount : RefundRead(p, r, amount)

RequestStep(p) ==
  \/ \E t \in Txns, state \in {"open", "failed"} : InitiateCharge(p, t, state)
  \/ \E t, u \in Txns : InitiateUnanswered(p, t, u)
  \/ InitiateCreate(p) \/ ConfirmWrite(p) \/ CancelWrite(p)
  \/ RefundGateway(p) \/ RefundRefused(p) \/ RefundWrite(p)
  \/ Announce(p) \/ Stop(p)

Next ==
  \/ \E p \in Reqs : RequestStart(p) \/ RequestStep(p)
  \/ \E t \in Txns, state \in {"paid", "failed"} : Settle(t, state)

Spec == Init /\ [][Next]_vars

-----------------------------------------------------------------------------
\* The refund of r that the gateway has made and no row shows yet.
Returning(r) == {p \in Reqs : req[p].for = r /\ req[p].call = "refund" /\ req[p].step = "write"}

\* As long as refunds of one payment come one by one and handlers complete, the
\* refunds on record are the money returned, and never more than was paid, even
\* if stale or repeated confirmations make a refunded payment COMPLETED again.
RefundsMatch ==
  perils \cap {"refunds", "failure"} = {} =>
    \A r \in Reservations : pay[r].txn # None =>
      /\ gw[pay[r].txn].given <= Amount
      /\ Returning(r) = {} => gw[pay[r].txn].given = pay[r].refunded

\* Whatever overlaps or fails, a refund on record was made by the gateway: the
\* row never says that more money went back than did.
RecordedRefundsWereMade ==
  \A r \in Reservations : pay[r].txn # None => pay[r].refunded <= gw[pay[r].txn].given

\* While the requests about it come one by one and complete, a payment that is
\* open or completed, and was never refunded, is the only one the customer can be
\* charged for this reservation: no other attempt was accepted by the gateway.
LivePaymentIsTheOnlyCharge ==
  perils = {} =>
    \A r \in Reservations :
      pay[r].status \in {"PROCESSING", "COMPLETED"} /\ pay[r].refunded = 0
        => \A t \in Txns : gw[t].for = r /\ Accepted(t) => t = pay[r].txn

\* While requests come one by one and complete, the last event published about a
\* payment is what its row says: a consumer that applies them in order ends there.
EventsTellStatus ==
  perils = {} =>
    \A r \in Reservations : ~Requested(r) =>
      /\ told[r] = "payment.completed" <=> pay[r].status = "COMPLETED"
      /\ told[r] = "refund.completed" <=> pay[r].status \in {"REFUNDED", "PARTIALLY_REFUNDED"}
      /\ told[r] = "payment.failed" => pay[r].status = "FAILED"

-----------------------------------------------------------------------------
(* What the documentation says and the code does not do.                   *)

\* docs/PERFORMANCE_IMPROVEMENTS.md:531, "0% double charges": no reservation is
\* paid for twice, whatever its requests.
NoDoubleCharge ==
  \A r \in Reservations, t, u \in Txns :
    gw[t].for = r /\ gw[u].for = r /\ gw[t].state = "paid" /\ gw[u].state = "paid" => t = u
=============================================================================
