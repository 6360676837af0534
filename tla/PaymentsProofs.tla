---------------------------- MODULE PaymentsProofs ----------------------------
(***************************************************************************)
(* Proofs about Payments, for any number of reservations, transactions and *)
(* concurrent requests, and for every regime.                              *)
(***************************************************************************)
EXTENDS Payments, TLAPS

-----------------------------------------------------------------------------
(* Types.                                                                  *)

\* Types at the start.
LEMMA InitType == Init => TypeOK
  BY ConstantsAssumption DEF Init, TypeOK, NoPay, NoTxn, NoReq, PayRec, TxnRec, ReqRec

\* Types when a handler of payments.service.ts ends.
LEMMA FinishType ==
  ASSUME TypeOK, NEW p \in Reqs, Finish(p)
  PROVE  req' \in [Reqs -> ReqRec]
  BY DEF TypeOK, Finish, NoReq, ReqRec

\* Types when a handler reads its row.
LEMMA StartType ==
  ASSUME TypeOK, NEW p \in Reqs, RequestStart(p)
  PROVE  TypeOK'
<1> USE DEF TypeOK
<1>0. NoReq \in ReqRec
  BY DEF NoReq, ReqRec
<1>1. ASSUME NEW r \in Reservations, InitiateRead(p, r) PROVE TypeOK'
  BY <1>0, <1>1 DEF InitiateRead, ReqRec
<1>2. ASSUME NEW r \in Reservations, CancelRead(p, r) PROVE TypeOK'
  BY <1>0, <1>2 DEF CancelRead, ReqRec
<1>3. ASSUME NEW r \in Reservations, NEW status \in {"COMPLETED", "FAILED"},
             ConfirmRead(p, r, status) PROVE TypeOK'
  <2>1. status \in Statuses
    BY DEF Statuses
  <2>2. QED
    BY <1>0, <1>3, <2>1 DEF ConfirmRead, ReqRec
<1>4. ASSUME NEW r \in Reservations, NEW amount \in 1..Amount, RefundRead(p, r, amount)
      PROVE TypeOK'
  <2>1. amount \in Nat /\ pay[r].txn \in Txns \cup {None} /\ pay[r].refunded \in Nat
    BY ConstantsAssumption DEF PayRec
  <2>2. QED
    BY <1>0, <1>4, <2>1 DEF RefundRead, ReqRec
<1>5. QED
  BY <1>1, <1>2, <1>3, <1>4 DEF RequestStart

\* Types when a handler goes on after an await.
LEMMA StepType ==
  ASSUME TypeOK, NEW p \in Reqs, RequestStep(p)
  PROVE  TypeOK'
<1> USE DEF TypeOK
<1>0. req[p] \in ReqRec
  OBVIOUS
<1>1. ASSUME NEW t \in Txns, NEW state \in {"open", "failed"}, InitiateCharge(p, t, state)
      PROVE TypeOK'
  <2>1. gw' \in [Txns -> TxnRec]
    BY <1>0, <1>1 DEF InitiateCharge, TxnRec, ReqRec
  <2>2. req' \in [Reqs -> ReqRec]
    <3>1. (IF state = "open" THEN "PROCESSING" ELSE "FAILED") \in Statuses
      BY DEF Statuses
    <3>2. QED
      BY <1>0, <1>1, <3>1 DEF InitiateCharge, ReqRec
  <2>3. QED
    BY <1>1, <2>1, <2>2 DEF InitiateCharge
<1>2. ASSUME NEW t \in Txns, NEW u \in Txns, InitiateUnanswered(p, t, u) PROVE TypeOK'
  <2>1. gw' \in [Txns -> TxnRec]
    BY <1>0, <1>2 DEF InitiateUnanswered, TxnRec, ReqRec
  <2>2. req' \in [Reqs -> ReqRec]
    BY <1>0, <1>2 DEF InitiateUnanswered, ReqRec, Statuses
  <2>3. QED
    BY <1>2, <2>1, <2>2 DEF InitiateUnanswered
<1>3. CASE InitiateCreate(p)
  <2>1. pay' \in [Reservations -> PayRec]
    <3>1. [status |-> req[p].status, txn |-> req[p].txn, refunded |-> 0] \in PayRec
      BY <1>0 DEF PayRec, ReqRec
    <3>2. QED
      BY <1>3, <3>1 DEF InitiateCreate
  <2>2. QED
    BY <1>3, <2>1, FinishType DEF InitiateCreate
<1>4. CASE ConfirmWrite(p)
  <2>1. pay' \in [Reservations -> PayRec]
    <3>1. \A rec \in PayRec : [rec EXCEPT !.status = req[p].status] \in PayRec
      BY <1>0 DEF PayRec, ReqRec
    <3>2. QED
      BY <1>4, <3>1 DEF ConfirmWrite
  <2>2. req' \in [Reqs -> ReqRec]
    BY <1>0, <1>4 DEF ConfirmWrite, ReqRec
  <2>3. QED
    BY <1>4, <2>1, <2>2 DEF ConfirmWrite
<1>5. CASE CancelWrite(p)
  <2>1. pay' \in [Reservations -> PayRec]
    <3>1. \A rec \in PayRec : [rec EXCEPT !.status = "CANCELLED"] \in PayRec
      BY DEF PayRec, Statuses
    <3>2. QED
      BY <1>5, <3>1 DEF CancelWrite
  <2>2. QED
    BY <1>5, <2>1, FinishType DEF CancelWrite
<1>6. CASE RefundGateway(p)
  <2>1. gw' \in [Txns -> TxnRec]
    <3>1. \A rec \in TxnRec : [rec EXCEPT !.given = rec.given + req[p].amount] \in TxnRec
      BY <1>0 DEF TxnRec, ReqRec
    <3>2. QED
      BY <1>6, <3>1 DEF RefundGateway
  <2>2. req' \in [Reqs -> ReqRec]
    BY <1>0, <1>6 DEF RefundGateway, ReqRec
  <2>3. QED
    BY <1>6, <2>1, <2>2 DEF RefundGateway
<1>7. CASE RefundRefused(p)
  BY <1>7, FinishType DEF RefundRefused
<1>8. CASE RefundWrite(p)
  <2>1. pay' \in [Reservations -> PayRec]
    <3>1. \A rec \in PayRec, n \in Nat, st \in Statuses :
            [rec EXCEPT !.refunded = n, !.status = st] \in PayRec
      BY DEF PayRec
    <3>2. req[p].seen + req[p].amount \in Nat
      BY <1>0 DEF ReqRec
    <3>3. {"REFUNDED", "PARTIALLY_REFUNDED"} \subseteq Statuses
      BY DEF Statuses
    <3>4. QED
      BY <1>8, <3>1, <3>2, <3>3 DEF RefundWrite
  <2>2. req' \in [Reqs -> ReqRec]
    BY <1>0, <1>8 DEF RefundWrite, ReqRec
  <2>3. QED
    BY <1>8, <2>1, <2>2 DEF RefundWrite
<1>9. CASE Announce(p)
  <2>1. told' \in [Reservations -> Events \cup {"none"}]
    BY <1>9 DEF Announce, EventOf, Events
  <2>2. QED
    BY <1>9, <2>1, FinishType DEF Announce
<1>10. CASE Stop(p)
  BY <1>10, FinishType DEF Stop
<1>11. QED
  BY <1>1, <1>2, <1>3, <1>4, <1>5, <1>6, <1>7, <1>8, <1>9, <1>10 DEF RequestStep

\* Types when the customer pays at the gateway.
LEMMA SettleType ==
  ASSUME TypeOK, NEW t \in Txns, NEW state \in {"paid", "failed"}, Settle(t, state)
  PROVE  TypeOK'
  BY DEF TypeOK, Settle, TxnRec

\* Types, in every regime.
THEOREM TypeCorrect == Spec => []TypeOK
<1>1. TypeOK /\ [Next]_vars => TypeOK'
  <2> SUFFICES ASSUME TypeOK, [Next]_vars PROVE TypeOK'
    OBVIOUS
  <2>1. CASE UNCHANGED vars
    BY <2>1 DEF vars, TypeOK
  <2>2. QED
    BY <2>1, StartType, StepType, SettleType DEF Next
<1>2. QED
  BY <1>1, InitType, PTL DEF Spec

-----------------------------------------------------------------------------
(* The inductive invariant.                                                *)

\* A row names a transaction of its own reservation, so no two rows share one.
Rows ==
  \A r \in Reservations :
    \/ pay[r] = NoPay
    \/ pay[r].txn \in Txns /\ gw[pay[r].txn].for = r /\ gw[pay[r].txn].state # "unused"

Unused == \A t \in Txns : gw[t].state = "unused" => gw[t].given = 0

\* What a request in flight knows.
Known ==
  \A p \in Reqs :
    /\ req[p].step # "idle" => req[p].for \in Reservations
    /\ req[p].call = "refund" => req[p].step \in {"gateway", "write", "announce"}
    /\ req[p].step = "gateway" => req[p].call = "refund"
    /\ req[p].step = "create" => /\ req[p].txn \in Txns
                                 /\ gw[req[p].txn].for = req[p].for
                                 /\ gw[req[p].txn].state # "unused"
    /\ req[p].call \in {"confirm", "refund", "cancel"} =>
         req[p].for \in Reservations /\ pay[req[p].for].txn \in Txns
    /\ req[p].call = "refund" => req[p].txn = pay[req[p].for].txn

\* The transaction of an attempt that is not yet recorded is nobody else's.
Fresh ==
  \A p \in Reqs : req[p].step = "create" =>
    /\ gw[req[p].txn].given = 0
    /\ \A r \in Reservations : pay[r].txn # req[p].txn
    /\ \A q \in Reqs \ {p} : req[q].step = "create" => req[q].txn # req[p].txn

\* The money a refund has seen returned, or has had returned, was returned.
Made ==
  /\ RecordedRefundsWereMade
  /\ \A p \in Reqs : req[p].call = "refund" =>
       /\ req[p].step = "gateway" => req[p].seen <= gw[req[p].txn].given
       /\ req[p].step = "write" => req[p].seen + req[p].amount <= gw[req[p].txn].given

\* With one refund of a payment at a time, what it saw is what the row says and
\* what the gateway had returned when it started.
Books ==
  perils \cap {"refunds", "failure"} = {} =>
    /\ RefundsMatch
    /\ \A p, q \in Reqs :
         /\ p # q /\ req[p].call = "refund" /\ req[q].call = "refund" => req[p].for # req[q].for
    /\ \A p \in Reqs : req[p].call = "refund" /\ req[p].step \in {"gateway", "write"} =>
         /\ req[p].seen = pay[req[p].for].refunded
         /\ req[p].seen + req[p].amount <= Amount
         /\ req[p].step = "gateway" => gw[req[p].txn].given = req[p].seen
         /\ req[p].step = "write" => gw[req[p].txn].given = req[p].seen + req[p].amount

IInv == TypeOK /\ Rows /\ Unused /\ Known /\ Fresh /\ Made /\ Books

\* The invariant holds of the empty books.
LEMMA InitInv == Init => IInv
<1> SUFFICES ASSUME Init PROVE IInv
  OBVIOUS
<1>1. TypeOK
  BY InitType
<1>2. QED
  BY <1>1 DEF Init, IInv, Rows, Unused, Known, Fresh, Made, Books,
     RecordedRefundsWereMade, RefundsMatch, NoPay, NoTxn, NoReq

-----------------------------------------------------------------------------
(* Requests that begin.                                                    *)

\* What the locals of a request that has just read its row are.
Sound(rec) ==
  /\ rec.for \in Reservations
  /\ rec.call \in {"initiate", "cancel", "confirm", "refund"}
  /\ rec.step = IF rec.call = "initiate" THEN "charge"
                ELSE IF rec.call = "refund" THEN "gateway" ELSE "write"
  /\ rec.call # "initiate" => pay[rec.for].status # "none"
  /\ rec.call = "refund" =>
       /\ rec.txn = pay[rec.for].txn
       /\ rec.seen = pay[rec.for].refunded
       /\ rec.seen + rec.amount <= Amount
       /\ "refunds" \in perils \/ \A q \in Reqs : req[q].for = rec.for => req[q].call # "refund"

\* A handler that reads its row and starts with such locals keeps the invariant.
LEMMA SoundInv ==
  ASSUME IInv, TypeOK', NEW p \in Reqs, NEW rec \in ReqRec, Sound(rec),
         req[p] = NoReq, req' = [req EXCEPT ![p] = rec], UNCHANGED <<pay, gw, perils>>
  PROVE  IInv'
<1>1. /\ req'[p] = rec
      /\ \A q \in Reqs \ {p} : req'[q] = req[q]
  BY DEF IInv, TypeOK
<1>2. rec.call # "initiate" => pay[rec.for].txn \in Txns
  BY DEF IInv, Rows, Sound, NoPay
<1>3. Rows' /\ Unused'
  BY DEF IInv, Rows, Unused
<1>4. Known'
  BY <1>1, <1>2 DEF IInv, Known, Sound
<1>4a. Fresh'
  BY <1>1 DEF IInv, Fresh, Sound
<1>5. Made'
  <2>1. RecordedRefundsWereMade'
    BY DEF IInv, Made, RecordedRefundsWereMade
  <2>2. rec.call = "refund" => rec.seen <= gw[rec.txn].given
    BY <1>2, ConstantsAssumption DEF IInv, Made, RecordedRefundsWereMade, Sound
  <2>3. QED
    BY <1>1, <2>1, <2>2 DEF IInv, Made, Sound
<1>6. Books'
  <2> SUFFICES ASSUME perils \cap {"refunds", "failure"} = {} PROVE Books'
    BY DEF Books
  <2>1. Returning(rec.for)' = Returning(rec.for)
    BY <1>1 DEF Returning, Sound, NoReq
  <2>2. \A r \in Reservations : Returning(r)' = Returning(r)
    BY <1>1 DEF Returning, Sound, NoReq
  <2>3. RefundsMatch'
    BY <2>2 DEF IInv, Books, RefundsMatch
  <2>4. rec.call = "refund" => Returning(rec.for) = {}
    BY DEF Sound, Returning
  <2>5. rec.call = "refund" => gw[rec.txn].given = rec.seen
    BY <1>2, <2>4, ConstantsAssumption DEF IInv, Books, RefundsMatch, Sound
  <2>6. QED
    BY <1>1, <2>3, <2>5 DEF IInv, Books, Sound
<1>7. QED
  BY <1>3, <1>4, <1>4a, <1>5, <1>6 DEF IInv

\* Reading a row keeps the invariant.
LEMMA StartInv ==
  ASSUME IInv, NEW p \in Reqs, RequestStart(p)
  PROVE  IInv'
<1> USE DEF IInv
<1>0. TypeOK' /\ NoReq \in ReqRec
  BY StartType DEF NoReq, ReqRec
<1>1. ASSUME NEW r \in Reservations, InitiateRead(p, r) PROVE IInv'
  <2> DEFINE rec == [NoReq EXCEPT !.call = "initiate", !.step = "charge", !.for = r]
  <2>1. rec \in ReqRec
    BY <1>0 DEF ReqRec
  <2>2. Sound(rec)
    BY DEF Sound, NoReq
  <2>3. QED
    BY <1>0, <1>1, <2>1, <2>2, SoundInv DEF InitiateRead, Start
<1>2. ASSUME NEW r \in Reservations, CancelRead(p, r) PROVE IInv'
  <2> DEFINE rec == [NoReq EXCEPT !.call = "cancel", !.step = "write", !.for = r]
  <2>1. rec \in ReqRec
    BY <1>0 DEF ReqRec
  <2>2. Sound(rec)
    BY <1>2 DEF CancelRead, Sound, NoReq
  <2>3. QED
    BY <1>0, <1>2, <2>1, <2>2, SoundInv DEF CancelRead, Start
<1>3. ASSUME NEW r \in Reservations, NEW status \in {"COMPLETED", "FAILED"},
             ConfirmRead(p, r, status) PROVE IInv'
  <2> DEFINE rec == [NoReq EXCEPT !.call = "confirm", !.step = "write", !.for = r,
                                  !.status = status]
  <2>1. rec \in ReqRec
    BY <1>0 DEF ReqRec, Statuses
  <2>2. Sound(rec)
    BY <1>3 DEF ConfirmRead, Sound, NoReq
  <2>3. QED
    BY <1>0, <1>3, <2>1, <2>2, SoundInv DEF ConfirmRead, Start
<1>4. ASSUME NEW r \in Reservations, NEW amount \in 1..Amount, RefundRead(p, r, amount)
      PROVE IInv'
  <2> DEFINE rec == [NoReq EXCEPT !.call = "refund", !.step = "gateway", !.for = r,
                       !.txn = pay[r].txn, !.amount = amount, !.seen = pay[r].refunded]
  <2>0. pay[r] \in PayRec /\ amount \in Nat /\ Amount \in Nat
    BY ConstantsAssumption DEF TypeOK
  <2>1. rec \in ReqRec
    BY <1>0, <2>0 DEF ReqRec, PayRec
  <2>2. Sound(rec)
    <3>1. pay[r].refunded + amount <= Amount
      BY <1>4, <2>0 DEF RefundRead, PayRec
    <3>2. QED
      BY <1>4, <3>1 DEF RefundRead, Sound, NoReq
  <2>3. QED
    BY <1>0, <1>4, <2>1, <2>2, SoundInv DEF RefundRead, Start
<1>5. QED
  BY <1>1, <1>2, <1>3, <1>4 DEF RequestStart

-----------------------------------------------------------------------------
(* Requests that end, and the gateway's own steps.                         *)

\* Ending a handler keeps the invariant.
LEMMA FinishInv ==
  ASSUME IInv, TypeOK', NEW p \in Reqs, Finish(p), UNCHANGED <<pay, gw, perils>>,
         perils \cap {"refunds", "failure"} = {}
           => ~(req[p].call = "refund" /\ req[p].step = "write")
  PROVE  IInv'
<1>1. /\ req'[p] = NoReq
      /\ \A q \in Reqs \ {p} : req'[q] = req[q]
  BY DEF IInv, TypeOK, Finish
<1>2. Rows' /\ Unused'
  BY DEF IInv, Rows, Unused
<1>3. Known' /\ Fresh'
  BY <1>1 DEF IInv, Known, Fresh, NoReq
<1>4. Made'
  BY <1>1 DEF IInv, Made, RecordedRefundsWereMade, NoReq
<1>5. Books'
  <2> SUFFICES ASSUME perils \cap {"refunds", "failure"} = {} PROVE Books'
    BY DEF Books
  <2>1. \A r \in Reservations : Returning(r)' = Returning(r)
    BY <1>1 DEF Returning, NoReq
  <2>2. RefundsMatch'
    BY <2>1 DEF IInv, Books, RefundsMatch
  <2>3. QED
    BY <1>1, <2>2 DEF IInv, Books, NoReq
<1>6. QED
  BY <1>2, <1>3, <1>4, <1>5 DEF IInv

\* Unused transactions become used ones of p's reservation, one of which p keeps.
LEMMA ChargeInv ==
  ASSUME IInv, TypeOK', NEW p \in Reqs, NEW t \in Txns, UNCHANGED <<pay, perils>>,
         req[p].step = "charge", req'[p].step = "create", req'[p].call = req[p].call,
         req'[p].for = req[p].for, req'[p].txn = t,
         \A q \in Reqs \ {p} : req'[q] = req[q],
         gw[t].state = "unused", gw'[t].for = req[p].for, gw'[t].state # "unused",
         \A u \in Txns : \/ gw'[u] = gw[u]
                         \/ gw[u].state = "unused" /\ gw'[u].state # "unused" /\ gw'[u].given = 0
  PROVE  IInv'
<1>1. \A u \in Txns : /\ gw'[u].given = gw[u].given
                      /\ gw[u].state # "unused" => gw'[u] = gw[u]
  BY DEF IInv, Unused
<1>2. req[p].call # "refund"
  BY DEF IInv, Known
<1>3. Rows' /\ Unused'
  BY <1>1 DEF IInv, Rows, Unused
<1>4. Known' /\ Fresh'
  <2>1. Known'
    BY <1>1, <1>2 DEF IInv, Known
  <2>3. \A r \in Reservations : pay[r].txn # t
    BY ConstantsAssumption DEF IInv, Rows, NoPay
  <2>4. \A q \in Reqs : req[q].step = "create" => req[q].txn # t
    BY DEF IInv, Known
  <2>5. Fresh'
    BY <1>1, <2>3, <2>4 DEF IInv, Fresh, Known, Unused
  <2>6. QED
    BY <2>1, <2>5
<1>5. Made'
  BY <1>1, <1>2 DEF IInv, Made, RecordedRefundsWereMade, Known, Rows, NoPay
<1>6. Books'
  <2> SUFFICES ASSUME perils \cap {"refunds", "failure"} = {} PROVE Books'
    BY DEF Books
  <2>1. \A r \in Reservations : Returning(r)' = Returning(r)
    BY <1>2 DEF Returning
  <2>2. RefundsMatch'
    BY <1>1, <2>1, ConstantsAssumption DEF IInv, Books, RefundsMatch, Rows, NoPay
  <2>3. QED
    BY <1>1, <1>2, <2>2 DEF IInv, Books, Known
<1>7. QED
  BY <1>3, <1>4, <1>5, <1>6 DEF IInv

\* What the customer does at the gateway keeps the invariant.
LEMMA SettleInv ==
  ASSUME IInv, NEW t \in Txns, NEW state \in {"paid", "failed"}, Settle(t, state)
  PROVE  IInv'
<1>0. TypeOK'
  BY SettleType DEF IInv
<1>1. /\ UNCHANGED <<pay, req, perils>>
      /\ \A u \in Txns : /\ gw'[u].given = gw[u].given
                         /\ gw'[u].for = gw[u].for
                         /\ gw'[u].state = "unused" <=> gw[u].state = "unused"
  BY DEF Settle, IInv, TypeOK, TxnRec
<1>2. Rows' /\ Unused' /\ Known' /\ Fresh'
  BY <1>1 DEF IInv, Rows, Unused, Known, Fresh
<1>3. Made'
  BY <1>1 DEF IInv, Made, RecordedRefundsWereMade, Known, Rows, NoPay
<1>4. Books'
  <2> SUFFICES ASSUME perils \cap {"refunds", "failure"} = {} PROVE Books'
    BY <1>1 DEF Books
  <2>1. \A r \in Reservations : Returning(r)' = Returning(r)
    BY <1>1 DEF Returning
  <2>2. RefundsMatch'
    BY <1>1, <2>1, ConstantsAssumption DEF IInv, Books, RefundsMatch, Rows, NoPay
  <2>3. QED
    BY <1>1, <2>2 DEF IInv, Books, Known
<1>5. QED
  BY <1>0, <1>2, <1>3, <1>4 DEF IInv

-----------------------------------------------------------------------------
(* Steps that write a row.                                                 *)

\* The status of one row is written; p goes on to announce it or ends.
LEMMA StatusInv ==
  ASSUME IInv, TypeOK', NEW p \in Reqs, UNCHANGED <<gw, perils>>,
         req[p].call \in {"confirm", "cancel"},
         \A q \in Reqs \ {p} : req'[q] = req[q],
         \/ req'[p] = NoReq
         \/ /\ req'[p].call = req[p].call /\ req'[p].for = req[p].for
            /\ req'[p].step = "announce",
         \A r \in Reservations \ {req[p].for} : pay'[r] = pay[r],
         LET r == req[p].for
         IN  pay'[r].txn = pay[r].txn /\ pay'[r].refunded = pay[r].refunded
  PROVE  IInv'
<1>1. \A r \in Reservations : pay'[r].txn = pay[r].txn /\ pay'[r].refunded = pay[r].refunded
  OBVIOUS
<1>2. pay[req[p].for].txn \in Txns /\ pay[req[p].for] # NoPay
  BY ConstantsAssumption DEF IInv, Known, NoPay
<1>3. Rows' /\ Unused'
  BY <1>1, <1>2 DEF IInv, Rows, Unused
<1>3a. /\ req'[p].step \in {"idle", "announce"}
       /\ req'[p] = NoReq \/ (req'[p].call = req[p].call /\ req'[p].for = req[p].for)
  BY DEF NoReq
<1>4. Known' /\ Fresh'
  <2>1. Known'
    <3>1. ASSUME req'[p] # NoReq
          PROVE  req'[p].for \in Reservations /\ pay'[req'[p].for].txn \in Txns
      BY <1>1, <1>2, <1>3a, <3>1 DEF IInv, Known
    <3>2. QED
      BY <1>1, <1>3a, <3>1 DEF IInv, Known, NoReq
  <2>2. Fresh'
    BY <1>1, <1>3a DEF IInv, Fresh
  <2>3. QED
    BY <2>1, <2>2
<1>5. Made'
  BY <1>1 DEF IInv, Made, RecordedRefundsWereMade, NoReq
<1>6. Books'
  <2> SUFFICES ASSUME perils \cap {"refunds", "failure"} = {} PROVE Books'
    BY DEF Books
  <2>1. \A r \in Reservations : Returning(r)' = Returning(r)
    BY DEF Returning, NoReq
  <2>2. RefundsMatch'
    BY <1>1, <2>1 DEF IInv, Books, RefundsMatch
  <2>3. req'[p].call # "refund"
    BY DEF NoReq
  <2>4. QED
    BY <1>1, <2>2, <2>3 DEF IInv, Books, Known
<1>7. QED
  BY <1>3, <1>4, <1>5, <1>6 DEF IInv

\* A row is inserted where there was none: nobody was at work on it.
LEMMA CreateInv ==
  ASSUME IInv, TypeOK', NEW p \in Reqs, InitiateCreate(p)
  PROVE  IInv'
<1> DEFINE r == req[p].for
<1>1. /\ UNCHANGED <<gw, perils>>
      /\ req'[p] = NoReq
      /\ \A q \in Reqs \ {p} : req'[q] = req[q]
      /\ \A s \in Reservations \ {r} : pay'[s] = pay[s]
      /\ req[p].call # "refund" /\ r \in Reservations
      /\ req[p].txn \in Txns /\ gw[req[p].txn].for = r /\ gw[req[p].txn].state # "unused"
  BY DEF InitiateCreate, Finish, IInv, TypeOK, Known
<1>2. CASE pay[r] # NoPay
  <2>1. pay' = pay
    BY <1>2 DEF InitiateCreate
  <2>2. QED
    BY <1>1, <2>1, FinishInv DEF InitiateCreate
<1>3. CASE pay[r] = NoPay
  <2>1. pay'[r].txn = req[p].txn /\ pay'[r].refunded = 0
    BY <1>1, <1>3 DEF InitiateCreate, IInv, TypeOK
  <2>2. \A q \in Reqs : req[q].call \in {"confirm", "refund", "cancel"} => req[q].for # r
    BY <1>3, ConstantsAssumption DEF IInv, Known, NoPay
  <2>3. Rows' /\ Unused'
    BY <1>1, <2>1 DEF IInv, Rows, Unused
  <2>4. Known'
    BY <1>1, <2>2 DEF IInv, Known, NoReq
  <2>4a. Fresh'
    BY <1>1, <2>1 DEF IInv, Fresh, NoReq, InitiateCreate
  <2>5. Made'
    <3>1. gw[req[p].txn].given \in Nat
      BY <1>1 DEF IInv, TypeOK, TxnRec
    <3>2. RecordedRefundsWereMade'
      BY <1>1, <2>1, <3>1 DEF IInv, Made, RecordedRefundsWereMade
    <3>3. QED
      BY <1>1, <2>2, <3>2 DEF IInv, Made, NoReq
  <2>6. Books'
    <3> SUFFICES ASSUME perils \cap {"refunds", "failure"} = {} PROVE Books'
      BY <1>1 DEF Books
    <3>1. \A s \in Reservations : Returning(s)' = Returning(s)
      BY <1>1 DEF Returning, NoReq
    <3>2. gw[req[p].txn].given = 0 /\ Amount \in Nat
      BY ConstantsAssumption DEF IInv, Fresh, InitiateCreate
    <3>3. RefundsMatch'
      BY <1>1, <2>1, <3>1, <3>2 DEF IInv, Books, RefundsMatch
    <3>4. QED
      BY <1>1, <2>2, <3>3 DEF IInv, Books, Known, NoReq
  <2>7. QED
    BY <2>3, <2>4, <2>4a, <2>5, <2>6 DEF IInv
<1>4. QED
  BY <1>2, <1>3

\* The gateway returns the money: the refund has it to record.
LEMMA RefundGatewayInv ==
  ASSUME IInv, TypeOK', NEW p \in Reqs, RefundGateway(p)
  PROVE  IInv'
<1> DEFINE r == req[p].for
           t == req[p].txn
<1>1. /\ UNCHANGED <<pay, perils>>
      /\ \A q \in Reqs \ {p} : req'[q] = req[q]
      /\ req[p].call = "refund" /\ req[p].step = "gateway" /\ r \in Reservations
      /\ t \in Txns /\ t = pay[r].txn
      /\ \A u \in Txns \ {t} : gw'[u] = gw[u]
  BY DEF RefundGateway, IInv, TypeOK, Known
<1>2. /\ req'[p].step = "write"
      /\ req'[p].call = req[p].call /\ req'[p].for = r /\ req'[p].txn = t
      /\ req'[p].seen = req[p].seen /\ req'[p].amount = req[p].amount
  BY DEF RefundGateway, IInv, TypeOK, ReqRec
<1>3. /\ gw'[t].given = gw[t].given + req[p].amount
      /\ gw'[t].for = gw[t].for /\ gw'[t].state = gw[t].state
  <2>1. gw' = [gw EXCEPT ![t] = [gw[t] EXCEPT !.given = gw[t].given + req[p].amount]]
    BY DEF RefundGateway
  <2>2. gw[t] \in TxnRec /\ gw \in [Txns -> TxnRec]
    BY <1>1 DEF IInv, TypeOK
  <2>3. gw'[t] = [gw[t] EXCEPT !.given = gw[t].given + req[p].amount]
    BY <1>1, <2>1, <2>2
  <2>4. QED
    BY <2>2, <2>3 DEF TxnRec
<1>4. /\ gw[t].given \in Nat /\ req[p].amount \in Nat /\ req[p].seen \in Nat
      /\ \A u \in Txns : gw[u].given \in Nat /\ gw'[u].given \in Nat
      /\ \A s \in Reservations : pay[s].refunded \in Nat
      /\ \A q \in Reqs : req[q].seen \in Nat /\ req[q].amount \in Nat
      /\ Amount \in Nat /\ None \notin Txns
  BY <1>1, ConstantsAssumption DEF IInv, TypeOK, TxnRec, ReqRec, PayRec
<1>5. pay[r] # NoPay /\ gw[t].for = r /\ gw[t].state # "unused"
  BY <1>1, <1>4 DEF IInv, Rows, NoPay
<1>6. \A s \in Reservations : pay[s].txn = t => s = r
  BY <1>4, <1>1, <1>5 DEF IInv, Rows, NoPay
<1>6a. \A u \in Txns : gw'[u].for = gw[u].for /\ gw'[u].state = gw[u].state
  BY <1>1, <1>3
<1>7. Rows' /\ Unused'
  <2>1. Rows'
    BY <1>1, <1>6a DEF IInv, Rows
  <2>2. Unused'
    <3>1. \A u \in Txns \ {t} : gw[u].state = "unused" => gw'[u].given = 0
      BY <1>1 DEF IInv, Unused
    <3>2. QED
      BY <1>5, <1>6a, <3>1 DEF Unused
  <2>3. QED
    BY <2>1, <2>2
<1>8. Known'
  <2>1. \A q \in Reqs : /\ req'[q].for = req[q].for /\ req'[q].call = req[q].call
                        /\ req'[q].txn = req[q].txn
                        /\ req'[q].step # "write" => req'[q].step = req[q].step
    BY <1>1, <1>2
  <2>2. QED
    BY <1>1, <1>2, <1>6a, <2>1 DEF IInv, Known
<1>9. Fresh'
  <2>1. \A q \in Reqs : req'[q].step = "create" => q # p /\ req[q].step = "create" /\ req'[q] = req[q]
    BY <1>1, <1>2
  <2>2. \A q \in Reqs : req[q].step = "create" => req[q].txn \in Txns \ {t}
    BY <1>1 DEF IInv, Fresh, Known
  <2>3. QED
    BY <1>1, <2>1, <2>2 DEF IInv, Fresh
<1>10. Made'
  <2>1. \A u \in Txns : gw[u].given <= gw'[u].given
    <3>1. gw[t].given <= gw'[t].given
      BY <1>3, <1>4
    <3>2. \A u \in Txns \ {t} : gw[u].given <= gw'[u].given
      BY <1>1, <1>4
    <3>3. QED
      BY <3>1, <3>2
  <2>2. RecordedRefundsWereMade'
    BY <1>1, <1>4, <2>1 DEF IInv, Made, RecordedRefundsWereMade, Rows, NoPay
  <2>3. \A q \in Reqs \ {p} : req'[q].call = "refund" =>
          /\ req'[q].step = "gateway" => req'[q].seen <= gw'[req'[q].txn].given
          /\ req'[q].step = "write" => req'[q].seen + req'[q].amount <= gw'[req'[q].txn].given
    <3>1. \A q \in Reqs : req[q].call = "refund" => req[q].txn \in Txns
      BY DEF IInv, Known
    <3>2. QED
      BY <1>1, <1>4, <2>1, <3>1 DEF IInv, Made
  <2>4. req'[p].seen + req'[p].amount <= gw'[t].given
    <3>1. req[p].seen <= gw[t].given
      BY <1>1 DEF IInv, Made
    <3>2. QED
      BY <1>2, <1>3, <1>4, <3>1
  <2>5. QED
    BY <1>2, <2>2, <2>3, <2>4 DEF Made
<1>11. Books'
  <2> SUFFICES ASSUME perils \cap {"refunds", "failure"} = {} PROVE Books'
    BY <1>1 DEF Books
  <2>1. \A s \in Reservations \ {r} : Returning(s)' = Returning(s)
    BY <1>1, <1>2 DEF Returning
  <2>2. p \in Returning(r)'
    BY <1>1, <1>2 DEF Returning
  <2>3. /\ gw[t].given = req[p].seen
        /\ req[p].seen + req[p].amount <= Amount
        /\ req[p].seen = pay[r].refunded
        /\ \A q \in Reqs \ {p} : req[q].call = "refund" => req[q].for # r
    BY <1>1 DEF IInv, Books
  <2>4. RefundsMatch'
    <3>1. ASSUME NEW s \in Reservations \ {r}, pay[s].txn # None
          PROVE  /\ gw'[pay[s].txn].given <= Amount
                 /\ Returning(s)' = {} => gw'[pay[s].txn].given = pay[s].refunded
      <4>1. pay[s].txn \in Txns \ {t}
        BY <1>4, <1>6, <3>1 DEF IInv, Rows, NoPay
      <4>2. QED
        BY <1>1, <2>1, <3>1, <4>1 DEF IInv, Books, RefundsMatch
    <3>2. gw'[t].given <= Amount
      BY <1>3, <2>3
    <3>3. QED
      BY <1>1, <1>2, <2>2, <3>1, <3>2 DEF RefundsMatch
  <2>5. \A q \in Reqs \ {p} : req[q].call = "refund" => req[q].txn \in Txns \ {t}
    BY <1>6, <2>3 DEF IInv, Known
  <2>6. QED
    <3>1. \A q \in Reqs \ {p} : req[q].call = "refund" => gw'[req[q].txn] = gw[req[q].txn]
      BY <1>1, <2>5
    <3>2. \A a, b \in Reqs :
            a # b /\ req'[a].call = "refund" /\ req'[b].call = "refund" => req'[a].for # req'[b].for
      BY <1>1, <1>2 DEF IInv, Books
    <3>3. \A q \in Reqs \ {p} : req'[q].call = "refund" /\ req'[q].step \in {"gateway", "write"} =>
            /\ req'[q].seen = pay'[req'[q].for].refunded
            /\ req'[q].seen + req'[q].amount <= Amount
            /\ req'[q].step = "gateway" => gw'[req'[q].txn].given = req'[q].seen
            /\ req'[q].step = "write" => gw'[req'[q].txn].given = req'[q].seen + req'[q].amount
      BY <1>1, <3>1 DEF IInv, Books
    <3>4. /\ req'[p].seen = pay'[req'[p].for].refunded
          /\ req'[p].seen + req'[p].amount <= Amount
          /\ gw'[req'[p].txn].given = req'[p].seen + req'[p].amount
      BY <1>1, <1>2, <1>3, <2>3
    <3>5. QED
      BY <1>2, <2>4, <3>2, <3>3, <3>4 DEF Books
<1>12. QED
  BY <1>7, <1>8, <1>9, <1>10, <1>11 DEF IInv

\* The refund is recorded.
LEMMA RefundWriteInv ==
  ASSUME IInv, TypeOK', NEW p \in Reqs, RefundWrite(p)
  PROVE  IInv'
<1> DEFINE r == req[p].for
           t == req[p].txn
<1>1. /\ UNCHANGED <<gw, perils>>
      /\ \A q \in Reqs \ {p} : req'[q] = req[q]
      /\ req[p].call = "refund" /\ req[p].step = "write" /\ r \in Reservations
      /\ t \in Txns /\ t = pay[r].txn
      /\ \A s \in Reservations \ {r} : pay'[s] = pay[s]
  BY DEF RefundWrite, IInv, TypeOK, Known
<1>2. req'[p].step = "announce" /\ req'[p].call = "refund" /\ req'[p].for = r /\ req'[p].txn = t
  BY <1>1 DEF RefundWrite, IInv, TypeOK, ReqRec
<1>3. pay'[r].refunded = req[p].seen + req[p].amount /\ pay'[r].txn = t
  <2>1. pay[r] \in PayRec /\ pay \in [Reservations -> PayRec]
    BY <1>1 DEF IInv, TypeOK
  <2>2. QED
    BY <1>1, <2>1 DEF RefundWrite, PayRec
<1>4. None \notin Txns
  BY ConstantsAssumption
<1>5. pay[r] # NoPay /\ gw[t].for = r /\ gw[t].state # "unused"
  BY <1>1, <1>4 DEF IInv, Rows, NoPay
<1>6. \A s \in Reservations : pay'[s].txn = pay[s].txn
  BY <1>1, <1>3
<1>7. Rows' /\ Unused'
  BY <1>1, <1>3, <1>5 DEF IInv, Rows, Unused
<1>8. Known'
  BY <1>1, <1>2, <1>6 DEF IInv, Known
<1>9. Fresh'
  BY <1>1, <1>2, <1>6 DEF IInv, Fresh
<1>10. Made'
  BY <1>1, <1>2, <1>3, <1>6 DEF IInv, Made, RecordedRefundsWereMade
<1>11. Books'
  <2> SUFFICES ASSUME perils \cap {"refunds", "failure"} = {} PROVE Books'
    BY <1>1 DEF Books
  <2>1. \A s \in Reservations \ {r} : Returning(s)' = Returning(s)
    BY <1>1, <1>2 DEF Returning
  <2>2. /\ gw[t].given = req[p].seen + req[p].amount
        /\ req[p].seen + req[p].amount <= Amount
        /\ \A q \in Reqs \ {p} : req[q].call = "refund" => req[q].for # r
    BY <1>1 DEF IInv, Books
  <2>3. RefundsMatch'
    BY <1>1, <1>3, <1>6, <2>1, <2>2 DEF IInv, Books, RefundsMatch
  <2>4. \A a, b \in Reqs :
          a # b /\ req'[a].call = "refund" /\ req'[b].call = "refund" => req'[a].for # req'[b].for
    BY <1>1, <1>2 DEF IInv, Books
  <2>5. \A q \in Reqs \ {p} : req[q].call = "refund" => pay'[req[q].for] = pay[req[q].for]
    BY <1>1, <2>2 DEF IInv, Known
  <2>6. QED
    BY <1>1, <1>2, <2>3, <2>4, <2>5 DEF IInv, Books
<1>12. QED
  BY <1>7, <1>8, <1>9, <1>10, <1>11 DEF IInv

-----------------------------------------------------------------------------
\* Each step of a handler keeps the invariant.
LEMMA StepInv ==
  ASSUME IInv, NEW p \in Reqs, RequestStep(p)
  PROVE  IInv'
<1> USE DEF IInv
<1>0. TypeOK'
  BY StepType
<1>1. ASSUME NEW t \in Txns, NEW state \in {"open", "failed"}, InitiateCharge(p, t, state)
      PROVE IInv'
  <2>1. /\ req'[p].step = "create" /\ req'[p].call = req[p].call
        /\ req'[p].for = req[p].for /\ req'[p].txn = t
        /\ \A q \in Reqs \ {p} : req'[q] = req[q]
    BY <1>1 DEF InitiateCharge, TypeOK, ReqRec
  <2>2. /\ gw'[t].for = req[p].for /\ gw'[t].state # "unused" /\ gw'[t].given = 0
        /\ \A u \in Txns \ {t} : gw'[u] = gw[u]
    BY <1>1 DEF InitiateCharge, TypeOK
  <2>3. QED
    <3>1. /\ req[p].step = "charge" /\ gw[t].state = "unused" /\ UNCHANGED <<pay, perils>>
      BY <1>1 DEF InitiateCharge
    <3>2. QED
      BY <1>0, <2>1, <2>2, <3>1, ChargeInv
<1>2. ASSUME NEW t \in Txns, NEW u \in Txns, InitiateUnanswered(p, t, u) PROVE IInv'
  <2>1. /\ req'[p].step = "create" /\ req'[p].call = req[p].call
        /\ req'[p].for = req[p].for /\ req'[p].txn = u
        /\ \A q \in Reqs \ {p} : req'[q] = req[q]
    BY <1>2 DEF InitiateUnanswered, TypeOK, ReqRec
  <2>2. /\ gw'[u].for = req[p].for /\ gw'[u].state # "unused" /\ gw'[u].given = 0
        /\ gw'[t].state # "unused" /\ gw'[t].given = 0
        /\ \A v \in Txns \ {t, u} : gw'[v] = gw[v]
    BY <1>2 DEF InitiateUnanswered, TypeOK
  <2>3. /\ UNCHANGED <<pay, perils>> /\ req[p].step = "charge"
        /\ gw[t].state = "unused" /\ gw[u].state = "unused"
    BY <1>2 DEF InitiateUnanswered
  <2>4. \A v \in Txns : \/ gw'[v] = gw[v]
                        \/ gw[v].state = "unused" /\ gw'[v].state # "unused" /\ gw'[v].given = 0
    BY <2>2, <2>3
  <2>5. QED
    BY <1>0, <2>1, <2>2, <2>3, <2>4, ChargeInv
<1>3. CASE InitiateCreate(p)
  BY <1>0, <1>3, CreateInv
<1>4. CASE ConfirmWrite(p)
  <2>1. /\ \A q \in Reqs \ {p} : req'[q] = req[q]
        /\ req'[p].call = req[p].call /\ req'[p].for = req[p].for /\ req'[p].step = "announce"
    BY <1>4 DEF ConfirmWrite, TypeOK, ReqRec
  <2>2. /\ \A r \in Reservations \ {req[p].for} : pay'[r] = pay[r]
        /\ pay'[req[p].for].txn = pay[req[p].for].txn
        /\ pay'[req[p].for].refunded = pay[req[p].for].refunded
    <3>1. pay \in [Reservations -> PayRec] /\ req[p].for \in Reservations
      BY <1>4 DEF ConfirmWrite, TypeOK, Known
    <3>2. QED
      BY <1>4, <3>1 DEF ConfirmWrite, PayRec
  <2>3. QED
    BY <1>0, <1>4, <2>1, <2>2, StatusInv DEF ConfirmWrite
<1>5. CASE CancelWrite(p)
  <2>1. req'[p] = NoReq /\ \A q \in Reqs \ {p} : req'[q] = req[q]
    BY <1>5 DEF CancelWrite, Finish, TypeOK
  <2>2. /\ \A r \in Reservations \ {req[p].for} : pay'[r] = pay[r]
        /\ pay'[req[p].for].txn = pay[req[p].for].txn
        /\ pay'[req[p].for].refunded = pay[req[p].for].refunded
    <3>1. pay \in [Reservations -> PayRec] /\ req[p].for \in Reservations
      BY <1>5 DEF CancelWrite, TypeOK, Known
    <3>2. QED
      BY <1>5, <3>1 DEF CancelWrite, PayRec
  <2>3. QED
    BY <1>0, <1>5, <2>1, <2>2, StatusInv DEF CancelWrite
<1>6. CASE RefundGateway(p)
  BY <1>0, <1>6, RefundGatewayInv
<1>7. CASE RefundRefused(p)
  BY <1>0, <1>7, FinishInv DEF RefundRefused
<1>8. CASE RefundWrite(p)
  BY <1>0, <1>8, RefundWriteInv
<1>9. CASE Announce(p)
  BY <1>0, <1>9, FinishInv DEF Announce
<1>10. CASE Stop(p)
  BY <1>0, <1>10, FinishInv DEF Stop
<1>11. QED
  BY <1>1, <1>2, <1>3, <1>4, <1>5, <1>6, <1>7, <1>8, <1>9, <1>10 DEF RequestStep

\* In every regime the books, the rows and the gateway stay related as IInv says.
THEOREM Invariance == Spec => []IInv
<1>1. IInv /\ [Next]_vars => IInv'
  <2> SUFFICES ASSUME IInv, [Next]_vars PROVE IInv'
    OBVIOUS
  <2>1. CASE UNCHANGED vars
    BY <2>1 DEF vars, IInv, TypeOK, Rows, Unused, Known, Fresh, Made, Books,
       RecordedRefundsWereMade, RefundsMatch, Returning
  <2>2. QED
    BY <2>1, StartInv, StepInv, SettleInv DEF Next
<1>2. QED
  BY <1>1, InitInv, PTL DEF Spec

\* Whatever overlaps, fails or is lost, a refund on record was made.
THEOREM RefundsOnRecord == Spec => []RecordedRefundsWereMade
<1>1. IInv => RecordedRefundsWereMade
  BY DEF IInv, Made
<1>2. QED
  BY <1>1, Invariance, PTL

\* With refunds of a payment one by one and handlers that complete, the refunds
\* on record are the money returned, and never more than was paid, however many
\* confirmations and cancellations overlap with them.
THEOREM RefundsOnRecordMatch == Spec => []RefundsMatch
<1>1. IInv => RefundsMatch
  BY DEF IInv, Books, RefundsMatch
<1>2. QED
  BY <1>1, Invariance, PTL
-----------------------------------------------------------------------------
(* One request about a payment at a time, and no failure.                  *)

\* What the locals of a request in flight say of its row.
Agrees(p) ==
  LET c == req[p]  row == pay[c.for]
  IN  /\ c.step \in {"charge", "create"} => row.status \notin {"PROCESSING", "COMPLETED"}
      /\ c.step = "create" => \/ c.status = "PROCESSING"
                              \/ c.status = "FAILED" /\ gw[c.txn].state = "failed"
      /\ c.call = "confirm" /\ c.step = "write" =>
           /\ row.status \notin {"none", "COMPLETED", "CANCELLED"}
           /\ \/ c.status = "COMPLETED" /\ gw[row.txn].state = "paid"
              \/ c.status = "FAILED" /\ gw[row.txn].state = "failed"
      /\ c.call = "cancel" => row.status = "PROCESSING"
      /\ c.call = "refund" /\ c.step \in {"gateway", "write"} =>
           row.status = "COMPLETED" /\ c.amount > 0
      /\ c.step = "announce" =>
           \/ c.call = "confirm" /\ c.status \in {"COMPLETED", "FAILED"} /\ row.status = c.status
           \/ c.call = "refund" /\ row.status \in {"REFUNDED", "PARTIALLY_REFUNDED"}

\* A row says what became of its transaction.
Settled(r) ==
  /\ pay[r].status = "none" => pay[r] = NoPay
  /\ pay[r].status \in {"COMPLETED", "REFUNDED", "PARTIALLY_REFUNDED"} =>
       gw[pay[r].txn].state = "paid"
  /\ pay[r].status = "FAILED" => gw[pay[r].txn].state = "failed"
  /\ pay[r].status \in {"REFUNDED", "PARTIALLY_REFUNDED"} => pay[r].refunded > 0

\* The attempt that may still become the payment of r: the row's, or where there
\* is no row yet, that of the request which is about to write it.
Chargeable(r, t) ==
  \/ pay[r].status # "none" /\ t = pay[r].txn
  \/ /\ pay[r].status = "none"
     /\ \E p \in Reqs : /\ req[p].for = r /\ req[p].step = "create"
                        /\ req[p].txn = t /\ req[p].status = "PROCESSING"

OnlyCharge(r) ==
  (pay[r].status \in {"none", "PROCESSING", "COMPLETED"} /\ pay[r].refunded = 0) =>
    \A t \in Txns : gw[t].for = r /\ Accepted(t) => Chargeable(r, t)

\* The last event about r is what its row says.
Matches(r) ==
  /\ told[r] = "payment.completed" <=> pay[r].status = "COMPLETED"
  /\ told[r] = "refund.completed" <=> pay[r].status \in {"REFUNDED", "PARTIALLY_REFUNDED"}
  /\ told[r] = "payment.failed" => pay[r].status = "FAILED"

Announced(r) == (\A p \in Reqs : req[p].for = r => req[p].step # "announce") => Matches(r)

Good(r) ==
  /\ \A p \in Reqs : req[p].for = r => Agrees(p)
  /\ Settled(r) /\ OnlyCharge(r) /\ Announced(r)

Alone ==
  \A p, q \in Reqs : p # q /\ req[p].for = req[q].for => req[p].for = None

SInv == perils = {} => Alone /\ \A r \in Reservations : Good(r)

\* The rows and the requests are in order at the start.
LEMMA InitSerial == Init => SInv
  BY ConstantsAssumption DEF Init, SInv, Alone, Good, Agrees, Settled, OnlyCharge, Chargeable,
     Announced, Matches, Accepted, NoPay, NoTxn, NoReq

\* A step of request p about r: nothing else moves, but that the gateway may give
\* r a transaction nobody used, or give money back.
Only(p, r) ==
  /\ \A q \in Reqs \ {p} : req'[q] = req[q]
  /\ req[p].for = r \/ (req[p].for = None /\ \A q \in Reqs : req[q].for # r)
  /\ req'[p].for \in {r, None}
  /\ \A s \in Reservations \ {r} : pay'[s] = pay[s] /\ told'[s] = told[s]
  /\ \A t \in Txns :
       \/ gw'[t].for = gw[t].for /\ gw'[t].state = gw[t].state
       \/ gw[t].state = "unused" /\ gw'[t].for = r

\* What such a step leaves in order: the other reservations.
LEMMA OthersKeep ==
  ASSUME IInv, SInv, perils = {}, NEW p \in Reqs, NEW r \in Reservations, Only(p, r)
  PROVE  /\ Alone'
         /\ \A q \in Reqs \ {p} : req'[q].for # r
         /\ \A s \in Reservations \ {r} : Good(s)'
<1>1. Alone /\ \A s \in Reservations : Good(s)
  BY DEF SInv
<1>2. None \notin Reservations
  BY ConstantsAssumption
<1>3. \A q \in Reqs \ {p} : req'[q].for # r
  BY <1>1, <1>2 DEF Only, Alone
<1>4. Alone'
  BY <1>1, <1>2, <1>3 DEF Only, Alone
<1>5. ASSUME NEW s \in Reservations \ {r} PROVE Good(s)'
  <2>1. pay'[s] = pay[s] /\ told'[s] = told[s]
    BY DEF Only
  <2>2. \A q \in Reqs : (req'[q].for = s \/ req[q].for = s) => q # p /\ req'[q] = req[q]
    BY <1>2 DEF Only
  <2>3. \A t \in Txns : gw[t].state # "unused" =>
          gw'[t].for = gw[t].for /\ gw'[t].state = gw[t].state
    BY DEF Only
  <2>4. pay[s] = NoPay \/ (pay[s].txn \in Txns /\ gw'[pay[s].txn].state = gw[pay[s].txn].state)
    BY <2>3 DEF IInv, Rows
  <2>5. \A q \in Reqs : req'[q].for = s => Agrees(q)'
    <3> SUFFICES ASSUME NEW q \in Reqs, req'[q].for = s
                 PROVE  Agrees(q)'
      OBVIOUS
    <3>1. req'[q] = req[q] /\ req[q].for = s /\ Agrees(q)
      BY <1>1, <2>2 DEF Good
    <3>2. req[q].step = "create" => gw'[req[q].txn].state = gw[req[q].txn].state
      BY <2>3 DEF IInv, Known
    <3> QED
      BY <2>1, <2>4, <3>1, <3>2 DEF Agrees, NoPay
  <2>6. Settled(s)'
    BY <1>1, <2>1, <2>4 DEF Good, Settled, NoPay
  <2>7. OnlyCharge(s)'
    <3>1. \A t \in Txns : Chargeable(s, t) => Chargeable(s, t)'
      BY <2>1, <2>2 DEF Chargeable
    <3>2. \A t \in Txns : gw'[t].for = s => gw'[t].for = gw[t].for /\ gw'[t].state = gw[t].state
      BY DEF Only
    <3> QED
      BY <1>1, <2>1, <3>1, <3>2 DEF Good, OnlyCharge, Accepted
  <2>8. Announced(s)'
    <3>1. (\A q \in Reqs : req'[q].for = s => req'[q].step # "announce")
            => \A q \in Reqs : req[q].for = s => req[q].step # "announce"
      BY <2>2
    <3> QED
      BY <1>1, <2>1, <3>1 DEF Good, Announced, Matches
  <2> QED
    BY <2>5, <2>6, <2>7, <2>8 DEF Good
<1> QED
  BY <1>3, <1>4, <1>5

\* What has to be seen of the reservation itself.
LEMMA HereKeeps ==
  ASSUME IInv, SInv, perils = {}, perils' = perils, NEW p \in Reqs, NEW r \in Reservations,
         Only(p, r), req'[p].for = r => Agrees(p)', Settled(r)', OnlyCharge(r)', Announced(r)'
  PROVE  SInv'
<1>1. \A q \in Reqs : req'[q].for = r => Agrees(q)'
  BY OthersKeep
<1> QED
  BY <1>1, OthersKeep DEF SInv, Good

\* A step that moves its request alone, and lets none start or end an attempt.
LEMMA RequestKeeps ==
  ASSUME IInv, SInv, perils = {}, NEW p \in Reqs, NEW r \in Reservations, Only(p, r),
         UNCHANGED <<pay, told, perils>>,
         \A t \in Txns : gw'[t].for = gw[t].for /\ gw'[t].state = gw[t].state,
         req[p].step # "create", req[p].step # "announce", req'[p].for = r => Agrees(p)'
  PROVE  SInv'
<1>1. Good(r)
  BY DEF SInv
<1>2. pay[r] = NoPay \/ pay[r].txn \in Txns
  BY DEF IInv, Rows
<1>3. Settled(r)'
  BY <1>1, <1>2 DEF Good, Settled, NoPay
<1>4. OnlyCharge(r)'
  <2>1. \A t \in Txns : Chargeable(r, t) => Chargeable(r, t)'
    BY DEF Chargeable, Only
  <2> QED
    BY <1>1, <2>1 DEF Good, OnlyCharge, Accepted
<1>5. Announced(r)'
  <2>1. \A q \in Reqs : req[q].for = r /\ req[q].step = "announce" => q # p /\ req'[q] = req[q]
    BY DEF Only
  <2> QED
    BY <1>1, <2>1 DEF Good, Announced, Matches
<1> QED
  BY <1>3, <1>4, <1>5, HereKeeps

\* A handler that reads a row in the right status agrees with it.
LEMMA StartSerial ==
  ASSUME IInv, SInv, perils = {}, NEW p \in Reqs, RequestStart(p)
  PROVE  SInv'
<1>0. NoReq \in ReqRec /\ req \in [Reqs -> ReqRec]
  BY DEF IInv, TypeOK, NoReq, ReqRec
<1>1. ASSUME NEW r \in Reservations, NEW rec \in ReqRec, Start(p, r), rec.for = r,
             req' = [req EXCEPT ![p] = rec], UNCHANGED <<pay, gw, told, perils>>, Agrees(p)'
      PROVE  SInv'
  <2>1. Only(p, r)
    BY <1>0, <1>1 DEF Start, Requested, Only, NoReq
  <2>2. req[p].step # "create" /\ req[p].step # "announce"
    BY <1>1 DEF Start, NoReq
  <2> QED
    BY <1>1, <2>1, <2>2, RequestKeeps
<1>2. ASSUME NEW r \in Reservations, InitiateRead(p, r) PROVE SInv'
  <2> DEFINE rec == [NoReq EXCEPT !.call = "initiate", !.step = "charge", !.for = r]
  <2>1. rec \in ReqRec /\ req' = [req EXCEPT ![p] = rec]
    BY <1>0, <1>2 DEF ReqRec, InitiateRead
  <2>2. Agrees(p)'
    BY <1>0, <1>2 DEF InitiateRead, Agrees, NoReq
  <2> QED
    BY <1>1, <1>2, <2>1, <2>2 DEF InitiateRead, NoReq
<1>3. ASSUME NEW r \in Reservations, CancelRead(p, r) PROVE SInv'
  <2> DEFINE rec == [NoReq EXCEPT !.call = "cancel", !.step = "write", !.for = r]
  <2>1. rec \in ReqRec /\ req' = [req EXCEPT ![p] = rec]
    BY <1>0, <1>3 DEF ReqRec, CancelRead
  <2>2. pay[r].status = "PROCESSING"
    BY <1>3 DEF CancelRead, IInv, TypeOK, PayRec, Statuses
  <2>3. Agrees(p)'
    BY <1>0, <1>3, <2>2 DEF CancelRead, Agrees, NoReq
  <2> QED
    BY <1>1, <1>3, <2>1, <2>3 DEF CancelRead, NoReq
<1>4. ASSUME NEW r \in Reservations, NEW status \in {"COMPLETED", "FAILED"},
             ConfirmRead(p, r, status) PROVE SInv'
  <2> DEFINE rec == [NoReq EXCEPT !.call = "confirm", !.step = "write", !.for = r,
                                  !.status = status]
  <2>1. rec \in ReqRec /\ req' = [req EXCEPT ![p] = rec]
    BY <1>0, <1>4 DEF ReqRec, Statuses, ConfirmRead
  <2>2. Agrees(p)'
    BY <1>0, <1>4 DEF ConfirmRead, Agrees, NoReq
  <2> QED
    BY <1>1, <1>4, <2>1, <2>2 DEF ConfirmRead, NoReq
<1>5. ASSUME NEW r \in Reservations, NEW amount \in 1..Amount, RefundRead(p, r, amount)
      PROVE SInv'
  <2> DEFINE rec == [NoReq EXCEPT !.call = "refund", !.step = "gateway", !.for = r,
                       !.txn = pay[r].txn, !.amount = amount, !.seen = pay[r].refunded]
  <2>1. pay[r] \in PayRec /\ amount \in Nat /\ amount > 0
    BY ConstantsAssumption DEF IInv, TypeOK
  <2>2. rec \in ReqRec /\ req' = [req EXCEPT ![p] = rec]
    BY <1>0, <1>5, <2>1 DEF ReqRec, PayRec, RefundRead
  <2>3. Agrees(p)'
    BY <1>0, <1>5, <2>1 DEF RefundRead, Agrees, NoReq
  <2> QED
    BY <1>1, <1>5, <2>2, <2>3 DEF RefundRead, NoReq
<1> QED
  BY <1>2, <1>3, <1>4, <1>5 DEF RequestStart

\* The gateway takes an attempt on: the only one, where there is no row.
LEMMA ChargeSerial ==
  ASSUME IInv, SInv, perils = {}, NEW p \in Reqs, NEW t \in Txns,
         NEW state \in {"open", "failed"}, InitiateCharge(p, t, state)
  PROVE  SInv'
<1> PICK r : r = req[p].for
  OBVIOUS
<1>1. r \in Reservations /\ Good(r) /\ Agrees(p)
  BY DEF InitiateCharge, IInv, Known, SInv, Good
<1>2. /\ req'[p].for = r /\ req'[p].step = "create" /\ req'[p].txn = t
      /\ req'[p].status = (IF state = "open" THEN "PROCESSING" ELSE "FAILED")
      /\ req'[p].call = req[p].call
      /\ \A q \in Reqs \ {p} : req'[q] = req[q]
  BY DEF InitiateCharge, IInv, TypeOK, ReqRec
<1>3. /\ gw'[t].for = r /\ gw'[t].state = state /\ gw[t].state = "unused"
      /\ \A u \in Txns \ {t} : gw'[u] = gw[u]
      /\ UNCHANGED <<pay, told, perils>> /\ req[p].step = "charge"
  BY DEF InitiateCharge, IInv, TypeOK
<1>4. Only(p, r)
  BY <1>2, <1>3 DEF Only
<1>5. pay[r] = NoPay \/ (pay[r].txn \in Txns /\ gw[pay[r].txn].state # "unused")
  BY <1>1 DEF IInv, Rows
<1>6. req[p].call \notin {"refund", "cancel"} /\ pay[r].status \notin {"PROCESSING", "COMPLETED"}
  BY <1>1, <1>3 DEF Agrees, IInv, Known
<1>7. Agrees(p)'
  BY <1>2, <1>3, <1>6 DEF Agrees
<1>8. Settled(r)'
  BY <1>1, <1>3, <1>5 DEF Good, Settled, NoPay
<1>9. OnlyCharge(r)'
  <2> SUFFICES ASSUME pay[r].status = "none", pay[r].refunded = 0, NEW u \in Txns,
                      gw'[u].for = r, gw'[u].state \in {"open", "paid"}
               PROVE  Chargeable(r, u)'
    BY <1>3, <1>6 DEF OnlyCharge, Accepted
  <2>1. \A q \in Reqs : req[q].for = r => q = p
    BY <1>1, ConstantsAssumption DEF SInv, Alone
  <2>2. CASE u # t
    BY <1>1, <1>3, <2>1, <2>2 DEF Good, OnlyCharge, Chargeable, Accepted
  <2>3. CASE u = t
    BY <1>2, <1>3, <2>3 DEF Chargeable
  <2> QED
    BY <2>2, <2>3
<1>10. Announced(r)'
  <2>1. \A q \in Reqs : req[q].for = r /\ req[q].step = "announce" => req'[q] = req[q]
    BY <1>2, <1>3
  <2> QED
    BY <1>1, <1>3, <2>1 DEF Good, Announced, Matches
<1> QED
  BY <1>1, <1>3, <1>4, <1>7, <1>8, <1>9, <1>10, HereKeeps

\* The row of an attempt is written: where there was none, it is the only charge.
LEMMA CreateSerial ==
  ASSUME IInv, SInv, perils = {}, NEW p \in Reqs, InitiateCreate(p)
  PROVE  SInv'
<1> PICK r : r = req[p].for
  OBVIOUS
<1>1. r \in Reservations /\ Good(r) /\ Agrees(p) /\ pay[r] \in PayRec
  BY DEF InitiateCreate, IInv, TypeOK, Known, SInv, Good
<1>2. /\ req'[p] = NoReq /\ (\A q \in Reqs \ {p} : req'[q] = req[q])
      /\ req[p].step = "create" /\ UNCHANGED <<gw, told, perils>>
  BY DEF InitiateCreate, Finish, IInv, TypeOK
<1>3. \A s \in Reservations \ {r} : pay'[s] = pay[s]
  BY <1>1 DEF InitiateCreate, IInv, TypeOK
<1>4. Only(p, r)
  BY <1>2, <1>3 DEF Only, NoReq
<1>5. \A q \in Reqs : req[q].for = r => q = p
  BY <1>1, ConstantsAssumption DEF SInv, Alone
<1>6. req'[p].for # r
  BY <1>1, <1>2, ConstantsAssumption DEF NoReq
<1>7. Matches(r)
  BY <1>1, <1>2, <1>5 DEF Good, Announced
<1>8. CASE pay[r] # NoPay
  <2>1. pay'[r] = pay[r] /\ pay[r].status # "none"
    BY <1>1, <1>8 DEF InitiateCreate, Good, Settled
  <2>2. Settled(r)' /\ Announced(r)'
    BY <1>1, <1>2, <1>7, <2>1 DEF Good, Settled, Announced, Matches
  <2>3. OnlyCharge(r)'
    BY <1>1, <1>2, <2>1 DEF Good, OnlyCharge, Chargeable, Accepted
  <2> QED
    BY <1>1, <1>2, <1>4, <1>6, <2>2, <2>3, HereKeeps
<1>9. CASE pay[r] = NoPay
  <2>1. pay'[r] = [status |-> req[p].status, txn |-> req[p].txn, refunded |-> 0]
    BY <1>1, <1>9 DEF InitiateCreate, IInv, TypeOK
  <2>2. pay'[r].status = req[p].status /\ pay'[r].txn = req[p].txn
    BY <2>1
  <2>3. /\ req[p].status \in {"PROCESSING", "FAILED"}
        /\ req[p].status = "FAILED" => gw[req[p].txn].state = "failed"
    BY <1>1, <1>2 DEF Agrees
  <2>4. Settled(r)'
    BY <1>2, <2>2, <2>3 DEF Settled
  <2>5. Announced(r)'
    BY <1>2, <1>7, <1>9, <2>2, <2>3 DEF Announced, Matches, NoPay
  <2>6. OnlyCharge(r)'
    <3> SUFFICES ASSUME req[p].status = "PROCESSING", NEW t \in Txns,
                        gw[t].for = r, gw[t].state \in {"open", "paid"}
                 PROVE  Chargeable(r, t)'
      BY <1>2, <2>2, <2>3 DEF OnlyCharge, Accepted
    <3>1. Chargeable(r, t) /\ pay[r].status = "none"
      BY <1>1, <1>9 DEF Good, OnlyCharge, Accepted, NoPay
    <3>2. t = req[p].txn
      BY <1>5, <3>1 DEF Chargeable
    <3> QED
      BY <2>2, <3>2 DEF Chargeable
  <2> QED
    BY <1>1, <1>2, <1>4, <1>6, <2>4, <2>5, <2>6, HereKeeps
<1> QED
  BY <1>8, <1>9

\* A status is written on the row of a payment that was not refunded and is open,
\* or of any but an open one: what can be charged stays what it was.
LEMMA WriteSerial ==
  ASSUME IInv, SInv, perils = {}, NEW p \in Reqs, NEW r \in Reservations, Only(p, r),
         req[p].for = r, req[p].step = "write", UNCHANGED <<gw, told, perils>>,
         pay[r].status # "none", pay'[r].status # "none", pay'[r].txn = pay[r].txn,
         Settled(r)', Announced(r)', req'[p].for = r => Agrees(p)',
         pay'[r].status \in {"PROCESSING", "COMPLETED"} /\ pay'[r].refunded = 0
           => pay[r].status \in {"PROCESSING", "COMPLETED"} /\ pay[r].refunded = 0
  PROVE  SInv'
<1>1. OnlyCharge(r)
  BY DEF SInv, Good
<1>2. OnlyCharge(r)'
  BY <1>1 DEF OnlyCharge, Chargeable, Accepted
<1> QED
  BY <1>2, HereKeeps

\* A confirmation writes what the gateway said, which it said of no FAILED row.
LEMMA ConfirmSerial ==
  ASSUME IInv, SInv, perils = {}, NEW p \in Reqs, ConfirmWrite(p)
  PROVE  SInv'
<1> PICK r : r = req[p].for
  OBVIOUS
<1>1. r \in Reservations /\ Good(r) /\ Agrees(p) /\ pay[r] \in PayRec /\ Settled(r)
  BY DEF ConfirmWrite, IInv, TypeOK, Known, SInv, Good
<1>2. /\ req'[p].for = r /\ req'[p].step = "announce" /\ req'[p].status = req[p].status
      /\ req'[p].call = "confirm" /\ (\A q \in Reqs \ {p} : req'[q] = req[q])
      /\ req[p].call = "confirm" /\ req[p].step = "write" /\ UNCHANGED <<gw, told, perils>>
  BY DEF ConfirmWrite, IInv, TypeOK, ReqRec
<1>3. /\ pay'[r].status = req[p].status /\ pay'[r].txn = pay[r].txn
      /\ pay'[r].refunded = pay[r].refunded /\ \A s \in Reservations \ {r} : pay'[s] = pay[s]
  BY <1>1 DEF ConfirmWrite, IInv, TypeOK, PayRec
<1>4. Only(p, r)
  BY <1>2, <1>3 DEF Only
<1>5. /\ pay[r].status \notin {"none", "COMPLETED", "CANCELLED"}
      /\ \/ req[p].status = "COMPLETED" /\ gw[pay[r].txn].state = "paid"
         \/ req[p].status = "FAILED" /\ gw[pay[r].txn].state = "failed"
  BY <1>1, <1>2 DEF Agrees
<1>6. Agrees(p)'
  BY <1>2, <1>3, <1>5 DEF Agrees
<1>7. Settled(r)' /\ Announced(r)'
  BY <1>2, <1>3, <1>5 DEF Settled, Announced
<1>8. pay'[r].status \in {"PROCESSING", "COMPLETED"} /\ pay'[r].refunded = 0
        => pay[r].status \in {"PROCESSING", "COMPLETED"}
  <2> SUFFICES ASSUME req[p].status = "COMPLETED", pay[r].refunded = 0
               PROVE  pay[r].status = "PROCESSING"
    BY <1>3, <1>5
  <2>1. pay[r].status # "FAILED"
    BY <1>1, <1>5 DEF Settled
  <2>2. pay[r].status \notin {"REFUNDED", "PARTIALLY_REFUNDED"}
    BY <1>1 DEF Settled
  <2> QED
    BY <1>1, <1>5, <2>1, <2>2 DEF PayRec, Statuses
<1> QED
  BY <1>1, <1>2, <1>3, <1>4, <1>5, <1>6, <1>7, <1>8, WriteSerial

\* A cancellation writes over an open payment about which nothing was published.
LEMMA CancelSerial ==
  ASSUME IInv, SInv, perils = {}, NEW p \in Reqs, CancelWrite(p)
  PROVE  SInv'
<1> PICK r : r = req[p].for
  OBVIOUS
<1>1. r \in Reservations /\ Good(r) /\ Agrees(p) /\ pay[r] \in PayRec
  BY DEF CancelWrite, IInv, TypeOK, Known, SInv, Good
<1>2. /\ req'[p] = NoReq /\ (\A q \in Reqs \ {p} : req'[q] = req[q])
      /\ req[p].call = "cancel" /\ req[p].step = "write" /\ UNCHANGED <<gw, told, perils>>
  BY DEF CancelWrite, Finish, IInv, TypeOK
<1>3. /\ pay'[r].status = "CANCELLED" /\ pay'[r].txn = pay[r].txn
      /\ \A s \in Reservations \ {r} : pay'[s] = pay[s]
  BY <1>1 DEF CancelWrite, IInv, TypeOK, PayRec
<1>4. Only(p, r)
  BY <1>2, <1>3 DEF Only, NoReq
<1>5. pay[r].status = "PROCESSING" /\ req'[p].for # r
  BY <1>1, <1>2, ConstantsAssumption DEF Agrees, NoReq
<1>6. Matches(r)
  <2>1. \A q \in Reqs : req[q].for = r => q = p
    BY <1>1, ConstantsAssumption DEF SInv, Alone
  <2> QED
    BY <1>1, <1>2, <2>1 DEF Good, Announced
<1>7. Settled(r)' /\ Announced(r)'
  BY <1>2, <1>3, <1>5, <1>6 DEF Settled, Announced, Matches
<1> QED
  BY <1>1, <1>2, <1>3, <1>4, <1>5, <1>7, WriteSerial

\* A refund writes over a completed payment and leaves it refunded.
LEMMA RefundSerial ==
  ASSUME IInv, SInv, perils = {}, NEW p \in Reqs, RefundWrite(p)
  PROVE  SInv'
<1> PICK r : r = req[p].for
  OBVIOUS
<1>1. r \in Reservations /\ Good(r) /\ Agrees(p) /\ pay[r] \in PayRec /\ Settled(r)
  BY DEF RefundWrite, IInv, TypeOK, Known, SInv, Good
<1>2. /\ req'[p].for = r /\ req'[p].step = "announce" /\ req'[p].call = "refund"
      /\ (\A q \in Reqs \ {p} : req'[q] = req[q])
      /\ req[p].call = "refund" /\ req[p].step = "write" /\ UNCHANGED <<gw, told, perils>>
  BY DEF RefundWrite, IInv, TypeOK, ReqRec
<1>3. /\ pay[r].status = "COMPLETED" /\ req[p].amount > 0
      /\ req[p].amount \in Nat /\ req[p].seen \in Nat
  BY <1>1, <1>2 DEF Agrees, IInv, TypeOK, ReqRec
<1>4. /\ pay'[r].status \in {"REFUNDED", "PARTIALLY_REFUNDED"} /\ pay'[r].txn = pay[r].txn
      /\ pay'[r].refunded = req[p].seen + req[p].amount
      /\ \A s \in Reservations \ {r} : pay'[s] = pay[s]
  BY <1>1 DEF RefundWrite, IInv, TypeOK, PayRec
<1>5. Only(p, r)
  BY <1>2, <1>4 DEF Only
<1>6. Agrees(p)'
  BY <1>2, <1>4 DEF Agrees
<1>7. Settled(r)' /\ Announced(r)'
  <2>1. req[p].seen + req[p].amount > 0
    BY <1>3
  <2> QED
    BY <1>1, <1>2, <1>3, <1>4, <2>1 DEF Settled, Announced
<1> QED
  BY <1>1, <1>2, <1>3, <1>4, <1>5, <1>6, <1>7, WriteSerial

\* The event that is published says what the row says.
LEMMA AnnounceSerial ==
  ASSUME IInv, SInv, perils = {}, NEW p \in Reqs, Announce(p)
  PROVE  SInv'
<1> PICK r : r = req[p].for
  OBVIOUS
<1>1. r \in Reservations /\ Good(r) /\ Agrees(p) /\ Settled(r) /\ OnlyCharge(r)
  BY DEF Announce, IInv, Known, SInv, Good
<1>2. /\ req'[p] = NoReq /\ (\A q \in Reqs \ {p} : req'[q] = req[q])
      /\ req[p].step = "announce" /\ UNCHANGED <<pay, gw, perils>>
  BY DEF Announce, Finish, IInv, TypeOK
<1>3. told'[r] = EventOf(req[p].call, req[p].status)
      /\ \A s \in Reservations \ {r} : told'[s] = told[s]
  BY <1>1 DEF Announce, IInv, TypeOK
<1>4. Only(p, r) /\ req'[p].for # r
  BY <1>1, <1>2, <1>3, ConstantsAssumption DEF Only, NoReq
<1>5. Settled(r)'
  BY <1>1, <1>2 DEF Settled
<1>6. OnlyCharge(r)'
  <2>1. \A t \in Txns : Chargeable(r, t) => Chargeable(r, t)'
    BY <1>2 DEF Chargeable
  <2> QED
    BY <1>1, <1>2, <2>1 DEF OnlyCharge, Accepted
<1>7. Announced(r)'
  BY <1>1, <1>2, <1>3 DEF Agrees, EventOf, Announced, Matches
<1> QED
  BY <1>1, <1>2, <1>4, <1>5, <1>6, <1>7, HereKeeps

\* A customer who pays, or does not, settles an open attempt for good.
LEMMA SettleSerial ==
  ASSUME IInv, SInv, perils = {}, NEW t \in Txns, NEW state \in {"paid", "failed"},
         Settle(t, state)
  PROVE  SInv'
<1>1. /\ gw[t].state = "open" /\ gw'[t].state = state /\ gw'[t].for = gw[t].for
      /\ (\A u \in Txns \ {t} : gw'[u] = gw[u]) /\ UNCHANGED <<pay, told, req, perils>>
  BY DEF Settle, IInv, TypeOK, TxnRec
<1>2. \A u \in Txns : Accepted(u)' => Accepted(u)
  BY <1>1 DEF Accepted
<1>3. \A u \in Txns : gw'[u].for = gw[u].for
                      /\ (gw[u].state \in {"paid", "failed"} => gw'[u].state = gw[u].state)
  BY <1>1
<1>4. \A r \in Reservations : pay[r] = NoPay \/ pay[r].txn \in Txns
  BY DEF IInv, Rows
<1>5. ASSUME NEW p \in Reqs, req[p].for \in Reservations, Agrees(p) PROVE Agrees(p)'
  <2>1. req[p].step = "create" => req[p].txn \in Txns
    BY DEF IInv, Known
  <2> QED
    BY <1>1, <1>3, <1>4, <1>5, <2>1 DEF Agrees, NoPay
<1>6. ASSUME NEW r \in Reservations, Good(r) PROVE Good(r)'
  <2>1. Settled(r)'
    BY <1>1, <1>3, <1>4, <1>6 DEF Good, Settled, NoPay
  <2>2. OnlyCharge(r)'
    BY <1>1, <1>2, <1>3, <1>6 DEF Good, OnlyCharge, Chargeable
  <2>3. Announced(r)'
    BY <1>1, <1>6 DEF Good, Announced, Matches
  <2>4. \A p \in Reqs : req'[p].for = r => Agrees(p)'
    BY <1>1, <1>5, <1>6 DEF Good
  <2> QED
    BY <2>1, <2>2, <2>3, <2>4 DEF Good
<1> QED
  BY <1>1, <1>6 DEF SInv, Alone

\* Each step of a handler keeps the rows and the requests in order.
LEMMA StepSerial ==
  ASSUME IInv, SInv, perils = {}, NEW p \in Reqs, RequestStep(p)
  PROVE  SInv'
<1>1. CASE RefundGateway(p) \/ RefundRefused(p)
  <2> PICK r : r = req[p].for
    OBVIOUS
  <2>1. /\ req[p].step = "gateway" /\ req[p].call = "refund" /\ r \in Reservations
        /\ req[p].txn = pay[r].txn /\ pay[r].txn \in Txns
    BY <1>1 DEF RefundGateway, RefundRefused, IInv, Known
  <2>2. /\ UNCHANGED <<pay, told, perils>> /\ (\A q \in Reqs \ {p} : req'[q] = req[q])
        /\ \A t \in Txns : gw'[t].for = gw[t].for /\ gw'[t].state = gw[t].state
    BY <1>1, <2>1 DEF RefundGateway, RefundRefused, Finish, IInv, TypeOK, TxnRec
  <2>3. \/ req'[p] = NoReq
        \/ /\ req'[p].for = r /\ req'[p].step = "write" /\ req'[p].call = "refund"
           /\ req'[p].amount = req[p].amount
    BY <1>1, <2>1 DEF RefundGateway, RefundRefused, Finish, IInv, TypeOK, ReqRec
  <2>4. Only(p, r)
    BY <2>2, <2>3 DEF Only, NoReq
  <2>5. req'[p].for = r => Agrees(p)'
    <3>1. Agrees(p) /\ None \notin Reservations
      BY <2>1, ConstantsAssumption DEF SInv, Good
    <3> QED
      BY <2>1, <2>2, <2>3, <3>1 DEF Agrees, NoReq
  <2> QED
    BY <2>1, <2>2, <2>4, <2>5, RequestKeeps
<1>2. ~Stop(p) /\ \A t, u \in Txns : ~InitiateUnanswered(p, t, u)
  BY DEF Stop, InitiateUnanswered
<1> QED
  BY <1>1, <1>2, ChargeSerial, CreateSerial, ConfirmSerial, CancelSerial, RefundSerial,
     AnnounceSerial DEF RequestStep

\* With one request about a payment at a time and no failure, rows, requests, the
\* gateway and the events stay in order.
THEOREM SerialInvariance == Spec => []SInv
<1>1. IInv /\ SInv /\ [Next]_vars => SInv'
  <2> SUFFICES ASSUME IInv, SInv, perils = {}, [Next]_vars
               PROVE  SInv'
    <3>1. ASSUME NEW p \in Reqs, RequestStart(p) PROVE perils' = perils
      BY <3>1 DEF RequestStart, InitiateRead, CancelRead, ConfirmRead, RefundRead
    <3>2. ASSUME NEW p \in Reqs, RequestStep(p) PROVE perils' = perils
      BY <3>2 DEF RequestStep, InitiateCharge, InitiateUnanswered, InitiateCreate, ConfirmWrite,
         CancelWrite, RefundGateway, RefundRefused, RefundWrite, Announce, Stop
    <3>3. [Next]_vars => perils' = perils
      BY <3>1, <3>2 DEF Next, vars, Settle
    <3> QED
      BY <3>3 DEF SInv
  <2>1. CASE UNCHANGED vars
    BY <2>1 DEF vars, SInv, Alone, Good, Agrees, Settled, OnlyCharge, Chargeable, Announced,
       Matches, Accepted
  <2> QED
    BY <2>1, StartSerial, StepSerial, SettleSerial DEF Next
<1> QED
  BY <1>1, InitSerial, Invariance, PTL DEF Spec

\* While the requests about it come one by one and complete, an open or completed
\* payment that was never refunded is the only one its customer can be charged.
THEOREM OneLiveCharge == Spec => []LivePaymentIsTheOnlyCharge
<1>1. SInv => LivePaymentIsTheOnlyCharge
  BY DEF SInv, Good, OnlyCharge, Chargeable, LivePaymentIsTheOnlyCharge
<1> QED
  BY <1>1, SerialInvariance, PTL

\* While requests come one by one and complete, the last event published about a
\* payment is what its row says.
THEOREM EventsTellTheRow == Spec => []EventsTellStatus
<1>1. SInv => EventsTellStatus
  BY DEF SInv, Good, Announced, Matches, Requested, EventsTellStatus
<1> QED
  BY <1>1, SerialInvariance, PTL
=============================================================================
