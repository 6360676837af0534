---------------------------- MODULE TicketOffice ----------------------------
(***************************************************************************)
(* What the ticket service promises, with no queue, no channel and no      *)
(* awaits: a confirmed booking is due a ticket, gets one number that no    *)
(* other booking has and keeps it, is settled when it has it, and lets one *)
(* passenger through.                                                      *)
(***************************************************************************)
EXTENDS Integers

CONSTANTS Booked, TicketNumbers, NoTicket

VARIABLES
  announced,  \* bookings that were confirmed
  due,        \* of these, the ones whose confirmation is not settled
  issued,     \* the number of each booking's ticket, or NoTicket
  admitted,   \* passengers let through on it
  muddled,    \* an answer to a message may be taken for another's
  crowded     \* a ticket may be shown at two gates at a time

officeVars == <<announced, due, issued, admitted, muddled, crowded>>

Init ==
  /\ announced = {} /\ due = {}
  /\ issued = [b \in Booked |-> NoTicket]
  /\ admitted = [b \in Booked |-> 0]
  /\ muddled \in BOOLEAN /\ crowded \in BOOLEAN

Announce(b) ==
  /\ b \notin announced
  /\ announced' = announced \cup {b} /\ due' = due \cup {b}
  /\ UNCHANGED <<issued, admitted, muddled, crowded>>

\* A booking may have been cancelled since it was read.
Issue(b, n) ==
  /\ b \in announced /\ issued[b] = NoTicket
  /\ \A x \in Booked : issued[x] # n
  /\ issued' = [issued EXCEPT ![b] = n]
  /\ UNCHANGED <<announced, due, admitted, muddled, crowded>>

Settle(b) ==
  /\ b \in due /\ (issued[b] # NoTicket \/ muddled)
  /\ due' = due \ {b}
  /\ UNCHANGED <<announced, issued, admitted, muddled, crowded>>

Admit(b) ==
  /\ issued[b] # NoTicket /\ (admitted[b] = 0 \/ crowded)
  /\ admitted' = [admitted EXCEPT ![b] = @ + 1]
  /\ UNCHANGED <<announced, due, issued, muddled, crowded>>

Next ==
  \E b \in Booked :
    Announce(b) \/ Settle(b) \/ Admit(b) \/ \E n \in TicketNumbers : Issue(b, n)

Spec == Init /\ [][Next]_officeVars
=============================================================================
