------------------------------- MODULE Tickets -------------------------------
(***************************************************************************)
(* The ticket service: one ticket for each confirmed booking, made when    *)
(* booking.confirmed arrives on the queue ticket.events or when a client   *)
(* asks for it, and its validation at the gate.                            *)
(*                                                                         *)
(* Deliveries are handled side by side (the channel sets no prefetch) and  *)
(* interleave at every await.  A delivery is known by its tag, a number    *)
(* that starts again with every channel, while handleMessage answers on    *)
(* whatever channel is open when it ends.                                  *)
(***************************************************************************)
EXTENDS Integers, FiniteSets

CONSTANTS
  Booked,         \* bookings
  Clerks,         \* handlers running at a time: deliveries and requests
  TicketNumbers,  \* what generateTicketNumber draws from
  MaxTag,         \* bound: deliveries on one channel
  MaxTicketFaults,\* bound: crashes, lost connections and disk errors
  TicketRegimes,  \* the sets of perils to consider
  NoTicket

\* errors:    the PDF may not be written
\* crash:     the process may die
\* reconnect: the connection to RabbitMQ may be lost while handlers run
\* gates:     a ticket may be validated at two gates at a time
\* draws:     a ticket number may be drawn again
AllTicketPerils == {"errors", "crash", "reconnect", "gates", "draws"}

ASSUME TicketsAssumption ==
  /\ MaxTag \in Nat \ {0} /\ MaxTicketFaults \in Nat
  /\ TicketRegimes \subseteq SUBSET AllTicketPerils
  /\ NoTicket \notin Booked \cup TicketNumbers
  /\ NoTicket \notin [number : TicketNumbers, isValidated : BOOLEAN]

VARIABLES
  bookingRow,     \* Booking.status, as far as this service tells it apart
  ticket,         \* the row of tickets with this bookingId, if any
  pdf,            \* storage/tickets: for each number, whose ticket is in the file
  confirmedQueue, \* ticket.events: messages ready, by booking
  unacked,        \* deliveries of the open channel that are not answered, by tag
  nextTag,
  clerk,          \* locals of each handler
  acked,          \* observer: bookings of which a message was acknowledged
  boarded,        \* observer: passengers let through on the booking's ticket
  ticketFaults,
  ticketPerils

ticketVars == <<bookingRow, ticket, pdf, confirmedQueue, unacked, nextTag, clerk, acked, boarded,
                ticketFaults, ticketPerils>>

Free == [for |-> NoTicket, tag |-> 0, step |-> "none", number |-> NoTicket]
TicketRec == [number : TicketNumbers, isValidated : BOOLEAN]

TicketsTypeOK ==
  /\ bookingRow \in [Booked -> {"PAYMENT_PENDING", "CONFIRMED", "CANCELLED"}]
  /\ ticket \in [Booked -> TicketRec \cup {NoTicket}]
  /\ pdf \in [TicketNumbers -> Booked \cup {NoTicket}]
  /\ confirmedQueue \in [Booked -> Nat]
  /\ unacked \in [1..MaxTag -> Booked \cup {NoTicket}]
  /\ nextTag \in 1..MaxTag + 1
  /\ clerk \in [Clerks -> [for : Booked \cup {NoTicket}, tag : 0..MaxTag,
                           step : {"none", "find", "booking", "pdf", "create", "ack", "nack",
                                   "read", "board"},
                           number : TicketNumbers \cup {NoTicket}]]
  /\ acked \subseteq Booked
  /\ boarded \in [Booked -> Nat]
  /\ ticketFaults \in 0..MaxTicketFaults
  /\ ticketPerils \in TicketRegimes

TicketsInit ==
  /\ bookingRow = [b \in Booked |-> "PAYMENT_PENDING"]
  /\ ticket = [b \in Booked |-> NoTicket]
  /\ pdf = [n \in TicketNumbers |-> NoTicket]
  /\ confirmedQueue = [b \in Booked |-> 0]
  /\ unacked = [t \in 1..MaxTag |-> NoTicket]
  /\ nextTag = 1
  /\ clerk = [c \in Clerks |-> Free]
  /\ acked = {}
  /\ boarded = [b \in Booked |-> 0]
  /\ ticketFaults = 0
  /\ ticketPerils \in TicketRegimes

-----------------------------------------------------------------------------
(* The booking service, as far as it is seen here.                         *)

BookingIsConfirmed(b) ==
  /\ bookingRow[b] = "PAYMENT_PENDING"
  /\ bookingRow' = [bookingRow EXCEPT ![b] = "CONFIRMED"]
  /\ confirmedQueue' = [confirmedQueue EXCEPT ![b] = @ + 1]
  /\ UNCHANGED <<ticket, pdf, unacked, nextTag, clerk, acked, boarded, ticketFaults, ticketPerils>>

BookingIsCancelled(b) ==
  /\ bookingRow[b] = "CONFIRMED"
  /\ bookingRow' = [bookingRow EXCEPT ![b] = "CANCELLED"]
  /\ UNCHANGED <<ticket, pdf, confirmedQueue, unacked, nextTag, clerk, acked, boarded, ticketFaults,
                 ticketPerils>>

-----------------------------------------------------------------------------
(* Messages.                                                               *)

\* consume: RabbitMQ hands out a message under the next tag.
Deliver(c, b) ==
  /\ clerk[c] = Free /\ confirmedQueue[b] > 0 /\ nextTag <= MaxTag
  /\ confirmedQueue' = [confirmedQueue EXCEPT ![b] = @ - 1]
  /\ unacked' = [unacked EXCEPT ![nextTag] = b]
  /\ nextTag' = nextTag + 1
  /\ clerk' = [clerk EXCEPT ![c] = [Free EXCEPT !.for = b, !.tag = nextTag, !.step = "find"]]
  /\ UNCHANGED <<bookingRow, ticket, pdf, acked, boarded, ticketFaults, ticketPerils>>

\* A new channel: the old one's deliveries are ready again, tags start over.
NewChannel ==
  /\ confirmedQueue' =
       [b \in Booked |-> confirmedQueue[b] + Cardinality({t \in 1..MaxTag : unacked[t] = b})]
  /\ unacked' = [t \in 1..MaxTag |-> NoTicket]
  /\ nextTag' = 1

\* A tag that is not outstanding ends the channel with an error nobody listens
\* to, and with it the process.
AnswerUnknown(c) ==
  /\ clerk[c].step \in {"ack", "nack"} /\ unacked[clerk[c].tag] = NoTicket
  /\ NewChannel
  /\ clerk' = [x \in Clerks |-> Free]
  /\ UNCHANGED <<bookingRow, ticket, pdf, acked, boarded, ticketFaults, ticketPerils>>

\* channel.ack, channel.nack with requeue: whatever has this tag on this channel.
Ack(c) ==
  LET t == clerk[c].tag IN
  /\ clerk[c].step = "ack" /\ unacked[t] # NoTicket
  /\ acked' = acked \cup {unacked[t]}
  /\ unacked' = [unacked EXCEPT ![t] = NoTicket]
  /\ clerk' = [clerk EXCEPT ![c] = Free]
  /\ UNCHANGED <<bookingRow, ticket, pdf, confirmedQueue, nextTag, boarded, ticketFaults,
                 ticketPerils>>

\* Mutant: nack without requeue.
NackDrop(c) ==
  /\ clerk[c].step = "nack" /\ unacked[clerk[c].tag] # NoTicket
  /\ unacked' = [unacked EXCEPT ![clerk[c].tag] = NoTicket]
  /\ clerk' = [clerk EXCEPT ![c] = Free]
  /\ UNCHANGED <<bookingRow, ticket, pdf, confirmedQueue, nextTag, acked, boarded, ticketFaults,
                 ticketPerils>>

Nack(c) ==
  LET t == clerk[c].tag IN
  /\ clerk[c].step = "nack" /\ unacked[t] # NoTicket
  /\ confirmedQueue' = [confirmedQueue EXCEPT ![unacked[t]] = @ + 1]
  /\ unacked' = [unacked EXCEPT ![t] = NoTicket]
  /\ clerk' = [clerk EXCEPT ![c] = Free]
  /\ UNCHANGED <<bookingRow, ticket, pdf, nextTag, acked, boarded, ticketFaults, ticketPerils>>

\* The bound MaxTag stands for no limit: an idle channel may start over.
Recycle ==
  /\ nextTag > MaxTag /\ \A t \in 1..MaxTag : unacked[t] = NoTicket
  /\ \A c \in Clerks : clerk[c].tag = 0
  /\ nextTag' = 1
  /\ UNCHANGED <<bookingRow, ticket, pdf, confirmedQueue, unacked, clerk, acked, boarded,
                 ticketFaults, ticketPerils>>

-----------------------------------------------------------------------------
(* generateTicket, one action between awaits.                              *)

RequestTicket(c, b) ==
  /\ clerk[c] = Free
  /\ clerk' = [clerk EXCEPT ![c] = [Free EXCEPT !.for = b, !.step = "find"]]
  /\ UNCHANGED <<bookingRow, ticket, pdf, confirmedQueue, unacked, nextTag, acked, boarded,
                 ticketFaults, ticketPerils>>

\* A delivery goes on to its answer to RabbitMQ, a request is over.
Done(c, answer) ==
  clerk' = [clerk EXCEPT ![c] = IF @.tag = 0 THEN Free ELSE [@ EXCEPT !.step = answer]]

FindTicket(c) ==
  /\ clerk[c].step = "find"
  /\ IF ticket[clerk[c].for] # NoTicket THEN Done(c, "ack")
     ELSE clerk' = [clerk EXCEPT ![c].step = "booking"]
  /\ UNCHANGED <<bookingRow, ticket, pdf, confirmedQueue, unacked, nextTag, acked, boarded,
                 ticketFaults, ticketPerils>>

\* generateTicketNumber: five random digits after the date, looked up nowhere.
Drawable ==
  IF "draws" \in ticketPerils THEN TicketNumbers
  ELSE TicketNumbers \ ({ticket[b].number : b \in {x \in Booked : ticket[x] # NoTicket}}
                         \cup {clerk[c].number : c \in Clerks})

\* Mutant: the row is written before the PDF.
ReadBookingRowFirst(c) ==
  /\ clerk[c].step = "booking" /\ bookingRow[clerk[c].for] = "CONFIRMED"
  /\ \E n \in Drawable : clerk' = [clerk EXCEPT ![c].step = "create", ![c].number = n]
  /\ UNCHANGED <<bookingRow, ticket, pdf, confirmedQueue, unacked, nextTag, acked, boarded,
                 ticketFaults, ticketPerils>>

\* Mutant: an unconfirmed booking is no reason to keep the message.
ReadBookingDrop(c) ==
  /\ clerk[c].step = "booking"
  /\ Done(c, "ack")
  /\ UNCHANGED <<bookingRow, ticket, pdf, confirmedQueue, unacked, nextTag, acked, boarded,
                 ticketFaults, ticketPerils>>

ReadBooking(c) ==
  /\ clerk[c].step = "booking"
  /\ IF bookingRow[clerk[c].for] # "CONFIRMED" THEN Done(c, "nack")
     ELSE \E n \in Drawable :
            clerk' = [clerk EXCEPT ![c].step = "pdf", ![c].number = n]
  /\ UNCHANGED <<bookingRow, ticket, pdf, confirmedQueue, unacked, nextTag, acked, boarded,
                 ticketFaults, ticketPerils>>

\* generateTicketPDF: the file is named by the number, an older one is overwritten.
WritePdf(c) ==
  /\ clerk[c].step = "pdf"
  /\ pdf' = [pdf EXCEPT ![clerk[c].number] = clerk[c].for]
  /\ clerk' = [clerk EXCEPT ![c].step = "create"]
  /\ UNCHANGED <<bookingRow, ticket, confirmedQueue, unacked, nextTag, acked, boarded, ticketFaults,
                 ticketPerils>>

PdfFails(c) ==
  /\ "errors" \in ticketPerils /\ ticketFaults < MaxTicketFaults
  /\ clerk[c].step = "pdf"
  /\ ticketFaults' = ticketFaults + 1
  /\ Done(c, "nack")
  /\ UNCHANGED <<bookingRow, ticket, pdf, confirmedQueue, unacked, nextTag, acked, boarded,
                 ticketPerils>>

\* Mutant: upsert in place of create.
CreateTicketAnew(c) ==
  LET b == clerk[c].for
      n == clerk[c].number IN
  /\ clerk[c].step = "create"
  /\ Done(c, "ack")
  /\ ticket' = [ticket EXCEPT ![b] = [number |-> n, isValidated |-> FALSE]]
  /\ UNCHANGED <<bookingRow, pdf, confirmedQueue, unacked, nextTag, acked, boarded, ticketFaults,
                 ticketPerils>>

\* bookingId and ticketNumber are unique.
CreateTicket(c) ==
  LET b == clerk[c].for
      n == clerk[c].number
      taken == ticket[b] # NoTicket
               \/ \E x \in Booked : ticket[x] # NoTicket /\ ticket[x].number = n IN
  /\ clerk[c].step = "create"
  /\ Done(c, IF taken THEN "nack" ELSE "ack")
  /\ ticket' = IF taken THEN ticket
               ELSE [ticket EXCEPT ![b] = [number |-> n, isValidated |-> FALSE]]
  /\ UNCHANGED <<bookingRow, pdf, confirmedQueue, unacked, nextTag, acked, boarded, ticketFaults,
                 ticketPerils>>

-----------------------------------------------------------------------------
(* validateTicket.                                                         *)

Validating(b) == \E c \in Clerks : clerk[c].for = b /\ clerk[c].step \in {"read", "board"}

AskToBoard(c, b) ==
  /\ clerk[c] = Free /\ ticket[b] # NoTicket
  /\ "gates" \in ticketPerils \/ ~Validating(b)
  /\ clerk' = [clerk EXCEPT ![c] = [Free EXCEPT !.for = b, !.step = "read"]]
  /\ UNCHANGED <<bookingRow, ticket, pdf, confirmedQueue, unacked, nextTag, acked, boarded,
                 ticketFaults, ticketPerils>>

\* Mutant: a ticket that was used is not refused.
ReadToBoardUsed(c) ==
  /\ clerk[c].step = "read"
  /\ clerk' = [clerk EXCEPT ![c] =
       IF bookingRow[@.for] = "CONFIRMED" THEN [@ EXCEPT !.step = "board"] ELSE Free]
  /\ UNCHANGED <<bookingRow, ticket, pdf, confirmedQueue, unacked, nextTag, acked, boarded,
                 ticketFaults, ticketPerils>>

\* The ticket and its booking are read together.
ReadToBoard(c) ==
  /\ clerk[c].step = "read"
  /\ clerk' = [clerk EXCEPT ![c] =
       IF ~ticket[@.for].isValidated /\ bookingRow[@.for] = "CONFIRMED"
       THEN [@ EXCEPT !.step = "board"] ELSE Free]
  /\ UNCHANGED <<bookingRow, ticket, pdf, confirmedQueue, unacked, nextTag, acked, boarded,
                 ticketFaults, ticketPerils>>

\* ticket.update, "Passenger can board".
Board(c) ==
  LET b == clerk[c].for IN
  /\ clerk[c].step = "board"
  /\ ticket' = [ticket EXCEPT ![b].isValidated = TRUE]
  /\ boarded' = [boarded EXCEPT ![b] = @ + 1]
  /\ clerk' = [clerk EXCEPT ![c] = Free]
  /\ UNCHANGED <<bookingRow, pdf, confirmedQueue, unacked, nextTag, acked, ticketFaults,
                 ticketPerils>>

-----------------------------------------------------------------------------
TicketCrash ==
  /\ "crash" \in ticketPerils /\ ticketFaults < MaxTicketFaults
  /\ ticketFaults' = ticketFaults + 1
  /\ NewChannel
  /\ clerk' = [c \in Clerks |-> Free]
  /\ UNCHANGED <<bookingRow, ticket, pdf, acked, boarded, ticketPerils>>

\* connection "close", connect again after five seconds: the handlers run on.
Reconnect ==
  /\ "reconnect" \in ticketPerils /\ ticketFaults < MaxTicketFaults
  /\ ticketFaults' = ticketFaults + 1
  /\ NewChannel
  /\ UNCHANGED <<bookingRow, ticket, pdf, clerk, acked, boarded, ticketPerils>>

ClerkStep(c) ==
  \/ AnswerUnknown(c) \/ Ack(c) \/ Nack(c)
  \/ FindTicket(c) \/ ReadBooking(c) \/ WritePdf(c) \/ CreateTicket(c)
  \/ ReadToBoard(c) \/ Board(c)

TicketsNext ==
  \/ \E b \in Booked : BookingIsConfirmed(b) \/ BookingIsCancelled(b)
  \/ \E c \in Clerks : ClerkStep(c) \/ PdfFails(c)
                       \/ \E b \in Booked : Deliver(c, b) \/ RequestTicket(c, b) \/ AskToBoard(c, b)
  \/ Recycle \/ TicketCrash \/ Reconnect

TicketsSpec == TicketsInit /\ [][TicketsNext]_ticketVars

\* A handler's steps follow one another; RabbitMQ delivers every message it
\* keeps being asked for, and the process is started again.
TicketsFairness ==
  /\ \A c \in Clerks : WF_ticketVars(ClerkStep(c))
  /\ \A b \in Booked : SF_ticketVars(\E c \in Clerks : Deliver(c, b))
  /\ WF_ticketVars(Recycle)

-----------------------------------------------------------------------------
\* No confirmation gets lost: whatever fails between the delivery and its answer,
\* a message is acknowledged only when its booking has a ticket.  This leaves out
\* a lost connection: then the handler answers a tag of the old channel on the
\* new one, where it may be another message's.
AckedHasTicket ==
  "reconnect" \notin ticketPerils => \A b \in acked : ticket[b] # NoTicket

\* Every ticket can be downloaded, and shows its own booking: a crash or an error
\* at any point leaves no ticket without its PDF, though a ticket that is there is
\* never printed again.  Not so when a number is drawn twice: the file of the
\* older ticket is overwritten before the unique number refuses the newer one.
TicketIsPrinted ==
  "draws" \notin ticketPerils =>
    \A b \in Booked : ticket[b] # NoTicket => pdf[ticket[b].number] = b

\* A ticket lets one passenger through, as long as it is not shown at two gates
\* at a time.
BoardsOnce == "gates" \notin ticketPerils => \A b \in Booked : boarded[b] <= 1

\* The office as its customers see it: a message is ready, out or answered, a ticket
\* is its number.
Office == INSTANCE TicketOffice WITH
  announced <- {b \in Booked : bookingRow[b] # "PAYMENT_PENDING"},
  due       <- {b \in Booked : confirmedQueue[b] > 0 \/ \E t \in 1..MaxTag : unacked[t] = b},
  issued    <- [b \in Booked |-> IF ticket[b] = NoTicket THEN NoTicket ELSE ticket[b].number],
  admitted  <- boarded,
  muddled   <- "reconnect" \in ticketPerils,
  crowded   <- "gates" \in ticketPerils

\* The handlers' many steps, redeliveries, crashes and refused writes are the steps
\* of the office: each confirmation is settled once and not before its ticket is
\* there, a ticket's number is its own and stays, and nobody boards twice on it.
ActsAsOffice == Office!Spec

\* A confirmed booking that is not cancelled gets its ticket in the end, whatever
\* crashes, fails or is asked for twice, as long as the connection holds.
TicketsCome ==
  \A b \in Booked :
    bookingRow[b] = "CONFIRMED" /\ "reconnect" \notin ticketPerils
      ~> ticket[b] # NoTicket \/ bookingRow[b] = "CANCELLED"
=============================================================================
