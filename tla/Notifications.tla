---------------------------- MODULE Notifications ----------------------------
(***************************************************************************)
(* The notification service: a row for every event of the queue            *)
(* notification.events, a mail for a confirmed booking, and the resending  *)
(* of a mail by hand, which may overlap with the first sending.            *)
(*                                                                         *)
(* The connection to RabbitMQ holds here: what the tags of a lost one do   *)
(* is the subject of Tickets, whose consumer has the same code.            *)
(***************************************************************************)
EXTENDS Integers, Sequences, FiniteSets

CONSTANTS
  Confirmations,    \* the booking.confirmed events
  OtherNews,        \* booking.cancelled, payment.completed and payment.failed
  Couriers,         \* handlers at a time: deliveries and requests
  MaxMailAttempts,  \* MAX_RETRY_ATTEMPTS, 3
  MaxNotifications, \* bound: rows
  NewsRegimes,      \* the sets of perils to consider
  NoNews

\* provider: sending may fail           unset:  no mail provider is configured
\* writes:   a query may be refused     crash:  the process may die
\* noTable:  the database has no such table, as in schema.prisma
\* resend:   mails are sent again by hand, at any time
AllNewsPerils == {"provider", "unset", "writes", "crash", "noTable", "resend"}

News == Confirmations \cup OtherNews

ASSUME NotificationsAssumption ==
  /\ MaxMailAttempts \in Nat /\ MaxNotifications \in Nat
  /\ NewsRegimes \subseteq SUBSET AllNewsPerils
  /\ NoNews \notin News

VARIABLES
  newsQueue,   \* notification.events: the messages ready
  settled,     \* observer: the messages acknowledged
  notice,      \* the rows of notifications, by id
  courier,     \* locals of each handler
  newsPerils

newsVars == <<newsQueue, settled, notice, courier, newsPerils>>

NoticeStatus == {"PENDING", "RETRYING", "SENT", "FAILED"}

\* mails, doubted: observers, the mails this handler sent, and those of them that
\* count as not sent.
Off == [news |-> NoNews, row |-> 0, template |-> "", step |-> "none", attempt |-> 0, mails |-> 0,
        doubted |-> 0]

NotificationsTypeOK ==
  /\ newsQueue \subseteq News /\ settled \subseteq News
  /\ Len(notice) <= MaxNotifications
  /\ \A i \in DOMAIN notice : notice[i] \in [news : News, status : NoticeStatus]
  /\ \A c \in Couriers :
       /\ courier[c].news \in News \cup {NoNews} /\ courier[c].row \in 0..Len(notice)
       /\ courier[c].step \in {"none", "record", "begin", "mail", "sent", "missed", "pause"}
       /\ courier[c].attempt \in 0..MaxMailAttempts /\ courier[c].mails \in Nat /\ courier[c].doubted \in Nat
  /\ newsPerils \in NewsRegimes

NotificationsInit ==
  /\ newsQueue = News
  /\ settled = {}
  /\ notice = <<>>
  /\ courier = [c \in Couriers |-> Off]
  /\ newsPerils \in NewsRegimes

-----------------------------------------------------------------------------
(* Messages.  A handler's last step and its answer are one.                *)

Hold(c, locals) == courier' = [courier EXCEPT ![c] = locals]

\* Each new delivery may come to a row, for which there must be room.
ReceiveNews(c, e) ==
  /\ courier[c] = Off /\ e \in newsQueue
  /\ Len(notice) + Cardinality({d \in Couriers : courier[d].step = "record"}) < MaxNotifications
  /\ newsQueue' = newsQueue \ {e}
  /\ Hold(c, [Off EXCEPT !.news = e, !.step = "record"])
  /\ UNCHANGED <<settled, notice, newsPerils>>

\* channel.ack, or the end of a request.
Finish(c) ==
  /\ settled' = settled \cup ({courier[c].news} \ {NoNews})
  /\ Hold(c, Off)
  /\ UNCHANGED newsQueue

\* channel.nack with requeue, or a 500.
GiveBack(c) ==
  /\ newsQueue' = newsQueue \cup ({courier[c].news} \ {NoNews})
  /\ Hold(c, Off)
  /\ UNCHANGED settled

\* createNotification.  Only a confirmation goes on to a mail.
CreateNotice(c) ==
  LET e == courier[c].news IN
  /\ courier[c].step = "record"
  /\ \/ /\ "noTable" \notin newsPerils
        /\ notice' = Append(notice, [news |-> e, status |-> "PENDING"])
        /\ IF e \in Confirmations
           THEN /\ Hold(c, [courier[c] EXCEPT !.row = Len(notice) + 1, !.step = "begin",
                                              !.template = "booking-confirmation"])
                /\ UNCHANGED <<newsQueue, settled>>
           ELSE Finish(c)
     \/ /\ newsPerils \cap {"noTable", "writes"} # {}
        /\ GiveBack(c)
        /\ UNCHANGED notice
  /\ UNCHANGED newsPerils

\* resend: of the four types the consumer records, one has no template (a 500).
Resend(c, i, template) ==
  /\ "resend" \in newsPerils
  /\ courier[c] = Off
  /\ Hold(c, [Off EXCEPT !.row = i, !.template = template, !.step = "begin"])
  /\ UNCHANGED <<newsQueue, settled, notice, newsPerils>>

-----------------------------------------------------------------------------
(* sendEmail.                                                              *)

Templates == {"booking-confirmed", "booking-cancelled", "payment-failed"}
TemplateMap(e) == IF e \in Confirmations THEN {"booking-confirmed"}
                  ELSE {"booking-cancelled", "payment-failed"}

WriteStatus(c, status) == notice' = [notice EXCEPT ![courier[c].row].status = status]

\* A write that is refused throws out of sendEmail.
WriteRefused(c) == "writes" \in newsPerils /\ GiveBack(c) /\ UNCHANGED notice

\* isConfigured
BeginMail(c) ==
  /\ courier[c].step = "begin"
  /\ IF "unset" \in newsPerils
     THEN (WriteStatus(c, "FAILED") /\ Finish(c)) \/ WriteRefused(c)
     ELSE Hold(c, [courier[c] EXCEPT !.step = "mail"]) /\ UNCHANGED <<newsQueue, settled, notice>>
  /\ UNCHANGED newsPerils

\* loadTemplate throws if there is no such file.  Any error of the provider is a
\* failure to its caller, one that comes after the mail went out, too.
SendMail(c) ==
  /\ courier[c].step = "mail"
  /\ \/ /\ courier[c].template \in Templates
        /\ Hold(c, [courier[c] EXCEPT !.step = "sent", !.mails = @ + 1])
     \/ /\ courier[c].template \in Templates /\ "provider" \in newsPerils
        /\ Hold(c, [courier[c] EXCEPT !.step = "missed", !.mails = @ + 1, !.doubted = @ + 1])
     \/ /\ courier[c].template \notin Templates \/ "provider" \in newsPerils
        /\ Hold(c, [courier[c] EXCEPT !.step = "missed"])
  /\ UNCHANGED <<newsQueue, settled, notice, newsPerils>>

\* Mutant: no return after the status is written.
WriteSentGoOn(c) ==
  /\ courier[c].step = "sent"
  /\ WriteStatus(c, "SENT")
  /\ IF courier[c].attempt = MaxMailAttempts THEN Finish(c)
     ELSE /\ Hold(c, [courier[c] EXCEPT !.step = "mail", !.attempt = @ + 1])
          /\ UNCHANGED <<newsQueue, settled>>
  /\ UNCHANGED newsPerils

\* The write of SENT stands in the same try: refused, the mail counts as not sent.
WriteSent(c) ==
  /\ courier[c].step = "sent"
  /\ \/ WriteStatus(c, "SENT") /\ Finish(c)
     \/ /\ "writes" \in newsPerils
        /\ Hold(c, [courier[c] EXCEPT !.step = "missed", !.doubted = @ + 1])
        /\ UNCHANGED <<newsQueue, settled, notice>>
  /\ UNCHANGED newsPerils

\* Mutant: an error of the write is swallowed.
WriteMissedQuiet(c) ==
  /\ courier[c].step = "missed"
  /\ \/ WriteStatus(c, "FAILED")
     \/ "writes" \in newsPerils /\ UNCHANGED notice
  /\ Finish(c)
  /\ UNCHANGED newsPerils

\* The catch: RETRYING, or FAILED after the last attempt.
WriteMissed(c) ==
  /\ courier[c].step = "missed"
  /\ \/ IF courier[c].attempt < MaxMailAttempts
        THEN /\ WriteStatus(c, "RETRYING")
             /\ Hold(c, [courier[c] EXCEPT !.step = "pause"])
             /\ UNCHANGED <<newsQueue, settled>>
        ELSE WriteStatus(c, "FAILED") /\ Finish(c)
     \/ WriteRefused(c)
  /\ UNCHANGED newsPerils

\* Mutant: the attempts are not counted.
RetryMailUncounted(c) ==
  /\ courier[c].step = "pause"
  /\ Hold(c, [courier[c] EXCEPT !.step = "mail"])
  /\ UNCHANGED <<newsQueue, settled, notice, newsPerils>>

\* RETRY_DELAY_MS have passed.
RetryMail(c) ==
  /\ courier[c].step = "pause"
  /\ Hold(c, [courier[c] EXCEPT !.step = "mail", !.attempt = @ + 1])
  /\ UNCHANGED <<newsQueue, settled, notice, newsPerils>>

-----------------------------------------------------------------------------
\* Every message that was not answered is delivered again.
NewsCrash ==
  /\ "crash" \in newsPerils
  /\ newsQueue' = newsQueue \cup ({courier[c].news : c \in Couriers} \ {NoNews})
  /\ courier' = [c \in Couriers |-> Off]
  /\ UNCHANGED <<settled, notice, newsPerils>>

CourierStep(c) ==
  CreateNotice(c) \/ BeginMail(c) \/ SendMail(c) \/ WriteSent(c) \/ WriteMissed(c) \/ RetryMail(c)

NotificationsNext ==
  \/ \E c \in Couriers :
       \/ CourierStep(c)
       \/ \E e \in News : ReceiveNews(c, e)
       \/ \E i \in DOMAIN notice : \E template \in TemplateMap(notice[i].news) : Resend(c, i, template)
  \/ NewsCrash

NotificationsSpec == NotificationsInit /\ [][NotificationsNext]_newsVars

\* A handler's steps follow one another.
NotificationsFairness == \A c \in Couriers : WF_newsVars(CourierStep(c))

-----------------------------------------------------------------------------
\* A message that was acknowledged has left its row, and the row of a confirmation
\* says how the sending ended: no crash, no refused query and no failing provider
\* makes it look settled while it is not.  A later resending may change the row.
AckedIsSettled ==
  "resend" \notin newsPerils =>
    \A e \in settled : \E i \in DOMAIN notice :
      notice[i].news = e /\ (e \in Confirmations => notice[i].status \in {"SENT", "FAILED"})

\* One sending, with all its attempts, mails its customer again only after a mail
\* whose end it could not know: its provider reported an error although it went
\* out, or the row could not be set to SENT.  No other failure, retry, crash or
\* sending side by side adds a mail.
MailedOnce == \A c \in Couriers : courier[c].mails <= courier[c].doubted + 1

\* Every handler ends, whatever the provider and the database do.
CouriersRest == \A c \in Couriers : courier[c] # Off ~> courier[c] = Off
=============================================================================
