--------------------------- MODULE ConsumersProofs ---------------------------
(****************************************************************************)
(* What the two consumers of the events promise, for any number of          *)
(* bookings, messages and handlers. Notifications first: a message that was *)
(* acknowledged has a row nobody works on, and one sending mails once.      *)
(* Then tickets: NewsInv and TicketsInv follow what a handler remembers     *)
(* across its awaits (the row it sends, the tag it answers, the number it   *)
(* drew, the ticket it saw), which is what the properties rest on. Last,    *)
(* Tickets implements TicketOffice: a booking has one message at most, and  *)
(* each step of the service is one of the office or none.                   *)
(****************************************************************************)
EXTENDS Tickets, Notifications, FiniteSetTheorems, SequenceTheorems, TLAPS

(****************************************************************************)
(* Notifications.                                                           *)
(****************************************************************************)

\* The steps at which a handler is at work on a row of its own, and the final states.
Working == {"begin", "mail", "sent", "missed", "pause"}
Over == {"SENT", "FAILED"}

\* The locals of a handler, and the types of the state.
CourierRec ==
  [news : News \cup {NoNews}, row : Nat,
   template : {"", "booking-confirmation", "booking-confirmed", "booking-cancelled",
               "payment-failed"},
   step : {"none", "record"} \cup Working, attempt : Nat, mails : Nat, doubted : Nat]

NewsTyped ==
  /\ newsQueue \subseteq News /\ settled \subseteq News
  /\ notice \in Seq([news : News, status : NoticeStatus])
  /\ courier \in [Couriers -> CourierRec]
  /\ \A c \in Couriers :
       /\ courier[c].step = "record" => courier[c].news \in News
       /\ courier[c].step \in Working => courier[c].row \in DOMAIN notice

\* Without resending a handler that sends has a row of its own, the row of its message.
NewsOwned ==
  "resend" \notin newsPerils =>
    \A c \in Couriers : courier[c].step \in Working =>
      /\ courier[c].news \in Confirmations
      /\ notice[courier[c].row].news = courier[c].news
      /\ \A d \in Couriers \ {c} :
           courier[d].step \in Working => courier[d].row # courier[c].row

\* An acknowledged message has a row that nobody is going to change.
NewsTold ==
  "resend" \notin newsPerils =>
    \A e \in settled : \E i \in DOMAIN notice :
      /\ notice[i].news = e
      /\ e \in Confirmations => notice[i].status \in Over
      /\ \A c \in Couriers : courier[c].step \in Working => courier[c].row # i

NewsInv == NewsTyped /\ NewsOwned /\ NewsTold

\* The locals of a handler at rest have their type.
LEMMA OffTyped == Off \in CourierRec
BY DEF Off, CourierRec

\* Setting one field of a row keeps the rows.
LEMMA WriteStatusRows ==
  ASSUME NewsTyped, NEW c \in Couriers, courier[c].row \in DOMAIN notice,
         NEW status \in NoticeStatus, WriteStatus(c, status)
  PROVE  /\ notice' \in Seq([news : News, status : NoticeStatus])
         /\ DOMAIN notice' = DOMAIN notice
         /\ \A i \in DOMAIN notice : notice'[i].news = notice[i].news
         /\ \A i \in DOMAIN notice \ {courier[c].row} : notice'[i] = notice[i]
         /\ notice'[courier[c].row].status = status
<1> PICK r : r = courier[c].row
  OBVIOUS
<1>1. notice' = [notice EXCEPT ![r].status = status] /\ r \in DOMAIN notice
  BY DEF WriteStatus
<1>2. notice \in [1..Len(notice) -> [news : News, status : NoticeStatus]] /\ Len(notice) \in Nat
  BY LenProperties DEF NewsTyped
<1>3. DOMAIN notice = 1..Len(notice)
  BY <1>2
<1>4. \A i \in DOMAIN notice :
        notice'[i] = IF i = r THEN [notice[i] EXCEPT !.status = status] ELSE notice[i]
  BY <1>1, <1>3
<1>5. \A i \in DOMAIN notice : notice[i] \in [news : News, status : NoticeStatus]
  BY <1>2, <1>3
<1>6. \A i \in DOMAIN notice : notice'[i] \in [news : News, status : NoticeStatus]
  BY <1>4, <1>5
<1>7. DOMAIN notice' = DOMAIN notice
  BY <1>1
<1>8. notice' = [notice EXCEPT ![r] = notice'[r]] /\ notice'[r] \in [news : News, status : NoticeStatus]
  BY <1>1, <1>6
<1>9. notice' \in Seq([news : News, status : NoticeStatus])
  BY <1>1, <1>3, <1>8, ExceptSeq DEF NewsTyped
<1>10. /\ \A i \in DOMAIN notice : notice'[i].news = notice[i].news
       /\ \A i \in DOMAIN notice \ {r} : notice'[i] = notice[i]
       /\ notice'[r].status = status
  BY <1>1, <1>4, <1>5
<1> QED
  BY <1>7, <1>9, <1>10

\* A handler that changes only its locals, and not its row, its message or that it
\* is at work, keeps the invariant.
LEMMA HoldInv ==
  ASSUME NewsInv, NEW c \in Couriers, NEW locals \in CourierRec, Hold(c, locals),
         UNCHANGED <<newsQueue, settled, notice, newsPerils>>,
         courier[c].step \in Working, locals.step \in Working,
         locals.row = courier[c].row, locals.news = courier[c].news
  PROVE  NewsInv'
<1>1. courier' = [courier EXCEPT ![c] = locals] /\ courier \in [Couriers -> CourierRec]
  BY DEF Hold, NewsInv, NewsTyped
<1>2. courier' \in [Couriers -> CourierRec]
  BY <1>1
<1>3. \A d \in Couriers : courier'[d] = IF d = c THEN locals ELSE courier[d]
  BY <1>1
<1>4. \A d \in Couriers : /\ courier'[d].row = courier[d].row /\ courier'[d].news = courier[d].news
                          /\ courier'[d].step \in Working <=> courier[d].step \in Working
                          /\ courier'[d].step = "record" => courier[d].step = "record"
  BY <1>3 DEF Working
<1>5. NewsTyped'
  BY <1>2, <1>4 DEF NewsInv, NewsTyped
<1>6. NewsOwned'
  BY <1>4 DEF NewsInv, NewsOwned
<1>7. NewsTold'
  BY <1>4 DEF NewsInv, NewsTold
<1> QED
  BY <1>5, <1>6, <1>7 DEF NewsInv

\* A handler that ends, acknowledging or not, keeps the invariant when its message,
\* if acknowledged, is told of in a row nobody works on.
LEMMA EndInv ==
  ASSUME NewsInv, NEW c \in Couriers, Hold(c, Off), newsPerils' = newsPerils,
         newsQueue' \subseteq News, settled' \subseteq News,
         notice' \in Seq([news : News, status : NoticeStatus]),
         DOMAIN notice \subseteq DOMAIN notice',
         \A i \in DOMAIN notice : notice'[i].news = notice[i].news,
         \A i \in DOMAIN notice :
           courier[c].step \notin Working \/ i # courier[c].row => notice'[i] = notice[i],
         "resend" \notin newsPerils =>
           \A e \in settled' \ settled : \E i \in DOMAIN notice' :
             /\ notice'[i].news = e
             /\ e \in Confirmations => notice'[i].status \in Over
             /\ \A d \in Couriers \ {c} : courier[d].step \in Working => courier[d].row # i
  PROVE  NewsInv'
<1>1. courier' = [courier EXCEPT ![c] = Off] /\ courier \in [Couriers -> CourierRec]
  BY DEF Hold, NewsInv, NewsTyped
<1>2. courier' \in [Couriers -> CourierRec]
  BY <1>1, OffTyped
<1>3. \A d \in Couriers : courier'[d] = IF d = c THEN Off ELSE courier[d]
  BY <1>1
<1>4. Off.step = "none"
  BY DEF Off
<1>5. \A d \in Couriers : courier'[d].step \in Working \cup {"record"} => d # c /\ courier'[d] = courier[d]
  BY <1>3, <1>4 DEF Working
<1>6. NewsTyped'
  BY <1>2, <1>5 DEF NewsInv, NewsTyped
<1>7. NewsOwned'
  <2> SUFFICES ASSUME "resend" \notin newsPerils, NEW d \in Couriers, courier'[d].step \in Working
               PROVE  /\ courier'[d].news \in Confirmations
                      /\ notice'[courier'[d].row].news = courier'[d].news
                      /\ \A x \in Couriers \ {d} :
                           courier'[x].step \in Working => courier'[x].row # courier'[d].row
    BY DEF NewsOwned
  <2>1. courier[d].step \in Working /\ courier'[d] = courier[d] /\ courier[d].row \in DOMAIN notice
    BY <1>5 DEF NewsInv, NewsTyped
  <2>2. notice'[courier[d].row].news = notice[courier[d].row].news
    BY <2>1
  <2> QED
    BY <1>5, <2>1, <2>2 DEF NewsInv, NewsOwned
<1>8. NewsTold'
  <2> SUFFICES ASSUME "resend" \notin newsPerils, NEW e \in settled'
               PROVE  \E i \in DOMAIN notice' :
                        /\ notice'[i].news = e
                        /\ e \in Confirmations => notice'[i].status \in Over
                        /\ \A d \in Couriers : courier'[d].step \in Working => courier'[d].row # i
    BY DEF NewsTold
  <2>1. CASE e \notin settled
    BY <1>5, <2>1
  <2>2. CASE e \in settled
    <3>1. PICK i \in DOMAIN notice :
            /\ notice[i].news = e
            /\ e \in Confirmations => notice[i].status \in Over
            /\ \A d \in Couriers : courier[d].step \in Working => courier[d].row # i
      BY <2>2 DEF NewsInv, NewsTold
    <3>2. notice'[i] = notice[i] /\ i \in DOMAIN notice'
      BY <3>1
    <3> QED
      BY <1>5, <3>1, <3>2
  <2> QED
    BY <2>1, <2>2
<1> QED
  BY <1>6, <1>7, <1>8 DEF NewsInv

\* A delivery that starts has nothing to do with any row yet.
LEMMA ReceiveNewsInv ==
  ASSUME NewsInv, NEW c \in Couriers, NEW e \in News, ReceiveNews(c, e)
  PROVE  NewsInv'
<1> DEFINE locals == [Off EXCEPT !.news = e, !.step = "record"]
<1>1. locals \in CourierRec /\ locals.step = "record" /\ locals.news = e
  BY DEF Off, CourierRec
<1>2. courier' = [courier EXCEPT ![c] = locals] /\ courier \in [Couriers -> CourierRec]
  BY DEF Hold, ReceiveNews, NewsInv, NewsTyped
<1> HIDE DEF locals
<1>3. /\ courier' \in [Couriers -> CourierRec]
      /\ \A d \in Couriers : courier'[d] = IF d = c THEN locals ELSE courier[d]
  BY <1>1, <1>2
<1>4. UNCHANGED <<settled, notice, newsPerils>> /\ newsQueue' \subseteq News
  BY DEF ReceiveNews, NewsInv, NewsTyped
<1>5. \A d \in Couriers : courier'[d].step \in Working => courier'[d] = courier[d]
  BY <1>1, <1>3 DEF Working
<1>6. NewsTyped'
  BY <1>1, <1>3, <1>4, <1>5 DEF NewsInv, NewsTyped
<1>7. NewsOwned'
  BY <1>4, <1>5 DEF NewsInv, NewsOwned
<1>8. NewsTold'
  BY <1>4, <1>5 DEF NewsInv, NewsTold
<1> QED
  BY <1>6, <1>7, <1>8 DEF NewsInv

\* A resending may take a row somebody works on: all that is left is the types.
LEMMA ResendInv ==
  ASSUME NewsInv, NEW c \in Couriers, NEW i \in DOMAIN notice,
         NEW template \in TemplateMap(notice[i].news), Resend(c, i, template)
  PROVE  NewsInv'
<1> DEFINE locals == [Off EXCEPT !.row = i, !.template = template, !.step = "begin"]
<1>1. i \in Nat
  BY LenProperties DEF NewsInv, NewsTyped
<1>2. locals \in CourierRec /\ locals.step = "begin" /\ locals.row = i
  BY <1>1 DEF Off, CourierRec, TemplateMap, Working
<1>3. courier' = [courier EXCEPT ![c] = locals] /\ courier \in [Couriers -> CourierRec]
  BY DEF Hold, Resend, NewsInv, NewsTyped
<1> HIDE DEF locals
<1>4. /\ courier' \in [Couriers -> CourierRec]
      /\ \A d \in Couriers : courier'[d] = IF d = c THEN locals ELSE courier[d]
  BY <1>2, <1>3
<1>5. UNCHANGED <<newsQueue, settled, notice, newsPerils>> /\ "resend" \in newsPerils
  BY DEF Resend
<1>6. NewsTyped'
  BY <1>2, <1>4, <1>5 DEF NewsInv, NewsTyped
<1> QED
  BY <1>5, <1>6 DEF NewsInv, NewsOwned, NewsTold

\* A handler that leaves its row alone, or the rows as they are, may give its
\* message back.
LEMMA GiveBackInv ==
  ASSUME NewsInv, NEW c \in Couriers, GiveBack(c), UNCHANGED <<notice, newsPerils>>
  PROVE  NewsInv'
<1>1. newsQueue' \subseteq News /\ settled' = settled /\ Hold(c, Off)
  BY DEF GiveBack, NewsInv, NewsTyped, CourierRec
<1>2. settled' \subseteq News /\ notice' \in Seq([news : News, status : NoticeStatus])
  BY <1>1 DEF NewsInv, NewsTyped
<1> QED
  BY <1>1, <1>2, EndInv

\* A handler that ends with its row SENT or FAILED has told of its message there.
LEMMA WriteOverInv ==
  ASSUME NewsInv, NEW c \in Couriers, courier[c].step \in Working,
         NEW status \in Over, WriteStatus(c, status), Finish(c), newsPerils' = newsPerils
  PROVE  NewsInv'
<1> PICK r : r = courier[c].row
  OBVIOUS
<1>1. r \in DOMAIN notice /\ status \in NoticeStatus
  BY DEF NewsInv, NewsTyped, Over, NoticeStatus
<1>2. /\ notice' \in Seq([news : News, status : NoticeStatus])
      /\ DOMAIN notice' = DOMAIN notice
      /\ \A i \in DOMAIN notice : notice'[i].news = notice[i].news
      /\ \A i \in DOMAIN notice \ {r} : notice'[i] = notice[i]
      /\ notice'[r].status = status
  BY <1>1, WriteStatusRows DEF NewsInv
<1>3. /\ newsQueue' \subseteq News /\ settled' \subseteq News /\ Hold(c, Off)
      /\ settled' \ settled \subseteq {courier[c].news}
  BY DEF Finish, NewsInv, NewsTyped, CourierRec
<1>4. ASSUME "resend" \notin newsPerils, NEW e \in settled' \ settled
      PROVE  \E i \in DOMAIN notice' :
               /\ notice'[i].news = e
               /\ e \in Confirmations => notice'[i].status \in Over
               /\ \A d \in Couriers \ {c} : courier[d].step \in Working => courier[d].row # i
  BY <1>1, <1>2, <1>3, <1>4 DEF NewsInv, NewsOwned
<1> QED
  BY <1>2, <1>3, <1>4, EndInv

\* A new row is nobody else's.
LEMMA CreateNoticeInv ==
  ASSUME NewsInv, NEW c \in Couriers, CreateNotice(c)
  PROVE  NewsInv'
<1> DEFINE e == courier[c].news
           new == [news |-> e, status |-> "PENDING"]
<1>0. courier[c].step = "record" /\ e \in News /\ newsPerils' = newsPerils
  BY DEF CreateNotice, NewsInv, NewsTyped
<1>1. CASE GiveBack(c) /\ UNCHANGED notice
  BY <1>0, <1>1, GiveBackInv
<1>2. CASE notice' = Append(notice, new)
  <2>1. new \in [news : News, status : NoticeStatus] /\ new.news = e
    BY <1>0 DEF NoticeStatus
  <2> HIDE DEF new
  <2> DEFINE n == Len(notice) + 1
  <2>2. /\ Len(notice) \in Nat /\ DOMAIN notice = 1..Len(notice)
        /\ notice' \in Seq([news : News, status : NoticeStatus])
        /\ Len(notice') = n
        /\ \A i \in 1..Len(notice) : notice'[i] = notice[i]
        /\ notice'[n] = new
    BY <1>2, <2>1, LenProperties, AppendProperties DEF NewsInv, NewsTyped
  <2>3. DOMAIN notice' = 1..n
    BY <2>2, LenProperties
  <2>4. /\ n \in DOMAIN notice' /\ n \notin DOMAIN notice
        /\ DOMAIN notice \subseteq DOMAIN notice' /\ n \in Nat
        /\ \A i \in DOMAIN notice : notice'[i] = notice[i]
    BY <2>2, <2>3
  <2>5. notice'[n].news = e
    BY <2>1, <2>2
  <2>6. \A d \in Couriers : courier[d].step \in Working => courier[d].row # n
    BY <2>4 DEF NewsInv, NewsTyped
  <2> HIDE DEF n
  <2>7. CASE e \notin Confirmations /\ Finish(c)
    <3>1. /\ newsQueue' \subseteq News /\ settled' \subseteq News /\ Hold(c, Off)
          /\ settled' \ settled \subseteq {e}
      BY <1>0, <2>7 DEF Finish, NewsInv, NewsTyped
    <3>2. \A x \in settled' \ settled : \E i \in DOMAIN notice' :
            /\ notice'[i].news = x
            /\ x \in Confirmations => notice'[i].status \in Over
            /\ \A d \in Couriers \ {c} : courier[d].step \in Working => courier[d].row # i
      BY <2>4, <2>5, <2>6, <2>7, <3>1
    <3>3. \A i \in DOMAIN notice : notice'[i].news = notice[i].news
      BY <2>4
    <3> QED
      BY <1>0, <2>2, <2>4, <3>1, <3>2, <3>3, EndInv
  <2>8. CASE /\ e \in Confirmations
             /\ Hold(c, [courier[c] EXCEPT !.row = Len(notice) + 1, !.step = "begin",
                                           !.template = "booking-confirmation"])
             /\ UNCHANGED <<newsQueue, settled>>
    <3> DEFINE locals == [courier[c] EXCEPT !.row = n, !.step = "begin",
                                            !.template = "booking-confirmation"]
    <3>1. courier \in [Couriers -> CourierRec] /\ courier[c] \in CourierRec
      BY DEF NewsInv, NewsTyped
    <3>2. locals \in CourierRec /\ locals.row = n /\ locals.step = "begin" /\ locals.news = e
      BY <2>4, <3>1 DEF CourierRec, Working
    <3>3. courier' = [courier EXCEPT ![c] = locals]
      BY <2>8 DEF Hold, n
    <3> HIDE DEF locals
    <3>4. /\ courier' \in [Couriers -> CourierRec]
          /\ \A d \in Couriers : courier'[d] = IF d = c THEN locals ELSE courier[d]
      BY <3>1, <3>2, <3>3
    <3>5. NewsTyped'
      <4>1. newsQueue' \subseteq News /\ settled' \subseteq News
        BY <2>8 DEF NewsInv, NewsTyped
      <4>2. ASSUME NEW d \in Couriers
            PROVE  /\ courier'[d].step = "record" => courier'[d].news \in News
                   /\ courier'[d].step \in Working => courier'[d].row \in DOMAIN notice'
        BY <2>4, <3>2, <3>4 DEF NewsInv, NewsTyped
      <4> QED
        BY <2>2, <3>4, <4>1, <4>2 DEF NewsTyped
    <3>6. NewsOwned'
      <4> SUFFICES ASSUME "resend" \notin newsPerils, NEW d \in Couriers, courier'[d].step \in Working
                   PROVE  /\ courier'[d].news \in Confirmations
                          /\ notice'[courier'[d].row].news = courier'[d].news
                          /\ \A x \in Couriers \ {d} :
                               courier'[x].step \in Working => courier'[x].row # courier'[d].row
        BY <1>0 DEF NewsOwned
      <4>1. CASE d = c
        BY <2>5, <2>6, <2>8, <3>2, <3>4, <4>1
      <4>2. CASE d # c
        <5>1. courier'[d] = courier[d] /\ courier[d].row \in DOMAIN notice /\ courier[d].row # n
          BY <2>6, <3>4, <4>2 DEF NewsInv, NewsTyped
        <5>2. /\ courier[d].news \in Confirmations
              /\ notice[courier[d].row].news = courier[d].news
              /\ \A x \in Couriers \ {d} :
                   courier[x].step \in Working => courier[x].row # courier[d].row
          BY <5>1 DEF NewsInv, NewsOwned
        <5> QED
          BY <2>4, <3>2, <3>4, <5>1, <5>2
      <4> QED
        BY <4>1, <4>2
    <3>7. NewsTold'
      <4> SUFFICES ASSUME "resend" \notin newsPerils, NEW x \in settled
                   PROVE  \E i \in DOMAIN notice' :
                            /\ notice'[i].news = x
                            /\ x \in Confirmations => notice'[i].status \in Over
                            /\ \A d \in Couriers : courier'[d].step \in Working => courier'[d].row # i
        BY <1>0, <2>8 DEF NewsTold
      <4>1. PICK i \in DOMAIN notice :
              /\ notice[i].news = x
              /\ x \in Confirmations => notice[i].status \in Over
              /\ \A d \in Couriers : courier[d].step \in Working => courier[d].row # i
        BY DEF NewsInv, NewsTold
      <4>2. i # n /\ notice'[i] = notice[i] /\ i \in DOMAIN notice'
        BY <2>4, <4>1
      <4> QED
        BY <3>2, <3>4, <4>1, <4>2
    <3> QED
      BY <3>5, <3>6, <3>7 DEF NewsInv
  <2> QED
    BY <1>0, <1>2, <2>7, <2>8, GiveBackInv DEF CreateNotice, n
<1> QED
  BY <1>1, <1>2 DEF CreateNotice

\* Sending begins, or ends at once with FAILED where no provider is configured.
LEMMA BeginMailInv ==
  ASSUME NewsInv, NEW c \in Couriers, BeginMail(c)
  PROVE  NewsInv'
<1> DEFINE locals == [courier[c] EXCEPT !.step = "mail"]
<1>1. courier[c].step = "begin" /\ newsPerils' = newsPerils /\ courier[c].step \in Working
  BY DEF BeginMail, Working
<1>2. CASE WriteStatus(c, "FAILED") /\ Finish(c)
  BY <1>1, <1>2, WriteOverInv DEF Over
<1>3. CASE WriteRefused(c)
  BY <1>1, <1>3, GiveBackInv DEF WriteRefused
<1>4. CASE Hold(c, locals) /\ UNCHANGED <<newsQueue, settled, notice>>
  <2>1. courier[c] \in CourierRec
    BY DEF NewsInv, NewsTyped
  <2>2. /\ locals \in CourierRec /\ locals.step \in Working
        /\ locals.row = courier[c].row /\ locals.news = courier[c].news
    BY <2>1 DEF CourierRec, Working
  <2> QED
    BY <1>1, <1>4, <2>2, HoldInv
<1> QED
  BY <1>2, <1>3, <1>4 DEF BeginMail

\* A mail that went out, or did not, changes the handler's locals only.
LEMMA SendMailInv ==
  ASSUME NewsInv, NEW c \in Couriers, SendMail(c)
  PROVE  NewsInv'
<1> DEFINE sent == [courier[c] EXCEPT !.step = "sent", !.mails = @ + 1]
           doubtful == [courier[c] EXCEPT !.step = "missed", !.mails = @ + 1, !.doubted = @ + 1]
           missed == [courier[c] EXCEPT !.step = "missed"]
<1>1. courier[c].step \in Working /\ UNCHANGED <<newsQueue, settled, notice, newsPerils>>
  BY DEF SendMail, Working
<1>2. courier[c] \in CourierRec
  BY DEF NewsInv, NewsTyped
<1>7. courier[c].mails \in Nat /\ courier[c].doubted \in Nat
  BY <1>2 DEF CourierRec
<1>8. courier[c].mails + 1 \in Nat /\ courier[c].doubted + 1 \in Nat
  BY <1>7
<1>9. /\ doubtful \in CourierRec /\ doubtful.step \in Working
      /\ doubtful.row = courier[c].row /\ doubtful.news = courier[c].news
  BY <1>2, <1>8 DEF CourierRec, Working
<1>10. CASE Hold(c, doubtful)
  BY <1>1, <1>9, <1>10, HoldInv
<1>3. /\ sent \in CourierRec /\ sent.step \in Working
      /\ sent.row = courier[c].row /\ sent.news = courier[c].news
  BY <1>2, <1>8 DEF CourierRec, Working
<1>4. /\ missed \in CourierRec /\ missed.step \in Working
      /\ missed.row = courier[c].row /\ missed.news = courier[c].news
  BY <1>2 DEF CourierRec, Working
<1>5. CASE Hold(c, sent)
  BY <1>1, <1>3, <1>5, HoldInv
<1>6. CASE Hold(c, missed)
  BY <1>1, <1>4, <1>6, HoldInv
<1> QED
  BY <1>5, <1>6, <1>10 DEF SendMail

\* SENT is written, or the write is refused and taken for a mail that failed.
LEMMA WriteSentInv ==
  ASSUME NewsInv, NEW c \in Couriers, WriteSent(c)
  PROVE  NewsInv'
<1> DEFINE missed == [courier[c] EXCEPT !.step = "missed", !.doubted = @ + 1]
<1>1. courier[c].step \in Working /\ newsPerils' = newsPerils
  BY DEF WriteSent, Working
<1>2. CASE WriteStatus(c, "SENT") /\ Finish(c)
  BY <1>1, <1>2, WriteOverInv DEF Over
<1>3. CASE Hold(c, missed) /\ UNCHANGED <<newsQueue, settled, notice>>
  <2>1. courier[c] \in CourierRec
    BY DEF NewsInv, NewsTyped
  <2>3. courier[c].doubted + 1 \in Nat
    <3> HIDE DEF missed
    <3>1. courier[c].doubted \in Nat
      BY <2>1 DEF CourierRec
    <3> QED
      BY <3>1
  <2>2. /\ missed \in CourierRec /\ missed.step \in Working
        /\ missed.row = courier[c].row /\ missed.news = courier[c].news
    BY <2>1, <2>3 DEF CourierRec, Working
  <2> QED
    BY <1>1, <1>3, <2>2, HoldInv
<1> QED
  BY <1>2, <1>3 DEF WriteSent

\* RETRYING is written to a row of one's own, which no acknowledged message needs.
LEMMA WriteMissedInv ==
  ASSUME NewsInv, NEW c \in Couriers, WriteMissed(c)
  PROVE  NewsInv'
<1> DEFINE pause == [courier[c] EXCEPT !.step = "pause"]
<1>1. courier[c].step \in Working /\ newsPerils' = newsPerils
  BY DEF WriteMissed, Working
<1>2. CASE WriteStatus(c, "FAILED") /\ Finish(c)
  BY <1>1, <1>2, WriteOverInv DEF Over
<1>3. CASE WriteRefused(c)
  BY <1>1, <1>3, GiveBackInv DEF WriteRefused
<1>4. CASE WriteStatus(c, "RETRYING") /\ Hold(c, pause) /\ UNCHANGED <<newsQueue, settled>>
  <2> PICK r : r = courier[c].row
    OBVIOUS
  <2>1. courier \in [Couriers -> CourierRec] /\ courier[c] \in CourierRec /\ r \in DOMAIN notice
    BY <1>1 DEF NewsInv, NewsTyped
  <2>2. pause \in CourierRec /\ pause.step \in Working /\ pause.row = r /\ pause.news = courier[c].news
        /\ pause.step # "record"
    BY <2>1 DEF CourierRec, Working
  <2>3. courier' = [courier EXCEPT ![c] = pause]
    BY <1>4 DEF Hold
  <2> HIDE DEF pause
  <2>4. /\ courier' \in [Couriers -> CourierRec]
        /\ \A d \in Couriers : courier'[d] = IF d = c THEN pause ELSE courier[d]
    BY <2>1, <2>2, <2>3
  <2>5. \A d \in Couriers : /\ courier'[d].row = courier[d].row /\ courier'[d].news = courier[d].news
                            /\ courier'[d].step \in Working <=> courier[d].step \in Working
                            /\ courier'[d].step = "record" => courier[d].step = "record"
    BY <1>1, <2>2, <2>4
  <2>6. /\ notice' \in Seq([news : News, status : NoticeStatus])
        /\ DOMAIN notice' = DOMAIN notice
        /\ \A i \in DOMAIN notice : notice'[i].news = notice[i].news
        /\ \A i \in DOMAIN notice \ {r} : notice'[i] = notice[i]
    BY <1>4, <2>1, WriteStatusRows DEF NewsInv, NoticeStatus
  <2>7. NewsTyped'
    BY <1>4, <2>4, <2>5, <2>6 DEF NewsInv, NewsTyped
  <2>8. NewsOwned'
    <3> SUFFICES ASSUME "resend" \notin newsPerils, NEW d \in Couriers, courier[d].step \in Working
                 PROVE  /\ courier'[d].news \in Confirmations
                        /\ notice'[courier'[d].row].news = courier'[d].news
                        /\ \A x \in Couriers \ {d} :
                             courier'[x].step \in Working => courier'[x].row # courier'[d].row
      BY <1>1, <2>5 DEF NewsOwned
    <3>1. courier[d].row \in DOMAIN notice
      BY DEF NewsInv, NewsTyped
    <3> QED
      BY <2>5, <2>6, <3>1 DEF NewsInv, NewsOwned
  <2>9. NewsTold'
    <3> SUFFICES ASSUME "resend" \notin newsPerils, NEW x \in settled
                 PROVE  \E i \in DOMAIN notice' :
                          /\ notice'[i].news = x
                          /\ x \in Confirmations => notice'[i].status \in Over
                          /\ \A d \in Couriers : courier'[d].step \in Working => courier'[d].row # i
      BY <1>1, <1>4 DEF NewsTold
    <3>1. PICK i \in DOMAIN notice :
            /\ notice[i].news = x
            /\ x \in Confirmations => notice[i].status \in Over
            /\ \A d \in Couriers : courier[d].step \in Working => courier[d].row # i
      BY DEF NewsInv, NewsTold
    <3>2. i # r
      BY <1>1, <3>1
    <3> QED
      BY <2>5, <2>6, <3>1, <3>2
  <2> QED
    BY <2>7, <2>8, <2>9 DEF NewsInv
<1> QED
  BY <1>2, <1>3, <1>4 DEF WriteMissed

\* The next attempt changes the handler's locals only.
LEMMA RetryMailInv ==
  ASSUME NewsInv, NEW c \in Couriers, RetryMail(c)
  PROVE  NewsInv'
<1> DEFINE locals == [courier[c] EXCEPT !.step = "mail", !.attempt = @ + 1]
<1>1. /\ courier[c].step \in Working /\ UNCHANGED <<newsQueue, settled, notice, newsPerils>>
      /\ Hold(c, locals)
  BY DEF RetryMail, Working
<1>2. courier[c] \in CourierRec
  BY DEF NewsInv, NewsTyped
<1>7. courier[c].attempt \in Nat
  BY <1>2 DEF CourierRec
<1>8. courier[c].attempt + 1 \in Nat
  BY <1>7
<1>3. /\ locals \in CourierRec /\ locals.step \in Working
      /\ locals.row = courier[c].row /\ locals.news = courier[c].news
  BY <1>2, <1>8 DEF CourierRec, Working
<1> QED
  BY <1>1, <1>3, HoldInv

\* A crash frees all handlers; what was acknowledged is on record.
LEMMA NewsCrashInv ==
  ASSUME NewsInv, NewsCrash
  PROVE  NewsInv'
<1>1. /\ courier' = [c \in Couriers |-> Off] /\ UNCHANGED <<settled, notice, newsPerils>>
      /\ newsQueue' = newsQueue \cup ({courier[c].news : c \in Couriers} \ {NoNews})
  BY DEF NewsCrash
<1>2. \A c \in Couriers : courier'[c] = Off /\ courier'[c].step = "none" /\ courier[c].news \in News \cup {NoNews}
  BY <1>1 DEF Off, NewsInv, NewsTyped, CourierRec
<1>3. courier' \in [Couriers -> CourierRec] /\ newsQueue' \subseteq News
  BY <1>1, <1>2, OffTyped DEF NewsInv, NewsTyped
<1>4. \A c \in Couriers : courier'[c].step \notin Working \cup {"record"}
  BY <1>2 DEF Working
<1>5. NewsTyped' /\ NewsOwned' /\ NewsTold'
  BY <1>1, <1>3, <1>4 DEF NewsInv, NewsTyped, NewsOwned, NewsTold
<1> QED
  BY <1>5 DEF NewsInv

\* The invariant of the notification service holds from the start and is kept.
THEOREM NewsInvariance == NotificationsSpec => []NewsInv
<1>1. NotificationsInit => NewsInv
  <2> SUFFICES ASSUME NotificationsInit PROVE NewsInv
    OBVIOUS
  <2>1. notice \in Seq([news : News, status : NoticeStatus]) /\ settled = {}
    BY EmptySeq DEF NotificationsInit
  <2>2. courier \in [Couriers -> CourierRec] /\ \A c \in Couriers : courier[c].step = "none"
    BY OffTyped DEF NotificationsInit, Off
  <2> QED
    BY <2>1, <2>2 DEF NotificationsInit, NewsInv, NewsTyped, NewsOwned, NewsTold, Working
<1>2. NewsInv /\ [NotificationsNext]_newsVars => NewsInv'
  <2> SUFFICES ASSUME NewsInv, [NotificationsNext]_newsVars PROVE NewsInv'
    OBVIOUS
  <2>1. CASE UNCHANGED newsVars
    BY <2>1 DEF newsVars, NewsInv, NewsTyped, NewsOwned, NewsTold
  <2>2. ASSUME NEW c \in Couriers, CourierStep(c) PROVE NewsInv'
    BY <2>2, CreateNoticeInv, BeginMailInv, SendMailInv, WriteSentInv, WriteMissedInv, RetryMailInv
       DEF CourierStep
  <2>3. ASSUME NEW c \in Couriers, NEW e \in News, ReceiveNews(c, e) PROVE NewsInv'
    BY <2>3, ReceiveNewsInv
  <2>4. ASSUME NEW c \in Couriers, NEW i \in DOMAIN notice,
               NEW template \in TemplateMap(notice[i].news), Resend(c, i, template)
        PROVE  NewsInv'
    BY <2>4, ResendInv
  <2>5. CASE NewsCrash
    BY <2>5, NewsCrashInv
  <2> QED
    BY <2>1, <2>2, <2>3, <2>4, <2>5 DEF NotificationsNext
<1> QED
  BY <1>1, <1>2, PTL DEF NotificationsSpec

\* AckedIsSettled: no failure makes a message look settled while it is not.
THEOREM NewsAreSettled == NotificationsSpec => []AckedIsSettled
<1>1. NewsInv => AckedIsSettled
  BY DEF NewsInv, NewsTold, AckedIsSettled, Over
<1> QED
  BY <1>1, NewsInvariance, PTL

\* What a handler has sent is what it doubts, and the mail it is about to record.
Counted(locals) ==
  IF locals.step = "sent" THEN locals.mails = locals.doubted + 1 ELSE locals.mails = locals.doubted

Single == \A c \in Couriers : Counted(courier[c])

\* MailedOnce: however many attempts a sending makes, a mail follows another only
\* when the first was doubtful.
THEOREM OneMail == NotificationsSpec => []MailedOnce
<1>0. Off.step = "none" /\ Off.mails = 0 /\ Off.doubted = 0 /\ Counted(Off)
  BY DEF Off, Counted
<1>1. NotificationsInit => Single
  BY <1>0 DEF NotificationsInit, Single
<1>2. NewsInv /\ Single /\ [NotificationsNext]_newsVars => Single'
  <2> SUFFICES ASSUME NewsInv, Single, [NotificationsNext]_newsVars
               PROVE  \A x \in Couriers : Counted(courier'[x])
    BY DEF Single
  <2>1. courier \in [Couriers -> CourierRec] /\ \A x \in Couriers : courier[x] \in CourierRec
    BY DEF NewsInv, NewsTyped
  <2>3. ASSUME NEW c \in Couriers, NEW locals, Hold(c, locals), Counted(locals)
        PROVE  \A x \in Couriers : Counted(courier'[x])
    <3>1. \A x \in Couriers : courier'[x] = IF x = c THEN locals ELSE courier[x]
      BY <2>1, <2>3 DEF Hold
    <3> QED
      BY <2>3, <3>1 DEF Single
  <2>4. CASE UNCHANGED newsVars
    BY <2>4 DEF newsVars, Single
  <2>5. CASE NewsCrash
    BY <1>0, <2>5 DEF NewsCrash
  <2>7. ASSUME NEW c \in Couriers, Finish(c) \/ GiveBack(c)
        PROVE  Hold(c, Off)
    BY <2>7 DEF Finish, GiveBack
  <2>8. ASSUME NEW c \in Couriers, CourierStep(c)
        PROVE  \E locals : Hold(c, locals) /\ Counted(locals)
    <3>1. courier[c] \in CourierRec
      BY <2>1
    <3>2. /\ Counted(courier[c]) /\ courier[c].mails \in Nat /\ courier[c].doubted \in Nat
      BY <3>1 DEF Single, CourierRec
    <3>3. CASE Finish(c) \/ GiveBack(c)
      BY <1>0, <2>7, <3>3
    <3>4. CASE CreateNotice(c)
      <4> DEFINE locals == [courier[c] EXCEPT !.row = Len(notice) + 1, !.step = "begin",
                                              !.template = "booking-confirmation"]
      <4>1. /\ locals.step = "begin"
            /\ locals.mails = courier[c].mails /\ locals.doubted = courier[c].doubted
        BY <3>1 DEF CourierRec
      <4>2. Hold(c, locals) \/ Finish(c) \/ GiveBack(c)
        BY <3>4 DEF CreateNotice
      <4>3. courier[c].step = "record"
        BY <3>4 DEF CreateNotice
      <4> HIDE DEF locals
      <4>4. Counted(locals)
        BY <3>2, <4>1, <4>3 DEF Counted
      <4> QED
        BY <3>3, <4>2, <4>4
    <3>5. CASE BeginMail(c)
      <4> DEFINE locals == [courier[c] EXCEPT !.step = "mail"]
      <4>1. /\ locals.step = "mail"
            /\ locals.mails = courier[c].mails /\ locals.doubted = courier[c].doubted
        BY <3>1 DEF CourierRec
      <4>2. Hold(c, locals) \/ Finish(c) \/ GiveBack(c)
        BY <3>5 DEF BeginMail, WriteRefused
      <4>3. courier[c].step = "begin"
        BY <3>5 DEF BeginMail
      <4> HIDE DEF locals
      <4>4. Counted(locals)
        BY <3>2, <4>1, <4>3 DEF Counted
      <4> QED
        BY <3>3, <4>2, <4>4
    <3>6. CASE SendMail(c)
      <4> DEFINE sent == [courier[c] EXCEPT !.step = "sent", !.mails = @ + 1]
                 doubtful == [courier[c] EXCEPT !.step = "missed", !.mails = @ + 1,
                                                !.doubted = @ + 1]
                 missed == [courier[c] EXCEPT !.step = "missed"]
      <4>1. courier[c].mails = courier[c].doubted
        BY <3>2, <3>6 DEF SendMail, Counted
      <4>2. /\ sent.step = "sent" /\ sent.mails = courier[c].mails + 1
            /\ sent.doubted = courier[c].doubted
        BY <3>1 DEF CourierRec
      <4>3. /\ doubtful.step = "missed" /\ doubtful.mails = courier[c].mails + 1
            /\ doubtful.doubted = courier[c].doubted + 1
        BY <3>1 DEF CourierRec
      <4>4. /\ missed.step = "missed" /\ missed.mails = courier[c].mails
            /\ missed.doubted = courier[c].doubted
        BY <3>1 DEF CourierRec
      <4>5. Hold(c, sent) \/ Hold(c, doubtful) \/ Hold(c, missed)
        BY <3>6 DEF SendMail
      <4> HIDE DEF sent, doubtful, missed
      <4>6. Counted(sent) /\ Counted(doubtful) /\ Counted(missed)
        BY <4>1, <4>2, <4>3, <4>4 DEF Counted
      <4> QED
        BY <4>5, <4>6
    <3>7. CASE WriteSent(c)
      <4> DEFINE doubtful == [courier[c] EXCEPT !.step = "missed", !.doubted = @ + 1]
      <4>1. /\ doubtful.step = "missed" /\ doubtful.mails = courier[c].mails
            /\ doubtful.doubted = courier[c].doubted + 1
        BY <3>1 DEF CourierRec
      <4>2. Hold(c, doubtful) \/ Finish(c)
        BY <3>7 DEF WriteSent
      <4>3. courier[c].step = "sent"
        BY <3>7 DEF WriteSent
      <4> HIDE DEF doubtful
      <4>4. Counted(doubtful)
        BY <3>2, <4>1, <4>3 DEF Counted
      <4> QED
        BY <3>3, <4>2, <4>4
    <3>8. CASE WriteMissed(c)
      <4> DEFINE locals == [courier[c] EXCEPT !.step = "pause"]
      <4>1. /\ locals.step = "pause"
            /\ locals.mails = courier[c].mails /\ locals.doubted = courier[c].doubted
        BY <3>1 DEF CourierRec
      <4>2. Hold(c, locals) \/ Finish(c) \/ GiveBack(c)
        BY <3>8 DEF WriteMissed, WriteRefused
      <4>3. courier[c].step = "missed"
        BY <3>8 DEF WriteMissed
      <4> HIDE DEF locals
      <4>4. Counted(locals)
        BY <3>2, <4>1, <4>3 DEF Counted
      <4> QED
        BY <3>3, <4>2, <4>4
    <3>9. CASE RetryMail(c)
      <4> DEFINE locals == [courier[c] EXCEPT !.step = "mail", !.attempt = @ + 1]
      <4>1. /\ locals.step = "mail"
            /\ locals.mails = courier[c].mails /\ locals.doubted = courier[c].doubted
        BY <3>1 DEF CourierRec
      <4>2. Hold(c, locals) /\ courier[c].step = "pause"
        BY <3>9 DEF RetryMail
      <4> HIDE DEF locals
      <4>3. Counted(locals)
        BY <3>2, <4>1, <4>2 DEF Counted
      <4> QED
        BY <4>2, <4>3
    <3> QED
      BY <2>8, <3>4, <3>5, <3>6, <3>7, <3>8, <3>9 DEF CourierStep
  <2>9. ASSUME NEW c \in Couriers, NEW e \in News, ReceiveNews(c, e)
        PROVE  \E locals : Hold(c, locals) /\ Counted(locals)
    <3> DEFINE locals == [Off EXCEPT !.news = e, !.step = "record"]
    <3>1. locals.step = "record" /\ locals.mails = 0 /\ locals.doubted = 0
      BY DEF Off
    <3>2. Hold(c, locals)
      BY <2>9 DEF ReceiveNews
    <3> HIDE DEF locals
    <3> QED
      BY <3>1, <3>2 DEF Counted
  <2>10. ASSUME NEW c \in Couriers, NEW i \in DOMAIN notice,
                NEW template \in TemplateMap(notice[i].news), Resend(c, i, template)
         PROVE  \E locals : Hold(c, locals) /\ Counted(locals)
    <3> DEFINE locals == [Off EXCEPT !.row = i, !.template = template, !.step = "begin"]
    <3>1. locals.step = "begin" /\ locals.mails = 0 /\ locals.doubted = 0
      BY DEF Off
    <3>2. Hold(c, locals)
      BY <2>10 DEF Resend
    <3> HIDE DEF locals
    <3> QED
      BY <3>1, <3>2 DEF Counted
  <2> QED
    BY <2>3, <2>4, <2>5, <2>8, <2>9, <2>10 DEF NotificationsNext
<1>3. NewsInv /\ Single => MailedOnce
  <2> SUFFICES ASSUME NewsInv, Single, NEW c \in Couriers
               PROVE  courier[c].mails <= courier[c].doubted + 1
    BY DEF MailedOnce
  <2>1. Counted(courier[c]) /\ courier[c].mails \in Nat /\ courier[c].doubted \in Nat
    BY DEF Single, NewsInv, NewsTyped, CourierRec
  <2> QED
    BY <2>1 DEF Counted
<1> QED
  BY <1>1, <1>2, <1>3, NewsInvariance, PTL DEF NotificationsSpec

(***************************************************************************)
(* The types of the notification service. There is room for a row of every *)
(* delivery that is being recorded, and a handler that pauses has an       *)
(* attempt left.                                                           *)
(***************************************************************************)

Recording == {c \in Couriers : courier[c].step = "record"}

NewsRoom ==
  /\ IsFiniteSet(Recording) /\ Len(notice) + Cardinality(Recording) <= MaxNotifications
  /\ newsPerils \in NewsRegimes
  /\ \A c \in Couriers : /\ courier[c].row \in 0..Len(notice)
                         /\ courier[c].attempt \in 0..MaxMailAttempts
                         /\ courier[c].step = "pause" => courier[c].attempt < MaxMailAttempts

\* What a handler may take its locals to, with l rows in the table.
InRoom(r, l) ==
  /\ r.row \in 0..l /\ r.attempt \in 0..MaxMailAttempts
  /\ r.step = "pause" => r.attempt < MaxMailAttempts

LEMMA OffInRoom == \A l \in Nat : InRoom(Off, l) /\ Off.step = "none"
BY NotificationsAssumption DEF InRoom, Off

\* A handler that leaves the recording step behind may have written a row; any
\* other writes none.
LEMMA RoomKept ==
  ASSUME NewsTyped, NewsRoom, NEW c \in Couriers, NEW locals, Hold(c, locals),
         newsPerils' = newsPerils, Len(notice') \in Nat,
         \/ Len(notice') = Len(notice)
         \/ courier[c].step = "record" /\ Len(notice') = Len(notice) + 1,
         InRoom(locals, Len(notice')), locals.step # "record"
  PROVE  NewsRoom'
<1>1. \A d \in Couriers : courier'[d] = IF d = c THEN locals ELSE courier[d]
  BY DEF Hold, NewsTyped
<1>2. Recording' = Recording \ {c}
  BY <1>1 DEF Recording
<1>3. /\ IsFiniteSet(Recording')
      /\ Cardinality(Recording') = IF c \in Recording THEN Cardinality(Recording) - 1
                                   ELSE Cardinality(Recording)
  BY <1>2, FS_RemoveElement DEF NewsRoom
<1>4. Cardinality(Recording) \in Nat /\ Len(notice) \in Nat
  BY FS_CardinalityType, LenProperties DEF NewsRoom, NewsTyped
<1>5. c \in Recording <=> courier[c].step = "record"
  BY DEF Recording
<1>6. Len(notice') + Cardinality(Recording') <= MaxNotifications
  BY <1>3, <1>4, <1>5, NotificationsAssumption DEF NewsRoom
<1>7. \A d \in Couriers : InRoom(courier'[d], Len(notice'))
  BY <1>1, <1>4 DEF InRoom, NewsRoom
<1> QED
  BY <1>3, <1>6, <1>7 DEF NewsRoom, InRoom

\* Where a handler's step leads.
LEMMA CourierInRoom ==
  ASSUME NewsInv, NewsRoom, NEW c \in Couriers, CourierStep(c)
  PROVE  NewsRoom'
<1>1. courier[c] \in CourierRec /\ InRoom(courier[c], Len(notice)) /\ Len(notice) \in Nat
  BY LenProperties DEF NewsInv, NewsTyped, NewsRoom, InRoom
<1>2. newsPerils' = newsPerils
  BY DEF CourierStep, CreateNotice, BeginMail, SendMail, WriteSent, WriteMissed, RetryMail
<1>3. Finish(c) \/ GiveBack(c) => Hold(c, Off)
  BY DEF Finish, GiveBack
<1>4. ASSUME notice' = notice \/ \E status \in NoticeStatus : WriteStatus(c, status),
             courier[c].step \in Working
      PROVE  Len(notice') = Len(notice)
  <2>1. CASE notice' = notice
    BY <2>1
  <2>2. ASSUME NEW status \in NoticeStatus, WriteStatus(c, status)
        PROVE  Len(notice') = Len(notice)
    <3>1. DOMAIN notice' = DOMAIN notice /\ notice' \in Seq([news : News, status : NoticeStatus])
      BY <1>4, <2>2, WriteStatusRows DEF NewsInv, NewsTyped
    <3>2. /\ notice \in Seq([news : News, status : NoticeStatus])
          /\ DOMAIN notice = 1..Len(notice)
      BY LenProperties DEF NewsInv, NewsTyped
    <3>3. DOMAIN notice' = 1..Len(notice') /\ Len(notice') \in Nat
      BY <3>1, LenProperties
    <3> QED
      BY <1>1, <3>1, <3>2, <3>3
  <2> QED
    BY <1>4, <2>1, <2>2
<1>5. ASSUME NEW locals, Hold(c, locals), InRoom(locals, Len(notice)), locals.step # "record",
             notice' = notice \/ \E status \in NoticeStatus : WriteStatus(c, status),
             courier[c].step \in Working
      PROVE  NewsRoom'
  <2>1. Len(notice') = Len(notice)
    BY <1>4, <1>5
  <2> QED
    BY <1>1, <1>2, <1>5, <2>1, RoomKept DEF NewsInv
<1>6. ASSUME Finish(c) \/ GiveBack(c), courier[c].step \in Working,
             notice' = notice \/ \E status \in NoticeStatus : WriteStatus(c, status)
      PROVE  NewsRoom'
  BY <1>1, <1>3, <1>5, <1>6, OffInRoom
<1>7. CASE CreateNotice(c)
  <2> PICK row : row = [news |-> courier[c].news, status |-> "PENDING"]
    OBVIOUS
  <2>1. courier[c].step = "record" /\ row \in [news : News, status : NoticeStatus]
    BY <1>7 DEF CreateNotice, NewsInv, NewsTyped, NoticeStatus
  <2>2. CASE notice' = Append(notice, row)
    <3>1. Len(notice') = Len(notice) + 1
      BY <2>1, <2>2, AppendProperties DEF NewsInv, NewsTyped
    <3> DEFINE locals == [courier[c] EXCEPT !.row = Len(notice) + 1, !.step = "begin",
                                            !.template = "booking-confirmation"]
    <3>2. locals.row = Len(notice) + 1 /\ locals.step = "begin" /\ locals.attempt = courier[c].attempt
      BY <1>1 DEF CourierRec
    <3>3. InRoom(locals, Len(notice'))
      BY <1>1, <3>1, <3>2 DEF InRoom
    <3>4. Hold(c, locals) \/ Hold(c, Off)
      BY <1>3, <1>7 DEF CreateNotice
    <3> HIDE DEF locals
    <3>5. Len(notice') \in Nat /\ NewsTyped
      BY <1>1, <3>1 DEF NewsInv
    <3>6. CASE Hold(c, locals)
      BY <1>2, <2>1, <3>1, <3>2, <3>3, <3>5, <3>6, RoomKept
    <3>7. CASE Hold(c, Off)
      <4>1. InRoom(Off, Len(notice')) /\ Off.step # "record"
        BY <3>5, OffInRoom
      <4> QED
        BY <1>2, <2>1, <3>1, <3>5, <3>7, <4>1, RoomKept
    <3> QED
      BY <3>4, <3>6, <3>7
  <2>3. CASE notice' = notice /\ GiveBack(c)
    <3>1. Hold(c, Off) /\ InRoom(Off, Len(notice')) /\ Off.step # "record" /\ Len(notice') \in Nat
      BY <1>1, <1>3, <2>3, OffInRoom
    <3> QED
      BY <1>2, <2>3, <3>1, RoomKept DEF NewsInv
  <2> QED
    BY <1>7, <2>2, <2>3 DEF CreateNotice
<1>8. CASE BeginMail(c)
  <2> DEFINE locals == [courier[c] EXCEPT !.step = "mail"]
  <2>1. InRoom(locals, Len(notice)) /\ locals.step # "record"
    BY <1>1 DEF InRoom, CourierRec
  <2>2. courier[c].step \in Working
    BY <1>8 DEF BeginMail, Working
  <2>3. \/ Hold(c, locals) /\ notice' = notice
        \/ GiveBack(c) /\ notice' = notice
        \/ Finish(c) /\ WriteStatus(c, "FAILED")
    BY <1>8 DEF BeginMail, WriteRefused
  <2> HIDE DEF locals
  <2> QED
    BY <1>5, <1>6, <2>1, <2>2, <2>3 DEF NoticeStatus
<1>9. CASE SendMail(c)
  <2> DEFINE sent == [courier[c] EXCEPT !.step = "sent", !.mails = @ + 1]
             doubtful == [courier[c] EXCEPT !.step = "missed", !.mails = @ + 1, !.doubted = @ + 1]
             missed == [courier[c] EXCEPT !.step = "missed"]
  <2>1. /\ InRoom(sent, Len(notice)) /\ sent.step # "record"
        /\ InRoom(doubtful, Len(notice)) /\ doubtful.step # "record"
        /\ InRoom(missed, Len(notice)) /\ missed.step # "record"
    BY <1>1 DEF InRoom, CourierRec
  <2>2. courier[c].step \in Working /\ notice' = notice
    BY <1>9 DEF SendMail, Working
  <2>3. Hold(c, sent) \/ Hold(c, doubtful) \/ Hold(c, missed)
    BY <1>9 DEF SendMail
  <2> HIDE DEF sent, doubtful, missed
  <2> QED
    BY <1>5, <2>1, <2>2, <2>3
<1>10. CASE WriteSent(c)
  <2> DEFINE missed == [courier[c] EXCEPT !.step = "missed", !.doubted = @ + 1]
  <2>1. InRoom(missed, Len(notice)) /\ missed.step # "record"
    BY <1>1 DEF InRoom, CourierRec
  <2>2. courier[c].step \in Working
    BY <1>10 DEF WriteSent, Working
  <2>3. \/ WriteStatus(c, "SENT") /\ Finish(c)
        \/ Hold(c, missed) /\ notice' = notice
    BY <1>10 DEF WriteSent
  <2> HIDE DEF missed
  <2> QED
    BY <1>5, <1>6, <2>1, <2>2, <2>3 DEF NoticeStatus
<1>11. CASE WriteMissed(c)
  <2> DEFINE pause == [courier[c] EXCEPT !.step = "pause"]
  <2>1. courier[c].attempt < MaxMailAttempts => InRoom(pause, Len(notice)) /\ pause.step # "record"
    BY <1>1 DEF InRoom, CourierRec
  <2>2. courier[c].step \in Working
    BY <1>11 DEF WriteMissed, Working
  <2>3. \/ courier[c].attempt < MaxMailAttempts /\ WriteStatus(c, "RETRYING") /\ Hold(c, pause)
        \/ WriteStatus(c, "FAILED") /\ Finish(c)
        \/ GiveBack(c) /\ notice' = notice
    BY <1>11 DEF WriteMissed, WriteRefused
  <2> HIDE DEF pause
  <2> QED
    BY <1>5, <1>6, <2>1, <2>2, <2>3 DEF NoticeStatus
<1>12. CASE RetryMail(c)
  <2> DEFINE again == [courier[c] EXCEPT !.step = "mail", !.attempt = @ + 1]
  <2>1. courier[c].step = "pause" /\ notice' = notice /\ Hold(c, again)
    BY <1>12 DEF RetryMail
  <2>2. again.attempt = courier[c].attempt + 1 /\ again.row = courier[c].row /\ again.step = "mail"
    BY <1>1 DEF CourierRec
  <2>3. InRoom(again, Len(notice)) /\ again.step # "record"
    BY <1>1, <2>1, <2>2, NotificationsAssumption DEF InRoom
  <2> HIDE DEF again
  <2>4. courier[c].step \in Working
    BY <2>1 DEF Working
  <2> QED
    BY <1>5, <2>1, <2>3, <2>4
<1> QED
  BY <1>7, <1>8, <1>9, <1>10, <1>11, <1>12 DEF CourierStep

\* A delivery is taken only when there is room for its row.
LEMMA ReceiveInRoom ==
  ASSUME NewsInv, NewsRoom, NEW c \in Couriers, NEW e \in News, ReceiveNews(c, e)
  PROVE  NewsRoom'
<1> PICK locals : locals = [Off EXCEPT !.news = e, !.step = "record"]
  OBVIOUS
<1>1. /\ notice' = notice /\ newsPerils' = newsPerils /\ courier[c] = Off
      /\ Len(notice) + Cardinality(Recording) < MaxNotifications
      /\ courier' = [courier EXCEPT ![c] = locals]
  BY DEF ReceiveNews, Hold, Recording
<1>2. locals.step = "record" /\ locals.row = 0 /\ locals.attempt = 0 /\ Off.step = "none"
  BY DEF Off
<1>3. \A d \in Couriers : courier'[d] = IF d = c THEN locals ELSE courier[d]
  BY <1>1 DEF NewsInv, NewsTyped
<1>4. Recording' = Recording \cup {c} /\ c \notin Recording
  BY <1>1, <1>2, <1>3 DEF Recording
<1>5. IsFiniteSet(Recording') /\ Cardinality(Recording') = Cardinality(Recording) + 1
  BY <1>4, FS_AddElement DEF NewsRoom
<1>6. Cardinality(Recording) \in Nat /\ Len(notice) \in Nat
  BY FS_CardinalityType, LenProperties DEF NewsRoom, NewsInv, NewsTyped
<1>7. Len(notice') + Cardinality(Recording') <= MaxNotifications
  BY <1>1, <1>5, <1>6, NotificationsAssumption
<1>8. \A d \in Couriers : InRoom(courier'[d], Len(notice'))
  BY <1>1, <1>2, <1>3, <1>6, NotificationsAssumption DEF InRoom, NewsRoom
<1> QED
  BY <1>1, <1>5, <1>7, <1>8 DEF NewsRoom, InRoom

\* NotificationsTypeOK: the table has no more rows than are allowed for, and no
\* sending makes more attempts than MAX_RETRY_ATTEMPTS.
THEOREM NotificationsTypes == NotificationsSpec => []NotificationsTypeOK
<1>1. NotificationsInit => NewsRoom
  <2> SUFFICES ASSUME NotificationsInit PROVE NewsRoom
    OBVIOUS
  <2>1. \A c \in Couriers : courier[c] = Off /\ InRoom(courier[c], 0) /\ courier[c].step # "record"
    BY OffInRoom DEF NotificationsInit
  <2>2. Recording = {} /\ Len(notice) = 0
    BY <2>1 DEF Recording, NotificationsInit
  <2> QED
    BY <2>1, <2>2, FS_EmptySet, NotificationsAssumption DEF NotificationsInit, NewsRoom, InRoom
<1>2. NewsInv /\ NewsRoom /\ [NotificationsNext]_newsVars => NewsRoom'
  <2> SUFFICES ASSUME NewsInv, NewsRoom, [NotificationsNext]_newsVars PROVE NewsRoom'
    OBVIOUS
  <2>1. CASE UNCHANGED newsVars
    BY <2>1 DEF newsVars, NewsRoom, Recording
  <2>2. ASSUME NEW c \in Couriers, CourierStep(c) PROVE NewsRoom'
    BY <2>2, CourierInRoom
  <2>3. ASSUME NEW c \in Couriers, NEW e \in News, ReceiveNews(c, e) PROVE NewsRoom'
    BY <2>3, ReceiveInRoom
  <2>4. ASSUME NEW c \in Couriers, NEW i \in DOMAIN notice,
               NEW template \in TemplateMap(notice[i].news), Resend(c, i, template)
        PROVE  NewsRoom'
    <3> DEFINE locals == [Off EXCEPT !.row = i, !.template = template, !.step = "begin"]
    <3>1. Hold(c, locals) /\ notice' = notice /\ newsPerils' = newsPerils
      BY <2>4 DEF Resend
    <3>2. locals.row = i /\ locals.step = "begin" /\ locals.attempt = 0
      BY DEF Off
    <3>3. Len(notice') \in Nat /\ i \in 1..Len(notice') /\ Len(notice') = Len(notice) /\ NewsTyped
      BY <3>1, LenProperties DEF NewsInv, NewsTyped
    <3> HIDE DEF locals
    <3>4. InRoom(locals, Len(notice')) /\ locals.step # "record"
      BY <3>2, <3>3, NotificationsAssumption DEF InRoom
    <3> QED
      BY <3>1, <3>3, <3>4, RoomKept
  <2>5. CASE NewsCrash
    <3>1. /\ courier' = [c \in Couriers |-> Off] /\ notice' = notice /\ newsPerils' = newsPerils
          /\ Len(notice) \in Nat
      BY <2>5, LenProperties DEF NewsCrash, NewsInv, NewsTyped
    <3>2. \A c \in Couriers : InRoom(courier'[c], Len(notice')) /\ courier'[c].step # "record"
      BY <3>1, OffInRoom
    <3>3. Recording' = {} /\ Cardinality(Recording) \in Nat
      BY <3>2, FS_CardinalityType DEF Recording, NewsRoom
    <3> QED
      BY <3>1, <3>2, <3>3, FS_EmptySet, NotificationsAssumption DEF NewsRoom, InRoom
  <2> QED
    BY <2>1, <2>2, <2>3, <2>4, <2>5 DEF NotificationsNext
<1>3. NewsInv /\ NewsRoom => NotificationsTypeOK
  <2> SUFFICES ASSUME NewsInv, NewsRoom PROVE NotificationsTypeOK
    OBVIOUS
  <2>1. Len(notice) <= MaxNotifications
    BY FS_CardinalityType, LenProperties, NotificationsAssumption DEF NewsRoom, NewsInv, NewsTyped
  <2>2. \A i \in DOMAIN notice : notice[i] \in [news : News, status : NoticeStatus]
    BY ElementOfSeq, LenProperties DEF NewsInv, NewsTyped
  <2> QED
    BY <2>1, <2>2 DEF NotificationsTypeOK, NewsRoom, NewsInv, NewsTyped, CourierRec, Working
<1> QED
  BY <1>1, <1>2, <1>3, NewsInvariance, PTL DEF NotificationsSpec

(***************************************************************************)
(* Tickets.                                                                *)
(***************************************************************************)

\* The locals of a handler.
ClerkRec ==
  [for : Booked \cup {NoTicket}, tag : 0..MaxTag,
   step : {"none", "find", "booking", "pdf", "create", "ack", "nack", "read", "board"},
   number : TicketNumbers \cup {NoTicket}]

\* What the locals of a handler say by themselves, and of its booking's ticket.
ClerkOK(r) ==
  /\ r \in ClerkRec
  /\ r.step # "none" => r.for \in Booked
  /\ r.step \in {"ack", "nack"} => r.tag # 0
  /\ r.step \in {"pdf", "create"} => r.number \in TicketNumbers
  /\ r.step \in {"ack", "read", "board"} => ticket[r.for] # NoTicket

TicketsTyped ==
  /\ ticket \in [Booked -> TicketRec \cup {NoTicket}]
  /\ pdf \in [TicketNumbers -> Booked \cup {NoTicket}]
  /\ unacked \in [1..MaxTag -> Booked \cup {NoTicket}]
  /\ nextTag \in 1..MaxTag + 1
  /\ clerk \in [Clerks -> ClerkRec]
  /\ \A c \in Clerks : ClerkOK(clerk[c])
  /\ boarded \in [Booked -> Nat]

\* On one connection a handler's tag is its own, and its message's.
Delivered ==
  "reconnect" \notin ticketPerils =>
    /\ acked \subseteq Booked
    /\ \A c \in Clerks : clerk[c].tag # 0 =>
         /\ clerk[c].tag < nextTag
         /\ unacked[clerk[c].tag] = clerk[c].for
         /\ \A d \in Clerks \ {c} : clerk[d].tag # clerk[c].tag

\* Nobody else has, or gets, a number that was drawn for a ticket under way.
Fresh(c, n) ==
  /\ \A d \in Clerks \ {c} : clerk[d].number # n
  /\ \A b \in Booked : ticket[b] # NoTicket => ticket[b].number # n

Printed ==
  "draws" \notin ticketPerils =>
    /\ \A c \in Clerks : /\ clerk[c].step \in {"pdf", "create"} => Fresh(c, clerk[c].number)
                         /\ clerk[c].step = "create" => pdf[clerk[c].number] = clerk[c].for
    /\ \A b \in Booked : ticket[b] # NoTicket => pdf[ticket[b].number] = b

\* A ticket about to let somebody through has let nobody through.
Seated ==
  "gates" \notin ticketPerils =>
    /\ \A c \in Clerks :
         /\ clerk[c].step \in {"read", "board"} =>
              \A d \in Clerks \ {c} : clerk[d].step \in {"read", "board"} => clerk[d].for # clerk[c].for
         /\ clerk[c].step = "board" => ~ticket[clerk[c].for].isValidated
    /\ \A b \in Booked : /\ boarded[b] <= 1
                         /\ ticket[b] = NoTicket \/ ~ticket[b].isValidated => boarded[b] = 0

TicketsInv == TicketsTyped /\ Delivered /\ AckedHasTicket /\ Printed /\ Seated

\* A handler at rest is in order.
LEMMA FreeOK == ClerkOK(Free) /\ Free.step = "none" /\ Free.tag = 0 /\ Free.number = NoTicket
BY TicketsAssumption DEF Free, ClerkOK, ClerkRec

\* What setting the locals of one handler does to all of them.
LEMMA ClerkFrame ==
  ASSUME TicketsTyped, NEW c \in Clerks, NEW r \in ClerkRec, clerk' = [clerk EXCEPT ![c] = r]
  PROVE  /\ clerk' \in [Clerks -> ClerkRec]
         /\ \A d \in Clerks : clerk'[d] = IF d = c THEN r ELSE clerk[d]
BY DEF TicketsTyped

\* A handler may go on, with the same message or none, and a number that is fresh,
\* as long as it boards nobody whom it or another has let through.
LEMMA MoveInv ==
  ASSUME TicketsInv, NEW c \in Clerks, NEW r, ClerkOK(r), clerk' = [clerk EXCEPT ![c] = r],
         UNCHANGED <<ticket, pdf, unacked, nextTag, acked, boarded, ticketPerils>>,
         r.tag # 0 => r.tag = clerk[c].tag /\ r.for = clerk[c].for,
         r.step # "create",
         r.number \in {clerk[c].number, NoTicket} \/ ("draws" \notin ticketPerils => Fresh(c, r.number)),
         r.step = "pdf" /\ "draws" \notin ticketPerils => Fresh(c, r.number),
         r.step \in {"read", "board"} /\ "gates" \notin ticketPerils =>
           \A d \in Clerks \ {c} : clerk[d].step \in {"read", "board"} => clerk[d].for # r.for,
         r.step = "board" => ~ticket[r.for].isValidated
  PROVE  TicketsInv'
<1>1. r \in ClerkRec
  BY DEF ClerkOK
<1>2. /\ clerk' \in [Clerks -> ClerkRec]
      /\ \A d \in Clerks : clerk'[d] = IF d = c THEN r ELSE clerk[d]
  BY <1>1, ClerkFrame DEF TicketsInv
<1>3. \A d \in Clerks : ClerkOK(clerk'[d])
  BY <1>2 DEF TicketsInv, TicketsTyped
<1>5. TicketsTyped'
  <2>1. \A d \in Clerks : ClerkOK(clerk[d])'
    BY <1>3 DEF ClerkOK
  <2> QED
    BY <1>2, <2>1 DEF TicketsInv, TicketsTyped
<1>6. Delivered'
  <2> SUFFICES ASSUME "reconnect" \notin ticketPerils, NEW d \in Clerks, clerk'[d].tag # 0
               PROVE  /\ clerk'[d].tag < nextTag
                      /\ unacked[clerk'[d].tag] = clerk'[d].for
                      /\ \A x \in Clerks \ {d} : clerk'[x].tag # clerk'[d].tag
    BY DEF TicketsInv, Delivered
  <2>1. \A x \in Clerks : clerk'[x].tag # 0 => clerk'[x].tag = clerk[x].tag /\ clerk'[x].for = clerk[x].for
    BY <1>2
  <2>2. clerk[d].tag # 0 /\ clerk'[d].tag = clerk[d].tag /\ clerk'[d].for = clerk[d].for
    BY <2>1
  <2>3. /\ clerk[d].tag < nextTag /\ unacked[clerk[d].tag] = clerk[d].for
        /\ \A x \in Clerks \ {d} : clerk[x].tag # clerk[d].tag
    BY <2>2 DEF TicketsInv, Delivered
  <2> QED
    BY <2>1, <2>2, <2>3
<1>7. AckedHasTicket'
  BY DEF TicketsInv, AckedHasTicket
<1>8. Printed'
  <2> SUFFICES ASSUME "draws" \notin ticketPerils
               PROVE  \A d \in Clerks :
                        /\ clerk'[d].step \in {"pdf", "create"} =>
                             /\ \A x \in Clerks \ {d} : clerk'[x].number # clerk'[d].number
                             /\ \A b \in Booked : ticket[b] # NoTicket => ticket[b].number # clerk'[d].number
                        /\ clerk'[d].step = "create" => pdf[clerk'[d].number] = clerk'[d].for
    BY DEF TicketsInv, Printed, Fresh
  <2>1. ASSUME NEW d \in Clerks, d # c, clerk[d].step \in {"pdf", "create"}
        PROVE  /\ \A x \in Clerks \ {d} : clerk'[x].number # clerk[d].number
               /\ \A b \in Booked : ticket[b] # NoTicket => ticket[b].number # clerk[d].number
               /\ clerk[d].step = "create" => pdf[clerk[d].number] = clerk[d].for
    <3>1. Fresh(d, clerk[d].number)
      BY <2>1 DEF TicketsInv, Printed
    <3>2. clerk[d].step = "create" => pdf[clerk[d].number] = clerk[d].for
      BY <2>1 DEF TicketsInv, Printed
    <3>3. clerk[d].number # NoTicket
      BY <2>1, TicketsAssumption DEF TicketsInv, TicketsTyped, ClerkOK
    <3>4. r.number # clerk[d].number
      BY <2>1, <3>1, <3>3 DEF Fresh
    <3> QED
      BY <1>2, <2>1, <3>1, <3>2, <3>4 DEF Fresh
  <2>2. r.step \in {"pdf", "create"} =>
          /\ \A x \in Clerks \ {c} : clerk[x].number # r.number
          /\ \A b \in Booked : ticket[b] # NoTicket => ticket[b].number # r.number
    BY DEF Fresh
  <2> QED
    BY <1>2, <2>1, <2>2
<1>9. Seated'
  <2> SUFFICES ASSUME "gates" \notin ticketPerils
               PROVE  \A d \in Clerks :
                        /\ clerk'[d].step \in {"read", "board"} =>
                             \A x \in Clerks \ {d} :
                               clerk'[x].step \in {"read", "board"} => clerk'[x].for # clerk'[d].for
                        /\ clerk'[d].step = "board" => ~ticket[clerk'[d].for].isValidated
    BY DEF TicketsInv, Seated
  <2>1. \A d \in Clerks :
          /\ clerk[d].step \in {"read", "board"} =>
               \A x \in Clerks \ {d} : clerk[x].step \in {"read", "board"} => clerk[x].for # clerk[d].for
          /\ clerk[d].step = "board" => ~ticket[clerk[d].for].isValidated
    BY DEF TicketsInv, Seated
  <2> QED
    BY <1>2, <2>1
<1> QED
  BY <1>5, <1>6, <1>7, <1>8, <1>9 DEF TicketsInv

\* A handler may end, or go on to its answer.
LEMMA DoneInv ==
  ASSUME TicketsInv, NEW c \in Clerks, NEW answer \in {"ack", "nack"}, Done(c, answer),
         UNCHANGED <<ticket, pdf, unacked, nextTag, acked, boarded, ticketPerils>>,
         clerk[c].step # "none", answer = "ack" => ticket[clerk[c].for] # NoTicket
  PROVE  TicketsInv'
<1> DEFINE r == IF clerk[c].tag = 0 THEN Free ELSE [clerk[c] EXCEPT !.step = answer]
<1>1. ClerkOK(clerk[c]) /\ clerk[c] \in ClerkRec
  BY DEF TicketsInv, TicketsTyped
<1>2. clerk' = [clerk EXCEPT ![c] = r]
  BY DEF Done
<1>3. CASE clerk[c].tag = 0
  <2>1. r = Free
    BY <1>3
  <2> HIDE DEF r
  <2> QED
    BY <1>2, <2>1, FreeOK, MoveInv
<1>4. CASE clerk[c].tag # 0
  <2>1. r = [clerk[c] EXCEPT !.step = answer]
    BY <1>4
  <2>2. /\ r \in ClerkRec /\ r.step = answer /\ r.tag = clerk[c].tag /\ r.for = clerk[c].for
        /\ r.number = clerk[c].number
    BY <1>1, <2>1 DEF ClerkRec
  <2> HIDE DEF r
  <2>3. ClerkOK(r)
    BY <1>1, <1>4, <2>2 DEF ClerkOK
  <2> QED
    BY <1>2, <2>2, <2>3, MoveInv
<1> QED
  BY <1>3, <1>4

\* A request starts with no message and no number.
LEMMA RequestTicketInv ==
  ASSUME TicketsInv, NEW c \in Clerks, NEW b \in Booked, RequestTicket(c, b)
  PROVE  TicketsInv'
<1> DEFINE r == [Free EXCEPT !.for = b, !.step = "find"]
<1>0. r \in ClerkRec /\ r.for = b /\ r.tag = 0 /\ r.step = "find" /\ r.number = NoTicket
  BY FreeOK DEF ClerkOK, ClerkRec
<1>2. clerk' = [clerk EXCEPT ![c] = r]
  BY DEF RequestTicket
<1>3. UNCHANGED <<ticket, pdf, unacked, nextTag, acked, boarded, ticketPerils>>
  BY DEF RequestTicket
<1> HIDE DEF r
<1>1. ClerkOK(r)
  BY <1>0 DEF ClerkOK
<1> QED
  BY <1>0, <1>1, <1>2, <1>3, MoveInv

\* A handler that finds a ticket answers, another one goes on.
LEMMA FindTicketInv ==
  ASSUME TicketsInv, NEW c \in Clerks, FindTicket(c)
  PROVE  TicketsInv'
<1> DEFINE r == [clerk[c] EXCEPT !.step = "booking"]
<1>1. /\ clerk[c].step = "find"
      /\ UNCHANGED <<ticket, pdf, unacked, nextTag, acked, boarded, ticketPerils>>
  BY DEF FindTicket
<1>2. CASE ticket[clerk[c].for] # NoTicket /\ Done(c, "ack")
  BY <1>1, <1>2, DoneInv
<1>3. CASE clerk' = [clerk EXCEPT ![c] = r]
  <2>1. ClerkOK(clerk[c])
    BY DEF TicketsInv, TicketsTyped
  <2>2. /\ r \in ClerkRec /\ r.step = "booking" /\ r.tag = clerk[c].tag /\ r.for = clerk[c].for
        /\ r.number = clerk[c].number
    BY <2>1 DEF ClerkOK, ClerkRec
  <2> HIDE DEF r
  <2>3. ClerkOK(r)
    BY <1>1, <2>1, <2>2 DEF ClerkOK
  <2> QED
    BY <1>1, <1>3, <2>2, <2>3, MoveInv
<1>4. clerk' = [clerk EXCEPT ![c].step = "booking"] => clerk' = [clerk EXCEPT ![c] = r]
  OBVIOUS
<1> QED
  BY <1>2, <1>3, <1>4 DEF FindTicket

\* A number that is drawn is fresh, unless numbers are drawn again.
LEMMA ReadBookingInv ==
  ASSUME TicketsInv, NEW c \in Clerks, ReadBooking(c)
  PROVE  TicketsInv'
<1>1. /\ clerk[c].step = "booking"
      /\ UNCHANGED <<ticket, pdf, unacked, nextTag, acked, boarded, ticketPerils>>
  BY DEF ReadBooking
<1>2. CASE Done(c, "nack")
  BY <1>1, <1>2, DoneInv
<1>3. CASE \E n \in Drawable : clerk' = [clerk EXCEPT ![c].step = "pdf", ![c].number = n]
  <2> PICK n \in Drawable : clerk' = [clerk EXCEPT ![c].step = "pdf", ![c].number = n]
    BY <1>3
  <2> DEFINE r == [clerk[c] EXCEPT !.step = "pdf", !.number = n]
  <2>1. ClerkOK(clerk[c]) /\ clerk \in [Clerks -> ClerkRec]
    BY DEF TicketsInv, TicketsTyped
  <2>2. clerk' = [clerk EXCEPT ![c] = r]
    BY <2>1
  <2>3. n \in TicketNumbers
    BY DEF Drawable
  <2>4. /\ r \in ClerkRec /\ r.step = "pdf" /\ r.tag = clerk[c].tag /\ r.for = clerk[c].for
        /\ r.number = n
    BY <2>1, <2>3 DEF ClerkOK, ClerkRec
  <2> HIDE DEF r
  <2>5. ClerkOK(r)
    BY <1>1, <2>1, <2>3, <2>4 DEF ClerkOK
  <2>6. "draws" \notin ticketPerils => Fresh(c, n)
    BY DEF Drawable, Fresh
  <2> QED
    BY <1>1, <2>2, <2>4, <2>5, <2>6, MoveInv
<1> QED
  BY <1>2, <1>3 DEF ReadBooking

\* A PDF that could not be written leaves things as they are.
LEMMA PdfFailsInv ==
  ASSUME TicketsInv, NEW c \in Clerks, PdfFails(c)
  PROVE  TicketsInv'
<1>1. /\ clerk[c].step = "pdf" /\ Done(c, "nack")
      /\ UNCHANGED <<ticket, pdf, unacked, nextTag, acked, boarded, ticketPerils>>
  BY DEF PdfFails
<1> QED
  BY <1>1, DoneInv

\* Somebody shows a ticket.
LEMMA AskToBoardInv ==
  ASSUME TicketsInv, NEW c \in Clerks, NEW b \in Booked, AskToBoard(c, b)
  PROVE  TicketsInv'
<1> DEFINE r == [Free EXCEPT !.for = b, !.step = "read"]
<1>1. /\ ticket[b] # NoTicket /\ ("gates" \in ticketPerils \/ ~Validating(b))
      /\ UNCHANGED <<ticket, pdf, unacked, nextTag, acked, boarded, ticketPerils>>
      /\ clerk' = [clerk EXCEPT ![c] = r]
  BY DEF AskToBoard
<1>2. r \in ClerkRec /\ r.for = b /\ r.tag = 0 /\ r.step = "read" /\ r.number = NoTicket
  BY FreeOK DEF ClerkOK, ClerkRec
<1>3. "gates" \notin ticketPerils =>
        \A d \in Clerks \ {c} : clerk[d].step \in {"read", "board"} => clerk[d].for # b
  BY <1>1 DEF Validating
<1> HIDE DEF r
<1>4. ClerkOK(r)
  BY <1>1, <1>2 DEF ClerkOK
<1> QED
  BY <1>1, <1>2, <1>3, <1>4, MoveInv

\* The ticket is looked at: who goes on has an unused one.
LEMMA ReadToBoardInv ==
  ASSUME TicketsInv, NEW c \in Clerks, ReadToBoard(c)
  PROVE  TicketsInv'
<1> DEFINE r == [clerk[c] EXCEPT !.step = "board"]
<1>1. /\ clerk[c].step = "read"
      /\ UNCHANGED <<ticket, pdf, unacked, nextTag, acked, boarded, ticketPerils>>
  BY DEF ReadToBoard
<1>2. ClerkOK(clerk[c])
  BY DEF TicketsInv, TicketsTyped
<1>3. CASE clerk' = [clerk EXCEPT ![c] = Free]
  BY <1>1, <1>3, FreeOK, MoveInv
<1>4. CASE clerk' = [clerk EXCEPT ![c] = r] /\ ~ticket[clerk[c].for].isValidated
  <2>1. /\ r \in ClerkRec /\ r.step = "board" /\ r.tag = clerk[c].tag /\ r.for = clerk[c].for
        /\ r.number = clerk[c].number
    BY <1>2 DEF ClerkOK, ClerkRec
  <2> HIDE DEF r
  <2>2. ClerkOK(r)
    BY <1>1, <1>2, <2>1 DEF ClerkOK
  <2>3. "gates" \notin ticketPerils =>
          \A d \in Clerks \ {c} : clerk[d].step \in {"read", "board"} => clerk[d].for # r.for
    BY <1>1, <2>1 DEF TicketsInv, Seated
  <2> QED
    BY <1>1, <1>4, <2>1, <2>2, <2>3, MoveInv
<1>5. \/ clerk' = [clerk EXCEPT ![c] = Free]
      \/ clerk' = [clerk EXCEPT ![c] = r] /\ ~ticket[clerk[c].for].isValidated
  BY DEF ReadToBoard
<1> QED
  BY <1>3, <1>4, <1>5

\* A delivery gets a tag that nobody has.
LEMMA DeliverInv ==
  ASSUME TicketsInv, NEW c \in Clerks, NEW b \in Booked, Deliver(c, b)
  PROVE  TicketsInv'
<1> PICK t : t = nextTag
  OBVIOUS
<1> DEFINE r == [Free EXCEPT !.for = b, !.tag = t, !.step = "find"]
<1>1. /\ t \in 1..MaxTag /\ nextTag' = t + 1 /\ unacked' = [unacked EXCEPT ![t] = b]
      /\ UNCHANGED <<ticket, pdf, acked, boarded, ticketPerils>> /\ clerk' = [clerk EXCEPT ![c] = r]
  BY TicketsAssumption DEF Deliver, TicketsInv, TicketsTyped
<1>9. t \in 0..MaxTag
  BY <1>1, TicketsAssumption
<1>0. r \in ClerkRec /\ r.tag = t /\ r.for = b /\ r.step = "find" /\ r.number = NoTicket
  BY <1>9, FreeOK DEF ClerkOK, ClerkRec
<1> HIDE DEF r
<1>2. ClerkOK(r) /\ r.tag = t /\ r.for = b /\ r.step = "find" /\ r.number = NoTicket /\ t # 0
  BY <1>0, <1>1, TicketsAssumption DEF ClerkOK
<1>3. /\ clerk' \in [Clerks -> ClerkRec]
      /\ \A d \in Clerks : clerk'[d] = IF d = c THEN r ELSE clerk[d]
  BY <1>1, <1>2, ClerkFrame DEF TicketsInv, ClerkOK
<1>4. TicketsTyped'
  <2>1. nextTag' \in 1..MaxTag + 1
    BY <1>1, TicketsAssumption
  <2>2. unacked' \in [1..MaxTag -> Booked \cup {NoTicket}]
    BY <1>1 DEF TicketsInv, TicketsTyped
  <2>3. \A d \in Clerks : ClerkOK(clerk[d])'
    BY <1>1, <1>2, <1>3 DEF TicketsInv, TicketsTyped, ClerkOK
  <2> QED
    BY <1>1, <1>3, <2>1, <2>2, <2>3 DEF TicketsInv, TicketsTyped
<1>5. Delivered'
  <2> SUFFICES ASSUME "reconnect" \notin ticketPerils, NEW d \in Clerks, clerk'[d].tag # 0
               PROVE  /\ clerk'[d].tag < nextTag'
                      /\ unacked'[clerk'[d].tag] = clerk'[d].for
                      /\ \A x \in Clerks \ {d} : clerk'[x].tag # clerk'[d].tag
    BY <1>1 DEF TicketsInv, Delivered
  <2>1. \A x \in Clerks : clerk[x].tag # 0 =>
          /\ clerk[x].tag < t /\ unacked[clerk[x].tag] = clerk[x].for /\ clerk[x].tag \in 1..MaxTag
          /\ \A y \in Clerks \ {x} : clerk[y].tag # clerk[x].tag
    BY TicketsAssumption DEF TicketsInv, TicketsTyped, Delivered, ClerkOK, ClerkRec
  <2>2. \A i \in 1..MaxTag : unacked'[i] = IF i = t THEN b ELSE unacked[i]
    BY <1>1 DEF TicketsInv, TicketsTyped
  <2>3. CASE d = c
    <3>1. \A x \in Clerks \ {c} : clerk[x].tag # t
      BY <1>1, <1>2, <2>1
    <3> QED
      BY <1>1, <1>2, <1>3, <2>2, <2>3, <3>1
  <2>4. CASE d # c
    <3>1. /\ clerk[d].tag < t /\ unacked[clerk[d].tag] = clerk[d].for /\ clerk[d].tag \in 1..MaxTag
          /\ \A x \in Clerks \ {d} : clerk[x].tag # clerk[d].tag
      BY <1>3, <2>1, <2>4
    <3>2. clerk[d].tag # t /\ clerk[d].tag < t + 1
      BY <1>1, <3>1
    <3> QED
      BY <1>1, <1>2, <1>3, <2>2, <2>4, <3>1, <3>2
  <2> QED
    BY <2>3, <2>4
<1>6. AckedHasTicket'
  BY <1>1 DEF TicketsInv, AckedHasTicket
<1>7. Printed'
  <2> SUFFICES ASSUME "draws" \notin ticketPerils, NEW d \in Clerks,
                      clerk'[d].step \in {"pdf", "create"}
               PROVE  /\ \A x \in Clerks \ {d} : clerk'[x].number # clerk'[d].number
                      /\ \A y \in Booked : ticket[y] # NoTicket => ticket[y].number # clerk'[d].number
                      /\ clerk'[d].step = "create" => pdf[clerk'[d].number] = clerk'[d].for
    BY <1>1 DEF TicketsInv, Printed, Fresh
  <2>1. d # c /\ clerk'[d] = clerk[d] /\ clerk[d].number # NoTicket
    BY <1>2, <1>3, TicketsAssumption DEF TicketsInv, TicketsTyped, ClerkOK
  <2> QED
    BY <1>2, <1>3, <2>1 DEF TicketsInv, Printed, Fresh
<1>8. Seated'
  BY <1>1, <1>2, <1>3 DEF TicketsInv, Seated
<1> QED
  BY <1>4, <1>5, <1>6, <1>7, <1>8 DEF TicketsInv

\* When a handler has answered, its tag is nobody's; an answer on the connection of
\* the delivery is about the handler's own message, which has its ticket if it is an ack.
LEMMA AnswerInv ==
  ASSUME TicketsInv, NEW c \in Clerks, clerk[c].step \in {"ack", "nack"},
         unacked' = [unacked EXCEPT ![clerk[c].tag] = NoTicket],
         clerk' = [clerk EXCEPT ![c] = Free],
         UNCHANGED <<ticket, pdf, nextTag, boarded, ticketPerils>>,
         \/ acked' = acked
         \/ clerk[c].step = "ack" /\ acked' = acked \cup {unacked[clerk[c].tag]}
  PROVE  TicketsInv'
<1> PICK t : t = clerk[c].tag
  OBVIOUS
<1>1. t \in 1..MaxTag /\ clerk[c].for \in Booked
  BY TicketsAssumption DEF TicketsInv, TicketsTyped, ClerkOK, ClerkRec
<1>2. /\ clerk' \in [Clerks -> ClerkRec]
      /\ \A d \in Clerks : clerk'[d] = IF d = c THEN Free ELSE clerk[d]
  BY FreeOK, ClerkFrame DEF TicketsInv, ClerkOK
<1>3. unacked' = [unacked EXCEPT ![t] = NoTicket]
  OBVIOUS
<1>4. TicketsTyped'
  <2>1. unacked' \in [1..MaxTag -> Booked \cup {NoTicket}]
    BY <1>3 DEF TicketsInv, TicketsTyped
  <2>2. \A d \in Clerks : ClerkOK(clerk[d])'
    BY <1>2, FreeOK DEF TicketsInv, TicketsTyped, ClerkOK
  <2> QED
    BY <1>2, <2>1, <2>2 DEF TicketsInv, TicketsTyped
<1>5. "reconnect" \notin ticketPerils =>
        unacked[t] = clerk[c].for /\ \A d \in Clerks \ {c} : clerk[d].tag # t
  BY <1>1 DEF TicketsInv, Delivered
<1>6. Delivered'
  <2> SUFFICES ASSUME "reconnect" \notin ticketPerils
               PROVE  /\ acked' \subseteq Booked
                      /\ \A d \in Clerks : clerk'[d].tag # 0 =>
                           /\ clerk'[d].tag < nextTag
                           /\ unacked'[clerk'[d].tag] = clerk'[d].for
                           /\ \A x \in Clerks \ {d} : clerk'[x].tag # clerk'[d].tag
    BY DEF Delivered
  <2>1. acked' \subseteq Booked
    BY <1>1, <1>5 DEF TicketsInv, Delivered
  <2>2. ASSUME NEW d \in Clerks, clerk'[d].tag # 0
        PROVE  /\ clerk'[d].tag < nextTag
               /\ unacked'[clerk'[d].tag] = clerk'[d].for
               /\ \A x \in Clerks \ {d} : clerk'[x].tag # clerk'[d].tag
    <3>1. d # c /\ clerk'[d] = clerk[d]
      BY <1>2, <2>2, FreeOK
    <3>2. /\ clerk[d].tag < nextTag /\ unacked[clerk[d].tag] = clerk[d].for
          /\ \A x \in Clerks \ {d} : clerk[x].tag # clerk[d].tag
      BY <2>2, <3>1 DEF TicketsInv, Delivered
    <3>3. clerk[d].tag # t /\ clerk[d].tag \in 1..MaxTag
      BY <1>5, <2>2, <3>1, TicketsAssumption DEF TicketsInv, TicketsTyped, ClerkRec
    <3>4. unacked'[clerk[d].tag] = unacked[clerk[d].tag]
      BY <1>3, <3>3 DEF TicketsInv, TicketsTyped
    <3> QED
      BY <1>2, <2>2, <3>1, <3>2, <3>4, FreeOK
  <2> QED
    BY <2>1, <2>2
<1>7. AckedHasTicket'
  <2> SUFFICES ASSUME "reconnect" \notin ticketPerils, NEW b \in acked'
               PROVE  ticket[b] # NoTicket
    BY DEF AckedHasTicket
  <2>1. CASE b \in acked
    BY <2>1 DEF TicketsInv, AckedHasTicket
  <2>2. CASE b \notin acked
    <3>1. b = clerk[c].for /\ clerk[c].step = "ack"
      BY <1>5, <2>2
    <3> QED
      BY <3>1 DEF TicketsInv, TicketsTyped, ClerkOK
  <2> QED
    BY <2>1, <2>2
<1>8. Printed'
  <2> SUFFICES ASSUME "draws" \notin ticketPerils, NEW d \in Clerks,
                      clerk'[d].step \in {"pdf", "create"}
               PROVE  /\ \A x \in Clerks \ {d} : clerk'[x].number # clerk'[d].number
                      /\ \A y \in Booked : ticket[y] # NoTicket => ticket[y].number # clerk'[d].number
                      /\ clerk'[d].step = "create" => pdf[clerk'[d].number] = clerk'[d].for
    BY DEF TicketsInv, Printed, Fresh
  <2>1. d # c /\ clerk'[d] = clerk[d] /\ clerk[d].number # NoTicket
    BY <1>2, FreeOK, TicketsAssumption DEF TicketsInv, TicketsTyped, ClerkOK
  <2> QED
    BY <1>2, <2>1, FreeOK DEF TicketsInv, Printed, Fresh
<1>9. Seated'
  BY <1>2, FreeOK DEF TicketsInv, Seated
<1> QED
  BY <1>4, <1>6, <1>7, <1>8, <1>9 DEF TicketsInv

\* The file of a number that is fresh is nobody else's.
LEMMA WritePdfInv ==
  ASSUME TicketsInv, NEW c \in Clerks, WritePdf(c)
  PROVE  TicketsInv'
<1> DEFINE r == [clerk[c] EXCEPT !.step = "create"]
<1> PICK n : n = clerk[c].number
  OBVIOUS
<1>1. /\ clerk[c].step = "pdf" /\ pdf' = [pdf EXCEPT ![n] = clerk[c].for]
      /\ UNCHANGED <<ticket, unacked, nextTag, acked, boarded, ticketPerils>>
  BY DEF WritePdf
<1>2. ClerkOK(clerk[c]) /\ clerk[c].for \in Booked /\ n \in TicketNumbers
  BY <1>1 DEF TicketsInv, TicketsTyped, ClerkOK
<1>3. /\ r \in ClerkRec /\ r.step = "create" /\ r.tag = clerk[c].tag /\ r.for = clerk[c].for
      /\ r.number = n
  BY <1>2 DEF ClerkOK, ClerkRec
<1>4. clerk' = [clerk EXCEPT ![c] = r]
  BY DEF WritePdf
<1> HIDE DEF r
<1>5. /\ clerk' \in [Clerks -> ClerkRec]
      /\ \A d \in Clerks : clerk'[d] = IF d = c THEN r ELSE clerk[d]
  BY <1>3, <1>4, ClerkFrame DEF TicketsInv
<1>6. /\ pdf' \in [TicketNumbers -> Booked \cup {NoTicket}]
      /\ \A i \in TicketNumbers : pdf'[i] = IF i = n THEN clerk[c].for ELSE pdf[i]
  BY <1>1, <1>2 DEF TicketsInv, TicketsTyped
<1>7. TicketsTyped'
  <2>1. \A d \in Clerks : ClerkOK(clerk[d])'
    BY <1>1, <1>2, <1>3, <1>5 DEF TicketsInv, TicketsTyped, ClerkOK
  <2> QED
    BY <1>1, <1>5, <1>6, <2>1 DEF TicketsInv, TicketsTyped
<1>8. \A d \in Clerks : /\ clerk'[d].tag = clerk[d].tag /\ clerk'[d].for = clerk[d].for
                        /\ clerk'[d].number = clerk[d].number
  BY <1>3, <1>5
<1>9. Delivered'
  BY <1>1, <1>8 DEF TicketsInv, Delivered
<1>10. AckedHasTicket'
  BY <1>1 DEF TicketsInv, AckedHasTicket
<1>11. Printed'
  <2> SUFFICES ASSUME "draws" \notin ticketPerils
               PROVE  /\ \A d \in Clerks : clerk'[d].step \in {"pdf", "create"} =>
                           /\ \A x \in Clerks \ {d} : clerk'[x].number # clerk'[d].number
                           /\ \A y \in Booked : ticket[y] # NoTicket => ticket[y].number # clerk'[d].number
                           /\ clerk'[d].step = "create" => pdf'[clerk'[d].number] = clerk'[d].for
                      /\ \A b \in Booked : ticket[b] # NoTicket => pdf'[ticket[b].number] = b
    BY <1>1 DEF Printed, Fresh
  <2>1. Fresh(c, n)
    BY <1>1 DEF TicketsInv, Printed
  <2>2. ASSUME NEW d \in Clerks, clerk'[d].step \in {"pdf", "create"}
        PROVE  /\ \A x \in Clerks \ {d} : clerk'[x].number # clerk'[d].number
               /\ \A y \in Booked : ticket[y] # NoTicket => ticket[y].number # clerk'[d].number
               /\ clerk'[d].step = "create" => pdf'[clerk'[d].number] = clerk'[d].for
    <3>1. CASE d = c
      BY <1>2, <1>3, <1>5, <1>6, <1>8, <2>1, <3>1 DEF Fresh
    <3>2. CASE d # c
      <4>1. clerk'[d] = clerk[d] /\ clerk[d].number # n /\ clerk[d].number \in TicketNumbers
        BY <1>5, <2>1, <2>2, <3>2 DEF Fresh, TicketsInv, TicketsTyped, ClerkOK
      <4>2. /\ Fresh(d, clerk[d].number)
            /\ (clerk[d].step = "create" => pdf[clerk[d].number] = clerk[d].for)
        BY <2>2, <4>1 DEF TicketsInv, Printed
      <4> QED
        BY <1>6, <1>8, <4>1, <4>2 DEF Fresh
    <3> QED
      BY <3>1, <3>2
  <2>3. ASSUME NEW b \in Booked, ticket[b] # NoTicket PROVE pdf'[ticket[b].number] = b
    <3>1. ticket[b].number \in TicketNumbers
      BY <2>3 DEF TicketsInv, TicketsTyped, TicketRec
    <3>2. ticket[b].number # n /\ pdf[ticket[b].number] = b
      BY <2>1, <2>3 DEF Fresh, TicketsInv, Printed
    <3> QED
      BY <1>6, <3>1, <3>2
  <2> QED
    BY <2>2, <2>3
<1>12. Seated'
  BY <1>1, <1>3, <1>5 DEF TicketsInv, Seated
<1> QED
  BY <1>7, <1>9, <1>10, <1>11, <1>12 DEF TicketsInv

\* A new ticket has its file, and has let nobody through.
LEMMA CreateTicketInv ==
  ASSUME TicketsInv, NEW c \in Clerks, CreateTicket(c)
  PROVE  TicketsInv'
<1> DEFINE b == clerk[c].for
           n == clerk[c].number
           taken == ticket[b] # NoTicket
                    \/ \E x \in Booked : ticket[x] # NoTicket /\ ticket[x].number = n
           new == [number |-> n, isValidated |-> FALSE]
<1>1. /\ clerk[c].step = "create"
      /\ UNCHANGED <<pdf, unacked, nextTag, acked, boarded, ticketPerils>>
  BY DEF CreateTicket
<1>2. ClerkOK(clerk[c]) /\ b \in Booked /\ n \in TicketNumbers
  BY <1>1 DEF TicketsInv, TicketsTyped, ClerkOK
<1>3. CASE taken
  <2>1. Done(c, "nack") /\ ticket' = ticket
    BY <1>3 DEF CreateTicket
  <2> QED
    BY <1>1, <2>1, DoneInv
<1>4. CASE ~taken
  <2>1. Done(c, "ack") /\ ticket' = [ticket EXCEPT ![b] = new] /\ ticket[b] = NoTicket
    BY <1>4 DEF CreateTicket
  <2>2. new \in TicketRec /\ new.number = n /\ ~new.isValidated /\ new # NoTicket
    <3>1. new \in TicketRec /\ new.number = n
      BY <1>2 DEF TicketRec
    <3>2. new.isValidated = FALSE
      OBVIOUS
    <3>3. NoTicket \notin TicketRec
      BY TicketsAssumption DEF TicketRec
    <3> HIDE DEF new
    <3> QED
      BY <3>1, <3>2, <3>3
  <2> HIDE DEF new
  <2> DEFINE r == IF clerk[c].tag = 0 THEN Free ELSE [clerk[c] EXCEPT !.step = "ack"]
  <2>3. /\ r \in ClerkRec /\ r.step \in {"none", "ack"}
        /\ r.tag = clerk[c].tag /\ (r.tag # 0 => r.for = b) /\ r.number \in {n, NoTicket}
        /\ (r.step = "ack" => r.tag # 0)
    <3>1. CASE clerk[c].tag = 0
      BY <3>1, FreeOK DEF ClerkOK
    <3>2. CASE clerk[c].tag # 0
      <4>1. r = [clerk[c] EXCEPT !.step = "ack"]
        BY <3>2
      <4> QED
        BY <1>2, <3>2, <4>1 DEF ClerkOK, ClerkRec
    <3> QED
      BY <3>1, <3>2
  <2>4. clerk' = [clerk EXCEPT ![c] = r]
    BY <2>1 DEF Done
  <2> HIDE DEF r
  <2>5. /\ clerk' \in [Clerks -> ClerkRec]
        /\ \A d \in Clerks : clerk'[d] = IF d = c THEN r ELSE clerk[d]
    BY <2>3, <2>4, ClerkFrame DEF TicketsInv
  <2>6. /\ ticket' \in [Booked -> TicketRec \cup {NoTicket}]
        /\ \A x \in Booked : ticket'[x] = IF x = b THEN new ELSE ticket[x]
    BY <1>2, <2>1, <2>2 DEF TicketsInv, TicketsTyped
  <2> HIDE DEF b, n, taken
  <2>7. \A x \in Booked : ticket[x] # NoTicket => ticket'[x] = ticket[x]
    BY <2>1, <2>6
  <2>8. TicketsTyped'
    <3>1. ASSUME NEW d \in Clerks PROVE ClerkOK(clerk[d])'
      <4>1. CASE d = c
        BY <1>2, <2>2, <2>3, <2>5, <2>6, <4>1 DEF ClerkOK
      <4>2. CASE d # c
        <5>1. clerk'[d] = clerk[d] /\ ClerkOK(clerk[d])
          BY <2>5, <4>2 DEF TicketsInv, TicketsTyped
        <5> QED
          BY <2>7, <5>1 DEF ClerkOK
      <4> QED
        BY <4>1, <4>2
    <3> QED
      BY <1>1, <2>5, <2>6, <3>1 DEF TicketsInv, TicketsTyped
  <2>9. Delivered'
    <3>1. \A d \in Clerks : clerk'[d].tag = clerk[d].tag
                            /\ (clerk'[d].tag # 0 => clerk'[d].for = clerk[d].for)
      BY <2>3, <2>5 DEF b
    <3> QED
      BY <1>1, <3>1 DEF TicketsInv, Delivered
  <2>10. AckedHasTicket'
    <3> SUFFICES ASSUME "reconnect" \notin ticketPerils, NEW x \in acked PROVE ticket'[x] # NoTicket
      BY <1>1 DEF AckedHasTicket
    <3>1. ticket[x] # NoTicket /\ x \in Booked
      BY DEF TicketsInv, AckedHasTicket, Delivered
    <3> QED
      BY <2>7, <3>1
  <2>11. Printed'
    <3> SUFFICES ASSUME "draws" \notin ticketPerils
                 PROVE  /\ \A d \in Clerks : clerk'[d].step \in {"pdf", "create"} =>
                             /\ \A x \in Clerks \ {d} : clerk'[x].number # clerk'[d].number
                             /\ \A y \in Booked :
                                  ticket'[y] # NoTicket => ticket'[y].number # clerk'[d].number
                             /\ clerk'[d].step = "create" => pdf[clerk'[d].number] = clerk'[d].for
                        /\ \A x \in Booked : ticket'[x] # NoTicket => pdf[ticket'[x].number] = x
      BY <1>1 DEF Printed, Fresh
    <3>1. ASSUME NEW d \in Clerks, clerk'[d].step \in {"pdf", "create"}
          PROVE  /\ \A x \in Clerks \ {d} : clerk'[x].number # clerk'[d].number
                 /\ \A y \in Booked : ticket'[y] # NoTicket => ticket'[y].number # clerk'[d].number
                 /\ clerk'[d].step = "create" => pdf[clerk'[d].number] = clerk'[d].for
      <4>1. d # c /\ clerk'[d] = clerk[d]
        BY <2>3, <2>5, <3>1
      <4>2. /\ \A x \in Clerks \ {d} : clerk[x].number # clerk[d].number
            /\ \A y \in Booked : ticket[y] # NoTicket => ticket[y].number # clerk[d].number
            /\ clerk[d].step = "create" => pdf[clerk[d].number] = clerk[d].for
        BY <3>1, <4>1 DEF TicketsInv, Printed, Fresh
      <4>3. clerk[d].number # NoTicket /\ clerk[d].number # n
        BY <3>1, <4>1, <4>2, TicketsAssumption DEF TicketsInv, TicketsTyped, ClerkOK, n
      <4> QED
        BY <2>2, <2>3, <2>5, <2>6, <4>1, <4>2, <4>3
    <3>2. pdf[n] = b
      BY <1>1 DEF TicketsInv, Printed, n, b
    <3>3. ASSUME NEW x \in Booked, ticket'[x] # NoTicket PROVE pdf[ticket'[x].number] = x
      BY <2>2, <2>6, <3>2, <3>3 DEF TicketsInv, Printed
    <3> QED
      BY <3>1, <3>3
  <2>12. Seated'
    <3> SUFFICES ASSUME "gates" \notin ticketPerils
                 PROVE  /\ \A d \in Clerks :
                             /\ clerk'[d].step \in {"read", "board"} =>
                                  \A x \in Clerks \ {d} :
                                    clerk'[x].step \in {"read", "board"} => clerk'[x].for # clerk'[d].for
                             /\ clerk'[d].step = "board" => ~ticket'[clerk'[d].for].isValidated
                        /\ \A x \in Booked :
                             /\ boarded[x] <= 1
                             /\ ticket'[x] = NoTicket \/ ~ticket'[x].isValidated => boarded[x] = 0
      BY <1>1 DEF Seated
    <3>1. \A d \in Clerks : clerk'[d].step \in {"read", "board"} => clerk'[d] = clerk[d] /\ d # c
      BY <2>3, <2>5
    <3>2. ASSUME NEW d \in Clerks, clerk'[d].step = "board" PROVE ~ticket'[clerk'[d].for].isValidated
      <4>1. clerk'[d] = clerk[d] /\ ticket[clerk[d].for] # NoTicket /\ clerk[d].for \in Booked
        BY <3>1, <3>2 DEF TicketsInv, TicketsTyped, ClerkOK
      <4> QED
        BY <2>7, <3>2, <4>1 DEF TicketsInv, Seated
    <3>3. ASSUME NEW x \in Booked
          PROVE  /\ boarded[x] <= 1
                 /\ ticket'[x] = NoTicket \/ ~ticket'[x].isValidated => boarded[x] = 0
      BY <2>1, <2>6 DEF TicketsInv, Seated
    <3> QED
      BY <3>1, <3>2, <3>3 DEF TicketsInv, Seated
  <2> QED
    BY <2>8, <2>9, <2>10, <2>11, <2>12 DEF TicketsInv
<1> QED
  BY <1>3, <1>4

\* Who is let through has used up the ticket.
LEMMA BoardInv ==
  ASSUME TicketsInv, NEW c \in Clerks, Board(c)
  PROVE  TicketsInv'
<1> PICK b : b = clerk[c].for
  OBVIOUS
<1> DEFINE used == [ticket[b] EXCEPT !.isValidated = TRUE]
<1>1. /\ clerk[c].step = "board" /\ ticket' = [ticket EXCEPT ![b].isValidated = TRUE]
      /\ boarded' = [boarded EXCEPT ![b] = @ + 1] /\ clerk' = [clerk EXCEPT ![c] = Free]
      /\ UNCHANGED <<pdf, unacked, nextTag, acked, ticketPerils>>
  BY DEF Board
<1>2. b \in Booked /\ ticket[b] # NoTicket /\ ticket[b] \in TicketRec
  BY <1>1 DEF TicketsInv, TicketsTyped, ClerkOK
<1>3. used \in TicketRec /\ used.number = ticket[b].number /\ used.isValidated /\ used # NoTicket
  BY <1>2, TicketsAssumption DEF TicketRec
<1>4. ticket' = [ticket EXCEPT ![b] = used]
  BY <1>1
<1> HIDE DEF used
<1>5. /\ ticket' \in [Booked -> TicketRec \cup {NoTicket}]
      /\ \A x \in Booked : ticket'[x] = IF x = b THEN used ELSE ticket[x]
  BY <1>2, <1>3, <1>4 DEF TicketsInv, TicketsTyped
<1>6. \A x \in Booked : /\ (ticket'[x] = NoTicket <=> ticket[x] = NoTicket)
                        /\ ticket'[x].number = ticket[x].number
  BY <1>2, <1>3, <1>5
<1>7. /\ clerk' \in [Clerks -> ClerkRec]
      /\ \A d \in Clerks : clerk'[d] = IF d = c THEN Free ELSE clerk[d]
  BY <1>1, FreeOK, ClerkFrame DEF TicketsInv, ClerkOK
<1>8. \A d \in Clerks : clerk'[d].step # "none" \/ clerk'[d].tag # 0 => d # c /\ clerk'[d] = clerk[d]
  BY <1>7, FreeOK
<1>9. /\ boarded' \in [Booked -> Nat]
      /\ \A x \in Booked : boarded'[x] = IF x = b THEN boarded[b] + 1 ELSE boarded[x]
  BY <1>1, <1>2 DEF TicketsInv, TicketsTyped
<1>10. TicketsTyped'
  <2>1. ASSUME NEW d \in Clerks PROVE ClerkOK(clerk[d])'
    <3>1. CASE d = c
      BY <1>7, <3>1, FreeOK DEF ClerkOK
    <3>2. CASE d # c
      <4>1. clerk'[d] = clerk[d] /\ ClerkOK(clerk[d])
        BY <1>7, <3>2 DEF TicketsInv, TicketsTyped
      <4> QED
        BY <1>6, <4>1 DEF ClerkOK
    <3> QED
      BY <3>1, <3>2
  <2> QED
    BY <1>1, <1>5, <1>7, <1>9, <2>1 DEF TicketsInv, TicketsTyped
<1>11. Delivered'
  BY <1>1, <1>7, <1>8, FreeOK DEF TicketsInv, Delivered
<1>12. AckedHasTicket'
  <2> SUFFICES ASSUME "reconnect" \notin ticketPerils, NEW x \in acked PROVE ticket'[x] # NoTicket
    BY <1>1 DEF AckedHasTicket
  <2> QED
    BY <1>6 DEF TicketsInv, AckedHasTicket, Delivered
<1>13. Printed'
  <2> SUFFICES ASSUME "draws" \notin ticketPerils
               PROVE  /\ \A d \in Clerks : clerk'[d].step \in {"pdf", "create"} =>
                           /\ \A x \in Clerks \ {d} : clerk'[x].number # clerk'[d].number
                           /\ \A y \in Booked :
                                ticket'[y] # NoTicket => ticket'[y].number # clerk'[d].number
                           /\ clerk'[d].step = "create" => pdf[clerk'[d].number] = clerk'[d].for
                      /\ \A x \in Booked : ticket'[x] # NoTicket => pdf[ticket'[x].number] = x
    BY <1>1 DEF Printed, Fresh
  <2>1. ASSUME NEW d \in Clerks, clerk'[d].step \in {"pdf", "create"}
        PROVE  /\ \A x \in Clerks \ {d} : clerk'[x].number # clerk'[d].number
               /\ \A y \in Booked : ticket'[y] # NoTicket => ticket'[y].number # clerk'[d].number
               /\ clerk'[d].step = "create" => pdf[clerk'[d].number] = clerk'[d].for
    <3>1. d # c /\ clerk'[d] = clerk[d] /\ clerk[d].number # NoTicket
      BY <1>8, <2>1, TicketsAssumption DEF TicketsInv, TicketsTyped, ClerkOK
    <3>2. /\ \A x \in Clerks \ {d} : clerk[x].number # clerk[d].number
          /\ \A y \in Booked : ticket[y] # NoTicket => ticket[y].number # clerk[d].number
          /\ clerk[d].step = "create" => pdf[clerk[d].number] = clerk[d].for
      BY <2>1, <3>1 DEF TicketsInv, Printed, Fresh
    <3> QED
      BY <1>6, <1>7, <3>1, <3>2, FreeOK
  <2> QED
    BY <1>6, <2>1 DEF TicketsInv, Printed
<1>14. Seated'
  <2> SUFFICES ASSUME "gates" \notin ticketPerils
               PROVE  /\ \A d \in Clerks :
                           /\ clerk'[d].step \in {"read", "board"} =>
                                \A x \in Clerks \ {d} :
                                  clerk'[x].step \in {"read", "board"} => clerk'[x].for # clerk'[d].for
                           /\ clerk'[d].step = "board" => ~ticket'[clerk'[d].for].isValidated
                      /\ \A x \in Booked :
                           /\ boarded'[x] <= 1
                           /\ ticket'[x] = NoTicket \/ ~ticket'[x].isValidated => boarded'[x] = 0
    BY <1>1 DEF Seated
  <2>1. \A d \in Clerks \ {c} : clerk[d].step \in {"read", "board"} => clerk[d].for # b
    BY <1>1 DEF TicketsInv, Seated
  <2>2. ASSUME NEW d \in Clerks, clerk'[d].step = "board" PROVE ~ticket'[clerk'[d].for].isValidated
    <3>1. clerk'[d] = clerk[d] /\ clerk[d].for # b /\ clerk[d].for \in Booked
      BY <1>8, <2>1, <2>2 DEF TicketsInv, TicketsTyped, ClerkOK
    <3> QED
      BY <1>5, <2>2, <3>1 DEF TicketsInv, Seated
  <2>3. boarded[b] = 0
    BY <1>1, <1>2 DEF TicketsInv, Seated
  <2>4. ASSUME NEW x \in Booked
        PROVE  /\ boarded'[x] <= 1
               /\ ticket'[x] = NoTicket \/ ~ticket'[x].isValidated => boarded'[x] = 0
    BY <1>3, <1>5, <1>9, <2>3 DEF TicketsInv, Seated
  <2> QED
    BY <1>8, <2>2, <2>4 DEF TicketsInv, Seated
<1> QED
  BY <1>10, <1>11, <1>12, <1>13, <1>14 DEF TicketsInv

\* A new channel forgets the deliveries of the old one.
LEMMA NewChannelTyped ==
  ASSUME NewChannel
  PROVE  unacked' \in [1..MaxTag -> Booked \cup {NoTicket}] /\ nextTag' \in 1..MaxTag + 1
BY TicketsAssumption DEF NewChannel

\* After a crash nobody is at work.
LEMMA RestartInv ==
  ASSUME TicketsInv, NewChannel, clerk' = [c \in Clerks |-> Free],
         UNCHANGED <<ticket, pdf, acked, boarded, ticketPerils>>
  PROVE  TicketsInv'
<1>1. clerk' \in [Clerks -> ClerkRec] /\ \A c \in Clerks : clerk'[c] = Free
  BY FreeOK DEF ClerkOK
<1>2. TicketsTyped'
  <2>1. \A c \in Clerks : ClerkOK(clerk[c])'
    BY <1>1, FreeOK DEF ClerkOK
  <2> QED
    BY <1>1, <2>1, NewChannelTyped DEF TicketsInv, TicketsTyped
<1>3. Delivered' /\ AckedHasTicket'
  BY <1>1, FreeOK DEF TicketsInv, Delivered, AckedHasTicket
<1>4. Printed' /\ Seated'
  BY <1>1, FreeOK DEF TicketsInv, Printed, Seated
<1> QED
  BY <1>2, <1>3, <1>4 DEF TicketsInv

\* Where connections are lost, nothing is claimed of tags.
LEMMA ReconnectInv ==
  ASSUME TicketsInv, Reconnect
  PROVE  TicketsInv'
<1>1. /\ "reconnect" \in ticketPerils /\ NewChannel
      /\ UNCHANGED <<ticket, pdf, clerk, acked, boarded, ticketPerils>>
  BY DEF Reconnect
<1>2. TicketsTyped'
  <2>1. \A c \in Clerks : ClerkOK(clerk[c])'
    BY <1>1 DEF TicketsInv, TicketsTyped, ClerkOK
  <2> QED
    BY <1>1, <2>1, NewChannelTyped DEF TicketsInv, TicketsTyped
<1>3. Delivered' /\ AckedHasTicket'
  BY <1>1 DEF Delivered, AckedHasTicket
<1>4. Printed' /\ Seated'
  BY <1>1 DEF TicketsInv, Printed, Seated, Fresh
<1> QED
  BY <1>2, <1>3, <1>4 DEF TicketsInv

\* Steps that the invariant does not see: the bookings', and tags starting over
\* while nobody has one.
LEMMA StutterInv ==
  ASSUME TicketsInv,
         UNCHANGED <<ticket, pdf, unacked, clerk, acked, boarded, ticketPerils>>,
         nextTag' = nextTag \/ (nextTag' = 1 /\ \A c \in Clerks : clerk[c].tag = 0)
  PROVE  TicketsInv'
<1>1. TicketsTyped'
  <2>1. \A c \in Clerks : ClerkOK(clerk[c])'
    BY DEF TicketsInv, TicketsTyped, ClerkOK
  <2>2. nextTag' \in 1..MaxTag + 1
    BY TicketsAssumption DEF TicketsInv, TicketsTyped
  <2> QED
    BY <2>1, <2>2 DEF TicketsInv, TicketsTyped
<1>2. Delivered' /\ AckedHasTicket'
  BY DEF TicketsInv, Delivered, AckedHasTicket
<1>3. Printed' /\ Seated'
  BY DEF TicketsInv, Printed, Seated, Fresh
<1> QED
  BY <1>1, <1>2, <1>3 DEF TicketsInv

\* Every step of the ticket service keeps its invariant.
LEMMA TicketsStepInv ==
  ASSUME TicketsInv, [TicketsNext]_ticketVars
  PROVE  TicketsInv'
<1>1. CASE UNCHANGED ticketVars
  BY <1>1, StutterInv DEF ticketVars
<1>2. ASSUME NEW b \in Booked, BookingIsConfirmed(b) \/ BookingIsCancelled(b) PROVE TicketsInv'
  BY <1>2, StutterInv DEF BookingIsConfirmed, BookingIsCancelled
<1>3. ASSUME NEW c \in Clerks, Ack(c) \/ Nack(c) PROVE TicketsInv'
  BY <1>3, AnswerInv DEF Ack, Nack
<1>4. ASSUME NEW c \in Clerks, AnswerUnknown(c) PROVE TicketsInv'
  BY <1>4, RestartInv DEF AnswerUnknown
<1>5. ASSUME NEW c \in Clerks, ClerkStep(c) \/ PdfFails(c) PROVE TicketsInv'
  BY <1>3, <1>4, <1>5, FindTicketInv, ReadBookingInv, WritePdfInv, CreateTicketInv, ReadToBoardInv,
     BoardInv, PdfFailsInv DEF ClerkStep
<1>6. ASSUME NEW c \in Clerks, NEW b \in Booked,
             Deliver(c, b) \/ RequestTicket(c, b) \/ AskToBoard(c, b)
      PROVE  TicketsInv'
  BY <1>6, DeliverInv, RequestTicketInv, AskToBoardInv
<1>7. CASE Recycle
  BY <1>7, StutterInv DEF Recycle
<1>8. CASE TicketCrash
  BY <1>8, RestartInv DEF TicketCrash
<1>9. CASE Reconnect
  BY <1>9, ReconnectInv
<1> QED
  BY <1>1, <1>2, <1>5, <1>6, <1>7, <1>8, <1>9 DEF TicketsNext

\* The invariant of the ticket service holds from the start and is kept.
THEOREM TicketsInvariance == TicketsSpec => []TicketsInv
<1>1. TicketsInit => TicketsInv
  <2> SUFFICES ASSUME TicketsInit PROVE TicketsInv
    OBVIOUS
  <2>1. \A c \in Clerks : clerk[c] = Free /\ ClerkOK(clerk[c])
    BY FreeOK DEF TicketsInit
  <2>2. clerk \in [Clerks -> ClerkRec]
    BY FreeOK DEF TicketsInit, ClerkOK
  <2>3. TicketsTyped
    BY <2>1, <2>2, TicketsAssumption DEF TicketsInit, TicketsTyped
  <2>4. Delivered /\ AckedHasTicket
    BY <2>1, FreeOK DEF TicketsInit, Delivered, AckedHasTicket
  <2>5. Printed /\ Seated
    BY <2>1, FreeOK DEF TicketsInit, Printed, Seated
  <2> QED
    BY <2>3, <2>4, <2>5 DEF TicketsInv
<1>2. TicketsInv /\ [TicketsNext]_ticketVars => TicketsInv'
  BY TicketsStepInv
<1> QED
  BY <1>1, <1>2, PTL DEF TicketsSpec

\* AckedHasTicket: on one connection, no message is acknowledged in vain.
THEOREM NoConfirmationLost == TicketsSpec => []AckedHasTicket
<1>1. TicketsInv => AckedHasTicket
  BY DEF TicketsInv
<1> QED
  BY <1>1, TicketsInvariance, PTL

\* TicketIsPrinted: every ticket has its PDF, and every PDF the right booking.
THEOREM TicketsArePrinted == TicketsSpec => []TicketIsPrinted
<1>1. TicketsInv => TicketIsPrinted
  BY DEF TicketsInv, Printed, TicketIsPrinted
<1> QED
  BY <1>1, TicketsInvariance, PTL

\* BoardsOnce: a ticket that is not shown at two gates at a time lets one through.
THEOREM OneEntry == TicketsSpec => []BoardsOnce
<1>1. TicketsInv => BoardsOnce
  BY DEF TicketsInv, Seated, BoardsOnce
<1> QED
  BY <1>1, TicketsInvariance, PTL

(***************************************************************************)
(* The ticket office. MessagesInv counts the messages of a booking: one at *)
(* most, ready or out, from its confirmation on. With it and TicketsInv    *)
(* every step of the handlers is a step of the office, or none.            *)
(***************************************************************************)

\* What the office sees of the state.
Announced == {b \in Booked : bookingRow[b] # "PAYMENT_PENDING"}
Due == {b \in Booked : confirmedQueue[b] > 0 \/ \E t \in 1..MaxTag : unacked[t] = b}
Issued == [b \in Booked |-> IF ticket[b] = NoTicket THEN NoTicket ELSE ticket[b].number]

OneMessage ==
  /\ bookingRow \in [Booked -> {"PAYMENT_PENDING", "CONFIRMED", "CANCELLED"}]
  /\ confirmedQueue \in [Booked -> {0, 1}]
  /\ acked \subseteq Booked
  /\ \A b \in Booked : bookingRow[b] = "PAYMENT_PENDING" => confirmedQueue[b] = 0
  /\ \A t \in 1..MaxTag : unacked[t] # NoTicket =>
       /\ bookingRow[unacked[t]] # "PAYMENT_PENDING" /\ confirmedQueue[unacked[t]] = 0
       /\ t < nextTag
       /\ \A u \in 1..MaxTag \ {t} : unacked[u] # unacked[t]

\* A handler that prints or writes a ticket has read its booking as confirmed.
ClerksRead ==
  \A c \in Clerks :
    clerk[c].step \in {"pdf", "create"} => bookingRow[clerk[c].for] # "PAYMENT_PENDING"

MessagesInv == OneMessage /\ ClerksRead

\* Who comes to print, or goes on to write, is at the same booking as before.
LEMMA PrintersMove ==
  ASSUME TicketsInv, [TicketsNext]_ticketVars, NEW x \in Clerks, clerk'[x].step \in {"pdf", "create"}
  PROVE  /\ clerk'[x].for = clerk[x].for
         /\ clerk[x].step \in {"pdf", "create"} \/ bookingRow[clerk[x].for] = "CONFIRMED"
<1>1. clerk \in [Clerks -> ClerkRec] /\ \A c \in Clerks : clerk[c] \in ClerkRec
  BY DEF TicketsInv, TicketsTyped
<1>2. CASE clerk' = clerk
  BY <1>2
<1>3. CASE clerk' = [c \in Clerks |-> Free]
  BY <1>3, FreeOK
<1>4. ASSUME NEW c \in Clerks, clerk' = [clerk EXCEPT ![c] = Free]
      PROVE  clerk'[x] = clerk[x]
  <2>1. x # c
    BY <1>1, <1>4, FreeOK
  <2> QED
    BY <1>1, <1>4, <2>1
<1>5. ASSUME NEW c \in Clerks, NEW r, clerk' = [clerk EXCEPT ![c] = r], r.step \notin {"pdf", "create"}
      PROVE  clerk'[x] = clerk[x]
  <2>1. x # c
    BY <1>1, <1>5
  <2> QED
    BY <1>1, <1>5, <2>1
<1>6. ASSUME NEW c \in Clerks, NEW answer \in {"ack", "nack"}, Done(c, answer)
      PROVE  clerk'[x] = clerk[x]
  <2> PICK r : r = [clerk[c] EXCEPT !.step = answer]
    OBVIOUS
  <2>1. r.step = answer
    BY <1>1 DEF ClerkRec
  <2>2. clerk' = [clerk EXCEPT ![c] = Free] \/ clerk' = [clerk EXCEPT ![c] = r]
    BY <1>6 DEF Done
  <2> QED
    BY <1>4, <1>5, <2>1, <2>2
<1>7. ASSUME NEW b \in Booked, BookingIsConfirmed(b) \/ BookingIsCancelled(b)
      PROVE  clerk' = clerk
  BY <1>7 DEF BookingIsConfirmed, BookingIsCancelled
<1>8. ASSUME NEW c \in Clerks, NEW b \in Booked, Deliver(c, b) \/ RequestTicket(c, b) \/ AskToBoard(c, b)
      PROVE  clerk'[x] = clerk[x]
  <2>1. ASSUME NEW r, r.step \notin {"pdf", "create"}, clerk' = [clerk EXCEPT ![c] = r]
        PROVE  clerk'[x] = clerk[x]
    BY <1>5, <2>1
  <2>2. /\ [Free EXCEPT !.for = b, !.tag = nextTag, !.step = "find"].step = "find"
        /\ [Free EXCEPT !.for = b, !.step = "find"].step = "find"
        /\ [Free EXCEPT !.for = b, !.step = "read"].step = "read"
    BY DEF Free
  <2>3. \/ clerk' = [clerk EXCEPT ![c] = [Free EXCEPT !.for = b, !.tag = nextTag, !.step = "find"]]
        \/ clerk' = [clerk EXCEPT ![c] = [Free EXCEPT !.for = b, !.step = "find"]]
        \/ clerk' = [clerk EXCEPT ![c] = [Free EXCEPT !.for = b, !.step = "read"]]
    BY <1>8 DEF Deliver, RequestTicket, AskToBoard
  <2> QED
    BY <2>1, <2>2, <2>3
<1>9. ASSUME NEW c \in Clerks, FindTicket(c)
      PROVE  clerk'[x] = clerk[x]
  <2> PICK r : r = [clerk[c] EXCEPT !.step = "booking"]
    OBVIOUS
  <2>1. Done(c, "ack") \/ (clerk' = [clerk EXCEPT ![c] = r] /\ r.step = "booking")
    BY <1>1, <1>9 DEF FindTicket, ClerkRec
  <2> QED
    BY <1>5, <1>6, <2>1
<1>10. ASSUME NEW c \in Clerks, ReadBooking(c)
       PROVE  /\ clerk'[x].for = clerk[x].for
              /\ clerk[x].step \in {"pdf", "create"} \/ bookingRow[clerk[x].for] = "CONFIRMED"
  <2>1. CASE Done(c, "nack")
    BY <1>6, <2>1
  <2>2. ASSUME bookingRow[clerk[c].for] = "CONFIRMED", NEW n,
               clerk' = [clerk EXCEPT ![c].step = "pdf", ![c].number = n]
        PROVE  /\ clerk'[x].for = clerk[x].for
               /\ clerk[x].step \in {"pdf", "create"} \/ bookingRow[clerk[x].for] = "CONFIRMED"
    BY <1>1, <2>2 DEF ClerkRec
  <2> QED
    BY <1>10, <2>1, <2>2 DEF ReadBooking
<1>11. ASSUME NEW c \in Clerks, WritePdf(c)
       PROVE  clerk'[x].for = clerk[x].for /\ clerk[x].step \in {"pdf", "create"}
  <2>1. clerk[c].step = "pdf" /\ clerk' = [clerk EXCEPT ![c].step = "create"]
    BY <1>11 DEF WritePdf
  <2> QED
    BY <1>1, <2>1 DEF ClerkRec
<1>12. ASSUME NEW c \in Clerks, PdfFails(c) \/ CreateTicket(c)
       PROVE  clerk'[x] = clerk[x]
  BY <1>6, <1>12 DEF PdfFails, CreateTicket
<1>13. ASSUME NEW c \in Clerks, ReadToBoard(c)
       PROVE  clerk'[x] = clerk[x]
  <2> PICK r : r = [clerk[c] EXCEPT !.step = "board"]
    OBVIOUS
  <2>1. clerk' = [clerk EXCEPT ![c] = Free] \/ clerk' = [clerk EXCEPT ![c] = r]
    BY <1>13 DEF ReadToBoard
  <2>2. r.step = "board"
    BY <1>1 DEF ClerkRec
  <2> QED
    BY <1>4, <1>5, <2>1, <2>2
<1>14. ASSUME NEW c \in Clerks, Ack(c) \/ Nack(c) \/ Board(c)
       PROVE  clerk'[x] = clerk[x]
  BY <1>4, <1>14 DEF Ack, Nack, Board
<1>15. ASSUME NEW c \in Clerks, AnswerUnknown(c)
       PROVE  FALSE
  BY <1>15, FreeOK DEF AnswerUnknown
<1>16. CASE Recycle \/ TicketCrash \/ Reconnect
  BY <1>2, <1>3, <1>16 DEF Recycle, TicketCrash, Reconnect
<1> QED
  BY <1>2, <1>7, <1>8, <1>9, <1>10, <1>11, <1>12, <1>13, <1>14, <1>15, <1>16
  DEF TicketsNext, ClerkStep, ticketVars

\* A booking that is confirmed, or cancelled after it, never waits for payment again.
LEMMA ReadersAreRight ==
  ASSUME TicketsInv, MessagesInv, [TicketsNext]_ticketVars,
         \A b \in Booked : bookingRow'[b] = "PAYMENT_PENDING" => bookingRow[b] = "PAYMENT_PENDING"
  PROVE  ClerksRead'
<1> SUFFICES ASSUME NEW x \in Clerks, clerk'[x].step \in {"pdf", "create"}
             PROVE  bookingRow'[clerk'[x].for] # "PAYMENT_PENDING"
  BY DEF ClerksRead
<1>1. /\ clerk'[x].for = clerk[x].for
      /\ clerk[x].step \in {"pdf", "create"} \/ bookingRow[clerk[x].for] = "CONFIRMED"
  BY PrintersMove
<1>2. bookingRow[clerk[x].for] # "PAYMENT_PENDING"
  BY <1>1 DEF MessagesInv, ClerksRead
<1>3. clerk'[x].for \in Booked
  <2>1. TicketsInv'
    BY TicketsStepInv
  <2> QED
    BY <2>1 DEF TicketsInv, TicketsTyped, ClerkOK
<1> QED
  BY <1>1, <1>2, <1>3

\* The office does not see a step that leaves its view alone.
LEMMA OfficeStutters ==
  ASSUME Announced' = Announced, Due' = Due, Issued' = Issued, UNCHANGED <<boarded, ticketPerils>>
  PROVE  UNCHANGED Office!officeVars
BY DEF Office!officeVars, Announced, Due, Issued

LEMMA OfficeSleeps ==
  ASSUME OneMessage,
         UNCHANGED <<bookingRow, ticket, confirmedQueue, unacked, acked, boarded, ticketPerils>>,
         nextTag' = nextTag \/ \A t \in 1..MaxTag : unacked[t] = NoTicket
  PROVE  OneMessage' /\ UNCHANGED Office!officeVars
<1>1. OneMessage'
  BY DEF OneMessage
<1>2. Announced' = Announced /\ Due' = Due /\ Issued' = Issued
  BY DEF Announced, Due, Issued
<1> QED
  BY <1>1, <1>2, OfficeStutters

\* The queue after a connection was lost: what was out is ready again.
LEMMA Requeued ==
  ASSUME TicketsInv, OneMessage, NewChannel
  PROVE  /\ \A b \in Booked : confirmedQueue'[b] =
              IF \E t \in 1..MaxTag : unacked[t] = b THEN 1 ELSE confirmedQueue[b]
         /\ confirmedQueue' \in [Booked -> {0, 1}]
         /\ \A t \in 1..MaxTag : unacked'[t] = NoTicket
<1> DEFINE Tags(b) == {t \in 1..MaxTag : unacked[t] = b}
<1>1. /\ confirmedQueue' = [b \in Booked |-> confirmedQueue[b] + Cardinality(Tags(b))]
      /\ \A t \in 1..MaxTag : unacked'[t] = NoTicket
  BY DEF NewChannel
<1>2. ASSUME NEW b \in Booked
      PROVE  confirmedQueue[b] + Cardinality(Tags(b)) =
               IF \E t \in 1..MaxTag : unacked[t] = b THEN 1 ELSE confirmedQueue[b]
  <2>0. confirmedQueue[b] \in {0, 1} /\ b # NoTicket
    BY TicketsAssumption DEF OneMessage
  <2>1. ASSUME NEW t \in 1..MaxTag, unacked[t] = b
        PROVE  confirmedQueue[b] = 0 /\ Tags(b) = {t}
    BY <2>0, <2>1 DEF OneMessage
  <2>2. CASE \E t \in 1..MaxTag : unacked[t] = b
    <3> PICK t \in 1..MaxTag : unacked[t] = b
      BY <2>2
    <3>1. Cardinality(Tags(b)) = 1
      BY <2>1, FS_Singleton
    <3> QED
      BY <2>1, <2>2, <3>1
  <2>3. CASE ~\E t \in 1..MaxTag : unacked[t] = b
    <3>1. Tags(b) = {}
      BY <2>3
    <3>2. Cardinality(Tags(b)) = 0
      BY <3>1, FS_EmptySet
    <3> QED
      BY <2>0, <2>3, <3>2
  <2> QED
    BY <2>2, <2>3
<1>3. \A b \in Booked : confirmedQueue'[b] =
         IF \E t \in 1..MaxTag : unacked[t] = b THEN 1 ELSE confirmedQueue[b]
  BY <1>1, <1>2
<1>4. confirmedQueue' = [b \in Booked |-> confirmedQueue'[b]]
  BY <1>1
<1>5. \A b \in Booked : confirmedQueue'[b] \in {0, 1}
  BY <1>3 DEF OneMessage
<1> QED
  BY <1>1, <1>3, <1>4, <1>5

\* A lost connection takes no message away and makes none.
LEMMA OfficeReconnects ==
  ASSUME TicketsInv, OneMessage, NewChannel, UNCHANGED <<bookingRow, ticket, acked, boarded, ticketPerils>>
  PROVE  OneMessage' /\ UNCHANGED Office!officeVars
<1>1. /\ \A b \in Booked : confirmedQueue'[b] =
           IF \E t \in 1..MaxTag : unacked[t] = b THEN 1 ELSE confirmedQueue[b]
      /\ confirmedQueue' \in [Booked -> {0, 1}]
      /\ \A t \in 1..MaxTag : unacked'[t] = NoTicket
  BY Requeued
<1>2. \A b \in Booked : confirmedQueue[b] \in {0, 1}
  BY DEF OneMessage
<1>3. OneMessage'
  <2>1. \A b \in Booked : bookingRow[b] = "PAYMENT_PENDING" => confirmedQueue'[b] = 0
    BY <1>1, TicketsAssumption DEF OneMessage
  <2> QED
    BY <1>1, <2>1 DEF OneMessage
<1>4. Due' = Due
  <2>1. ASSUME NEW b \in Booked
        PROVE  (confirmedQueue'[b] > 0 \/ \E t \in 1..MaxTag : unacked'[t] = b)
               <=> (confirmedQueue[b] > 0 \/ \E t \in 1..MaxTag : unacked[t] = b)
    BY <1>1, <1>2, TicketsAssumption
  <2> QED
    BY <2>1 DEF Due
<1>5. Announced' = Announced /\ Issued' = Issued
  BY DEF Announced, Issued
<1> QED
  BY <1>3, <1>4, <1>5, OfficeStutters

\* A booking is confirmed once, and so announced once.
LEMMA OfficeAnnounces ==
  ASSUME OneMessage, TicketsInv, NEW b \in Booked, BookingIsConfirmed(b)
  PROVE  OneMessage' /\ Office!Announce(b)
<1>1. /\ bookingRow[b] = "PAYMENT_PENDING" /\ bookingRow' = [bookingRow EXCEPT ![b] = "CONFIRMED"]
      /\ confirmedQueue' = [confirmedQueue EXCEPT ![b] = @ + 1]
      /\ UNCHANGED <<ticket, unacked, nextTag, acked, boarded, ticketPerils>>
  BY DEF BookingIsConfirmed
<1>2. confirmedQueue[b] = 0 /\ \A t \in 1..MaxTag : unacked[t] # b
  BY <1>1, TicketsAssumption DEF OneMessage
<1>3. /\ \A x \in Booked : /\ bookingRow'[x] = IF x = b THEN "CONFIRMED" ELSE bookingRow[x]
                           /\ confirmedQueue'[x] = IF x = b THEN 1 ELSE confirmedQueue[x]
      /\ bookingRow' \in [Booked -> {"PAYMENT_PENDING", "CONFIRMED", "CANCELLED"}]
      /\ confirmedQueue' \in [Booked -> {0, 1}]
  BY <1>1, <1>2 DEF OneMessage
<1>4. \A t \in 1..MaxTag : unacked[t] \in Booked \cup {NoTicket}
  BY DEF TicketsInv, TicketsTyped
<1>5. OneMessage'
  BY <1>1, <1>2, <1>3, <1>4 DEF OneMessage
<1>6. Announced' = Announced \cup {b} /\ b \notin Announced /\ Issued' = Issued
  BY <1>1, <1>3 DEF Announced, Issued
<1>7. Due' = Due \cup {b}
  BY <1>1, <1>3 DEF Due
<1> QED
  BY <1>1, <1>5, <1>6, <1>7 DEF Office!Announce, Announced, Due, Issued

\* Cancelling is nothing to the office.
LEMMA OfficeKeeps ==
  ASSUME OneMessage, TicketsInv, NEW b \in Booked, BookingIsCancelled(b)
  PROVE  OneMessage' /\ UNCHANGED Office!officeVars
<1>1. /\ bookingRow[b] = "CONFIRMED" /\ bookingRow' = [bookingRow EXCEPT ![b] = "CANCELLED"]
      /\ UNCHANGED <<ticket, confirmedQueue, unacked, nextTag, acked, boarded, ticketPerils>>
  BY DEF BookingIsCancelled
<1>2. /\ \A x \in Booked : bookingRow'[x] = IF x = b THEN "CANCELLED" ELSE bookingRow[x]
      /\ bookingRow' \in [Booked -> {"PAYMENT_PENDING", "CONFIRMED", "CANCELLED"}]
  BY <1>1 DEF OneMessage
<1>3. \A t \in 1..MaxTag : unacked[t] \in Booked \cup {NoTicket}
  BY DEF TicketsInv, TicketsTyped
<1>4. OneMessage'
  BY <1>1, <1>2, <1>3 DEF OneMessage
<1>5. Announced' = Announced /\ Due' = Due /\ Issued' = Issued
  BY <1>1, <1>2 DEF Announced, Due, Issued
<1> QED
  BY <1>1, <1>4, <1>5, OfficeStutters

\* A delivered message is out, and no longer ready.
LEMMA OfficeHandsOut ==
  ASSUME OneMessage, TicketsInv, NEW c \in Clerks, NEW b \in Booked, Deliver(c, b)
  PROVE  OneMessage' /\ UNCHANGED Office!officeVars
<1> PICK t : t = nextTag
  OBVIOUS
<1>1. /\ t \in 1..MaxTag /\ confirmedQueue[b] > 0 /\ nextTag' = t + 1
      /\ confirmedQueue' = [confirmedQueue EXCEPT ![b] = @ - 1]
      /\ unacked' = [unacked EXCEPT ![t] = b]
      /\ UNCHANGED <<bookingRow, ticket, acked, boarded, ticketPerils>>
  BY TicketsAssumption DEF Deliver, TicketsInv, TicketsTyped
<1>2. /\ confirmedQueue[b] = 1 /\ b # NoTicket /\ bookingRow[b] # "PAYMENT_PENDING"
      /\ unacked[t] = NoTicket /\ \A u \in 1..MaxTag : unacked[u] # b
  BY <1>1, TicketsAssumption DEF OneMessage
<1>3. /\ \A x \in Booked : confirmedQueue'[x] = IF x = b THEN 0 ELSE confirmedQueue[x]
      /\ \A u \in 1..MaxTag : unacked'[u] = IF u = t THEN b ELSE unacked[u]
      /\ confirmedQueue' \in [Booked -> {0, 1}]
  BY <1>1, <1>2 DEF OneMessage, TicketsInv, TicketsTyped
<1>4. \A u \in 1..MaxTag : unacked[u] \in Booked \cup {NoTicket}
  BY DEF TicketsInv, TicketsTyped
<1>5. OneMessage'
  <2>1. ASSUME NEW u \in 1..MaxTag, unacked'[u] # NoTicket
        PROVE  /\ bookingRow[unacked'[u]] # "PAYMENT_PENDING" /\ confirmedQueue'[unacked'[u]] = 0
               /\ u < nextTag'
               /\ \A v \in 1..MaxTag \ {u} : unacked'[v] # unacked'[u]
    <3>1. CASE u = t
      BY <1>1, <1>2, <1>3, <3>1
    <3>2. CASE u # t
      <4>1. /\ unacked'[u] = unacked[u] /\ unacked[u] \in Booked /\ unacked[u] # b
            /\ bookingRow[unacked[u]] # "PAYMENT_PENDING" /\ confirmedQueue[unacked[u]] = 0
            /\ u < nextTag /\ \A v \in 1..MaxTag \ {u} : unacked[v] # unacked[u]
        BY <1>2, <1>3, <1>4, <2>1, <3>2 DEF OneMessage
      <4>2. u < t + 1
        BY <1>1, <4>1
      <4> QED
        BY <1>1, <1>3, <4>1, <4>2
    <3> QED
      BY <3>1, <3>2
  <2>2. \A x \in Booked : bookingRow[x] = "PAYMENT_PENDING" => confirmedQueue'[x] = 0
    BY <1>3 DEF OneMessage
  <2> QED
    BY <1>1, <1>3, <2>1, <2>2 DEF OneMessage
<1>6. Due' = Due
  <2>1. ASSUME NEW x \in Booked
        PROVE  (confirmedQueue'[x] > 0 \/ \E u \in 1..MaxTag : unacked'[u] = x)
               <=> (confirmedQueue[x] > 0 \/ \E u \in 1..MaxTag : unacked[u] = x)
    BY <1>1, <1>2, <1>3, TicketsAssumption
  <2> QED
    BY <2>1 DEF Due
<1>7. Announced' = Announced /\ Issued' = Issued
  BY <1>1 DEF Announced, Issued
<1> QED
  BY <1>1, <1>5, <1>6, <1>7, OfficeStutters

\* What an answer, to whichever message has the tag, does to what is out.
LEMMA TagIsOut ==
  ASSUME OneMessage, TicketsInv, NEW t \in 1..MaxTag, unacked[t] # NoTicket,
         unacked' = [unacked EXCEPT ![t] = NoTicket],
         bookingRow' = bookingRow, nextTag' = nextTag,
         confirmedQueue' \in [Booked -> {0, 1}],
         \A x \in Booked : x # unacked[t] => confirmedQueue'[x] = confirmedQueue[x],
         acked' \subseteq Booked
  PROVE  /\ OneMessage' /\ unacked[t] \in Booked
         /\ \A x \in Booked : (\E u \in 1..MaxTag : unacked'[u] = x)
                               <=> x # unacked[t] /\ \E u \in 1..MaxTag : unacked[u] = x
<1> PICK b : b = unacked[t]
  OBVIOUS
<1>1. b # NoTicket
  OBVIOUS
<1>2. /\ \A u \in 1..MaxTag : unacked'[u] = IF u = t THEN NoTicket ELSE unacked[u]
      /\ \A u \in 1..MaxTag : unacked[u] \in Booked \cup {NoTicket}
  BY <1>1 DEF TicketsInv, TicketsTyped
<1>3. b \in Booked /\ \A u \in 1..MaxTag \ {t} : unacked[u] # b
  BY <1>1, <1>2 DEF OneMessage
<1>4. bookingRow[b] # "PAYMENT_PENDING"
  BY <1>1 DEF OneMessage
<1>5. OneMessage'
  <2>1. ASSUME NEW u \in 1..MaxTag, unacked'[u] # NoTicket
        PROVE  /\ bookingRow[unacked'[u]] # "PAYMENT_PENDING" /\ confirmedQueue'[unacked'[u]] = 0
               /\ u < nextTag
               /\ \A v \in 1..MaxTag \ {u} : unacked'[v] # unacked'[u]
    <3>1. /\ u # t /\ unacked'[u] = unacked[u] /\ unacked[u] \in Booked /\ unacked[u] # b
          /\ bookingRow[unacked[u]] # "PAYMENT_PENDING" /\ confirmedQueue[unacked[u]] = 0
          /\ u < nextTag /\ \A v \in 1..MaxTag \ {u} : unacked[v] # unacked[u]
      BY <1>2, <1>3, <2>1 DEF OneMessage
    <3>2. confirmedQueue'[unacked[u]] = confirmedQueue[unacked[u]]
      BY <3>1
    <3>3. \A v \in 1..MaxTag \ {u} : unacked'[v] # unacked[u]
      BY <1>2, <2>1, <3>1
    <3> QED
      BY <3>1, <3>2, <3>3
  <2>2. \A x \in Booked : bookingRow[x] = "PAYMENT_PENDING" => confirmedQueue'[x] = 0
    BY <1>4 DEF OneMessage
  <2> QED
    BY <2>1, <2>2 DEF OneMessage
<1>6. \A x \in Booked : (\E u \in 1..MaxTag : unacked'[u] = x)
                         <=> x # b /\ \E u \in 1..MaxTag : unacked[u] = x
  BY <1>1, <1>2, <1>3, TicketsAssumption
<1> QED
  BY <1>3, <1>5, <1>6

\* A message that is given back is ready again.
LEMMA OfficeTakesBack ==
  ASSUME OneMessage, TicketsInv, NEW c \in Clerks, Nack(c)
  PROVE  OneMessage' /\ UNCHANGED Office!officeVars
<1> PICK b : b = unacked[clerk[c].tag]
  OBVIOUS
<1>1. /\ clerk[c].step = "nack" /\ b # NoTicket
      /\ unacked' = [unacked EXCEPT ![clerk[c].tag] = NoTicket]
      /\ confirmedQueue' = [confirmedQueue EXCEPT ![b] = @ + 1]
      /\ UNCHANGED <<bookingRow, ticket, nextTag, acked, boarded, ticketPerils>>
  BY DEF Nack
<1>2. clerk[c].tag \in 1..MaxTag
  BY <1>1, TicketsAssumption DEF TicketsInv, TicketsTyped, ClerkOK, ClerkRec
<1>3. b \in Booked /\ confirmedQueue[b] = 0
  BY <1>1, <1>2 DEF TicketsInv, TicketsTyped, OneMessage
<1>4. /\ confirmedQueue' \in [Booked -> {0, 1}]
      /\ \A x \in Booked : confirmedQueue'[x] = IF x = b THEN 1 ELSE confirmedQueue[x]
  BY <1>1, <1>3 DEF OneMessage
<1>5. /\ OneMessage'
      /\ \A x \in Booked : (\E u \in 1..MaxTag : unacked'[u] = x)
                            <=> x # b /\ \E u \in 1..MaxTag : unacked[u] = x
  <2>1. acked' \subseteq Booked /\ confirmedQueue' \in [Booked -> {0, 1}]
    BY <1>1, <1>4 DEF OneMessage
  <2>2. /\ bookingRow' = bookingRow /\ nextTag' = nextTag
        /\ \A x \in Booked : x # b => confirmedQueue'[x] = confirmedQueue[x]
    BY <1>1, <1>4
  <2>3. /\ unacked[clerk[c].tag] # NoTicket
        /\ unacked' = [unacked EXCEPT ![clerk[c].tag] = NoTicket]
    BY <1>1
  <2> QED
    BY <1>2, <2>1, <2>2, <2>3, TagIsOut
<1>6. Due' = Due
  <2>1. ASSUME NEW x \in Booked
        PROVE  (confirmedQueue'[x] > 0 \/ \E u \in 1..MaxTag : unacked'[u] = x)
               <=> (confirmedQueue[x] > 0 \/ \E u \in 1..MaxTag : unacked[u] = x)
    BY <1>2, <1>4, <1>5
  <2> QED
    BY <2>1 DEF Due
<1>7. Announced' = Announced /\ Issued' = Issued
  BY <1>1 DEF Announced, Issued
<1> QED
  BY <1>1, <1>5, <1>6, <1>7, OfficeStutters

\* A message that is acknowledged is settled, and on one connection it is the
\* handler's own, whose booking has its ticket.
LEMMA OfficeSettles ==
  ASSUME OneMessage, TicketsInv, NEW c \in Clerks, Ack(c)
  PROVE  OneMessage' /\ \E b \in Booked : Office!Settle(b)
<1> PICK b : b = unacked[clerk[c].tag]
  OBVIOUS
<1>1. /\ clerk[c].step = "ack" /\ b # NoTicket /\ acked' = acked \cup {b}
      /\ unacked' = [unacked EXCEPT ![clerk[c].tag] = NoTicket]
      /\ UNCHANGED <<bookingRow, ticket, confirmedQueue, nextTag, boarded, ticketPerils>>
  BY DEF Ack
<1>2. clerk[c].tag \in 1..MaxTag /\ clerk[c].tag # 0
  BY <1>1, TicketsAssumption DEF TicketsInv, TicketsTyped, ClerkOK, ClerkRec
<1>3. b \in Booked /\ confirmedQueue[b] = 0
  BY <1>1, <1>2 DEF TicketsInv, TicketsTyped, OneMessage
<1>4. /\ OneMessage'
      /\ \A x \in Booked : (\E u \in 1..MaxTag : unacked'[u] = x)
                            <=> x # b /\ \E u \in 1..MaxTag : unacked[u] = x
  <2>1. acked' \subseteq Booked /\ confirmedQueue' \in [Booked -> {0, 1}]
    BY <1>1, <1>3 DEF OneMessage
  <2>2. /\ bookingRow' = bookingRow /\ nextTag' = nextTag
        /\ \A x \in Booked : x # b => confirmedQueue'[x] = confirmedQueue[x]
    BY <1>1
  <2> QED
    BY <1>1, <1>2, <2>1, <2>2, TagIsOut
<1>5. Due' = Due \ {b} /\ b \in Due
  BY <1>1, <1>2, <1>3, <1>4 DEF Due
<1>6. "reconnect" \notin ticketPerils => ticket[b] # NoTicket
  BY <1>1, <1>2 DEF TicketsInv, TicketsTyped, Delivered, ClerkOK
<1>7. Issued[b] # NoTicket \/ "reconnect" \in ticketPerils
  <2>1. ticket[b] # NoTicket => ticket[b].number # NoTicket
    BY <1>3, TicketsAssumption DEF TicketsInv, TicketsTyped, TicketRec
  <2> QED
    BY <1>3, <1>6, <2>1 DEF Issued
<1>8. Announced' = Announced /\ Issued' = Issued
  BY <1>1 DEF Announced, Issued
<1>9. Office!Settle(b)
  BY <1>1, <1>5, <1>7, <1>8 DEF Office!Settle, Announced, Due, Issued
<1> QED
  BY <1>3, <1>4, <1>9

\* A ticket is written for a booking that has none, under a number nobody has.
LEMMA OfficeIssues ==
  ASSUME MessagesInv, TicketsInv, NEW c \in Clerks, CreateTicket(c)
  PROVE  /\ OneMessage'
         /\ \/ UNCHANGED Office!officeVars
            \/ \E b \in Booked, n \in TicketNumbers : Office!Issue(b, n)
<1> PICK b, n : b = clerk[c].for /\ n = clerk[c].number
  OBVIOUS
<1> DEFINE new == [number |-> n, isValidated |-> FALSE]
           taken == ticket[b] # NoTicket
                    \/ \E x \in Booked : ticket[x] # NoTicket /\ ticket[x].number = n
<1>1. /\ clerk[c].step = "create"
      /\ ticket' = IF taken THEN ticket ELSE [ticket EXCEPT ![b] = new]
      /\ UNCHANGED <<bookingRow, confirmedQueue, unacked, nextTag, acked, boarded, ticketPerils>>
  BY DEF CreateTicket
<1>2. b \in Booked /\ n \in TicketNumbers /\ bookingRow[b] # "PAYMENT_PENDING"
  BY <1>1 DEF TicketsInv, TicketsTyped, ClerkOK, MessagesInv, ClerksRead
<1>3. OneMessage'
  BY <1>1 DEF MessagesInv, OneMessage
<1>4. Announced' = Announced /\ Due' = Due /\ b \in Announced
  BY <1>1, <1>2 DEF Announced, Due
<1>5. CASE taken
  <2>1. Issued' = Issued
    BY <1>1, <1>5 DEF Issued
  <2> QED
    BY <1>1, <1>3, <1>4, <2>1, OfficeStutters
<1>6. CASE ~taken
  <2>0. new \in [number : TicketNumbers, isValidated : BOOLEAN] /\ new.number = n
    BY <1>2
  <2>1. /\ new # NoTicket /\ new.number = n /\ n # NoTicket
        /\ \A x \in Booked : ticket'[x] = IF x = b THEN new ELSE ticket[x]
    <3>1. ticket' = [ticket EXCEPT ![b] = new]
      BY <1>1, <1>6
    <3> HIDE DEF new
    <3>2. new # NoTicket /\ n # NoTicket
      BY <1>2, <2>0, TicketsAssumption
    <3> QED
      BY <2>0, <3>1, <3>2 DEF TicketsInv, TicketsTyped
  <2>2. Issued[b] = NoTicket /\ \A x \in Booked : Issued[x] # n
    BY <1>2, <1>6, <2>1 DEF Issued
  <2> HIDE DEF new
  <2>3. Issued' = [Issued EXCEPT ![b] = n]
    BY <1>2, <2>1 DEF Issued
  <2>4. Office!Issue(b, n)
    BY <1>1, <1>4, <2>2, <2>3 DEF Office!Issue, Announced, Due, Issued
  <2> QED
    BY <1>2, <1>3, <2>4
<1> QED
  BY <1>5, <1>6

\* Whom the gate lets through is the first, where one gate looks at a time.
LEMMA OfficeAdmits ==
  ASSUME OneMessage, TicketsInv, NEW c \in Clerks, Board(c)
  PROVE  OneMessage' /\ \E b \in Booked : Office!Admit(b)
<1> PICK b : b = clerk[c].for
  OBVIOUS
<1> DEFINE used == [ticket[b] EXCEPT !.isValidated = TRUE]
<1>1. /\ clerk[c].step = "board" /\ ticket' = [ticket EXCEPT ![b] = used]
      /\ boarded' = [boarded EXCEPT ![b] = @ + 1]
      /\ UNCHANGED <<bookingRow, confirmedQueue, unacked, nextTag, acked, ticketPerils>>
  BY DEF Board
<1>2. b \in Booked /\ ticket[b] # NoTicket /\ ticket[b] \in TicketRec
  BY <1>1 DEF TicketsInv, TicketsTyped, ClerkOK
<1>3. used # NoTicket /\ used.number = ticket[b].number /\ ticket[b].number # NoTicket
  <2>1. used \in TicketRec /\ used.number = ticket[b].number
    BY <1>2 DEF TicketRec
  <2> QED
    BY <1>2, <2>1, TicketsAssumption DEF TicketRec
<1> HIDE DEF used
<1>4. \A x \in Booked : ticket'[x] = IF x = b THEN used ELSE ticket[x]
  BY <1>1 DEF TicketsInv, TicketsTyped
<1>5. OneMessage'
  BY <1>1 DEF OneMessage
<1>6. Announced' = Announced /\ Due' = Due /\ Issued' = Issued
  BY <1>1, <1>2, <1>3, <1>4 DEF Announced, Due, Issued
<1>7. Issued[b] # NoTicket
  BY <1>2, <1>3 DEF Issued
<1>8. boarded[b] = 0 \/ "gates" \in ticketPerils
  BY <1>1, <1>2 DEF TicketsInv, Seated
<1>9. Office!Admit(b)
  BY <1>1, <1>6, <1>7, <1>8 DEF Office!Admit, Announced, Due, Issued
<1> QED
  BY <1>2, <1>5, <1>9

\* Every step keeps one message for each booking, and is a step of the office or none.
LEMMA OfficeSteps ==
  ASSUME TicketsInv, MessagesInv, [TicketsNext]_ticketVars
  PROVE  MessagesInv' /\ [Office!Next]_(Office!officeVars)
<1> USE DEF MessagesInv
<1>1. CASE UNCHANGED ticketVars
  BY <1>1, OfficeSleeps, ReadersAreRight DEF ticketVars
<1>2. ASSUME NEW b \in Booked, BookingIsConfirmed(b)
      PROVE  OneMessage' /\ [Office!Next]_(Office!officeVars)
  BY <1>2, OfficeAnnounces DEF Office!Next
<1>3. ASSUME NEW b \in Booked, BookingIsCancelled(b)
      PROVE  OneMessage' /\ [Office!Next]_(Office!officeVars)
  BY <1>3, OfficeKeeps
<1>4. ASSUME NEW c \in Clerks, Ack(c)
      PROVE  OneMessage' /\ [Office!Next]_(Office!officeVars)
  BY <1>4, OfficeSettles DEF Office!Next
<1>5. ASSUME NEW c \in Clerks, Nack(c)
      PROVE  OneMessage' /\ [Office!Next]_(Office!officeVars)
  BY <1>5, OfficeTakesBack
<1>6. ASSUME NEW c \in Clerks, CreateTicket(c)
      PROVE  OneMessage' /\ [Office!Next]_(Office!officeVars)
  BY <1>6, OfficeIssues DEF Office!Next
<1>7. ASSUME NEW c \in Clerks, Board(c)
      PROVE  OneMessage' /\ [Office!Next]_(Office!officeVars)
  BY <1>7, OfficeAdmits DEF Office!Next
<1>8. ASSUME NEW c \in Clerks, AnswerUnknown(c)
      PROVE  OneMessage' /\ [Office!Next]_(Office!officeVars)
  BY <1>8, OfficeReconnects DEF AnswerUnknown
<1>9. ASSUME TicketCrash \/ Reconnect
      PROVE  OneMessage' /\ [Office!Next]_(Office!officeVars)
  BY <1>9, OfficeReconnects DEF TicketCrash, Reconnect
<1>10. ASSUME NEW c \in Clerks,
              FindTicket(c) \/ ReadBooking(c) \/ WritePdf(c) \/ ReadToBoard(c) \/ PdfFails(c)
       PROVE  OneMessage' /\ [Office!Next]_(Office!officeVars)
  BY <1>10, OfficeSleeps DEF FindTicket, ReadBooking, WritePdf, ReadToBoard, PdfFails
<1>11. ASSUME NEW c \in Clerks, NEW b \in Booked, RequestTicket(c, b) \/ AskToBoard(c, b)
       PROVE  OneMessage' /\ [Office!Next]_(Office!officeVars)
  BY <1>11, OfficeSleeps DEF RequestTicket, AskToBoard
<1>12. ASSUME NEW c \in Clerks, NEW b \in Booked, Deliver(c, b)
       PROVE  OneMessage' /\ [Office!Next]_(Office!officeVars)
  BY <1>12, OfficeHandsOut
<1>13. ASSUME Recycle
       PROVE  OneMessage' /\ [Office!Next]_(Office!officeVars)
  BY <1>13, OfficeSleeps DEF Recycle
<1>14. OneMessage' /\ [Office!Next]_(Office!officeVars)
  BY <1>1, <1>2, <1>3, <1>4, <1>5, <1>6, <1>7, <1>8, <1>9, <1>10, <1>11, <1>12, <1>13
  DEF TicketsNext, ClerkStep
<1>15. \A b \in Booked : bookingRow'[b] = "PAYMENT_PENDING" => bookingRow[b] = "PAYMENT_PENDING"
  <2>1. CASE bookingRow' = bookingRow
    BY <2>1
  <2>2. ASSUME NEW x \in Booked, bookingRow' \in {[bookingRow EXCEPT ![x] = "CONFIRMED"],
                                                  [bookingRow EXCEPT ![x] = "CANCELLED"]}
        PROVE  \A b \in Booked : bookingRow'[b] = "PAYMENT_PENDING" => bookingRow[b] = "PAYMENT_PENDING"
    BY <2>2 DEF OneMessage
  <2>3. bookingRow' = bookingRow
        \/ \E x \in Booked : bookingRow' \in {[bookingRow EXCEPT ![x] = "CONFIRMED"],
                                              [bookingRow EXCEPT ![x] = "CANCELLED"]}
    BY DEF TicketsNext, ClerkStep, ticketVars, BookingIsConfirmed, BookingIsCancelled, Ack, Nack,
       AnswerUnknown, FindTicket, ReadBooking, WritePdf, CreateTicket, ReadToBoard, Board, PdfFails,
       Deliver, RequestTicket, AskToBoard, Recycle, TicketCrash, Reconnect
  <2> QED
    BY <2>1, <2>2, <2>3
<1> QED
  BY <1>14, <1>15, ReadersAreRight

\* In the beginning nothing is announced, due or issued.
LEMMA OfficeOpens == TicketsInit => MessagesInv /\ Office!Init
<1> SUFFICES ASSUME TicketsInit PROVE MessagesInv /\ Office!Init
  OBVIOUS
<1>1. OneMessage
  BY DEF TicketsInit, OneMessage
<1>2. ClerksRead
  BY FreeOK DEF TicketsInit, ClerksRead
<1>3. Announced = {} /\ Due = {} /\ Issued = [b \in Booked |-> NoTicket]
  BY TicketsAssumption DEF TicketsInit, Announced, Due, Issued
<1>4. Office!Init
  BY <1>3 DEF TicketsInit, Office!Init, Announced, Due, Issued
<1> QED
  BY <1>1, <1>2, <1>4 DEF MessagesInv

\* Each booking has one message at most, in every state.
THEOREM OneMessageEach == TicketsSpec => []MessagesInv
<1>1. TicketsInit => MessagesInv
  BY OfficeOpens
<1>2. TicketsInv /\ MessagesInv /\ [TicketsNext]_ticketVars => MessagesInv'
  BY OfficeSteps
<1> QED
  BY <1>1, <1>2, TicketsInvariance, PTL DEF TicketsSpec

\* ActsAsOffice: the handlers, however they interleave, fail and are repeated, are
\* the office that settles a confirmation once its ticket is issued, gives each
\* booking one number of its own for good, and lets one passenger through.
THEOREM ImplementsOffice == TicketsSpec => ActsAsOffice
<1>1. TicketsInit => Office!Init
  BY OfficeOpens
<1>2. TicketsInv /\ MessagesInv /\ [TicketsNext]_ticketVars => [Office!Next]_(Office!officeVars)
  BY OfficeSteps
<1> QED
  BY <1>1, <1>2, TicketsInvariance, OneMessageEach, PTL DEF TicketsSpec, ActsAsOffice, Office!Spec

\* The state of the ticket service has its type.
THEOREM TicketsTypes == TicketsSpec => []TicketsTypeOK
<1> DEFINE Bounded == ticketFaults \in 0..MaxTicketFaults /\ ticketPerils \in TicketRegimes
<1>1. TicketsInit => Bounded
  BY TicketsAssumption DEF TicketsInit
<1>2. Bounded /\ [TicketsNext]_ticketVars => Bounded'
  <2> SUFFICES ASSUME Bounded, [TicketsNext]_ticketVars PROVE Bounded'
    OBVIOUS
  <2>1. ticketPerils' = ticketPerils
        /\ \/ ticketFaults' = ticketFaults
           \/ ticketFaults < MaxTicketFaults /\ ticketFaults' = ticketFaults + 1
    BY DEF TicketsNext, ClerkStep, ticketVars, BookingIsConfirmed, BookingIsCancelled, Ack, Nack,
       AnswerUnknown, FindTicket, ReadBooking, WritePdf, CreateTicket, ReadToBoard, Board, PdfFails,
       Deliver, RequestTicket, AskToBoard, Recycle, TicketCrash, Reconnect
  <2> QED
    BY <2>1, TicketsAssumption
<1>3. TicketsInv /\ MessagesInv /\ Bounded => TicketsTypeOK
  <2> SUFFICES ASSUME TicketsInv, MessagesInv, Bounded PROVE TicketsTypeOK
    OBVIOUS
  <2>1. confirmedQueue \in [Booked -> Nat]
    BY DEF MessagesInv, OneMessage
  <2> QED
    BY <2>1 DEF TicketsInv, TicketsTyped, MessagesInv, OneMessage, ClerkRec, TicketsTypeOK
<1> QED
  BY <1>1, <1>2, <1>3, TicketsInvariance, OneMessageEach, PTL DEF TicketsSpec
=============================================================================
