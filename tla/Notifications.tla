---------------------------- MODULE Notifications ----------------------------
(***************************************************************************)
(* The mail one customer gets: alerts that a variant is back in stock and  *)
(* other notices, queued under an unsubscribe check and a daily cap, and   *)
(* sent by the scheduler's overlapping ticks (src/lib/notifications,       *)
(* src/lib/restock.ts, src/lib/contacts.ts).                               *)
(***************************************************************************)
EXTENDS Naturals, FiniteSets

CONSTANTS
  Requests,   \* restock_requests: "tell me when this is back"
  VariantOf,  \* [Requests -> variants]
  Others,     \* notices about something else: a recovery link, a verdict on a return
  Scanners,   \* overlapping runs of scanForRestockedVariants
  ScanLimit,  \* how many requests a scan reads at most
  Mailers,    \* overlapping runs of drainDueNotifications
  MAX_NOTIFICATIONS_PER_CONTACT_PER_DAY,
  MAX_NOTIFICATION_ATTEMPTS,
  MaxDeaths,  \* bound: how often a process dies
  MailOps

Mails == Requests \cup Others
Enqueuers == Scanners \cup Others   \* each other notice has a caller of its own
Variants == {VariantOf[r] : r \in Requests}

ASSUME NotificationsAssumption ==
  /\ Requests \cap Others = {} /\ Scanners \cap Others = {} /\ Requests = DOMAIN VariantOf
  /\ MAX_NOTIFICATIONS_PER_CONTACT_PER_DAY \in Nat \ {0}
  /\ MAX_NOTIFICATION_ATTEMPTS \in Nat \ {0} /\ MaxDeaths \in Nat /\ ScanLimit \in Nat \ {0}
  /\ IsFiniteSet(Mailers) /\ IsFiniteSet(Requests)

VARIABLES
  stock,         \* variants with units in stock
  request,       \* restock_requests.status
  unsubscribed,  \* the contact's unsubscribed_at is set
  notice,        \* notification_deliveries, at most one row per mail
  recent,        \* rows created within the last 24 hours
  job,           \* each enqueuer: [pc, todo, mail, status]
  mailer,        \* each drain under way
  deaths,
  accepted,      \* mails the provider has accepted
  late           \* history: how often a mail went out after the unsubscribing

storeVars == <<stock, request>>
noticeVars == <<storeVars, unsubscribed, notice, recent, job, mailer, deaths, accepted, late>>

NoMail == "no mail"
NoNotice == [status |-> "none", attempts |-> 0, due |-> FALSE]
JobIdle == [pc |-> "idle", todo |-> {}, mail |-> NoMail, status |-> "none"]
MailerIdle == [pc |-> "idle", todo |-> {}, mail |-> NoMail, seen |-> 0, outcome |-> "none"]

NotificationsInit ==
  /\ stock \in SUBSET Variants
  /\ request = [r \in Requests |-> "none"]
  /\ unsubscribed = FALSE
  /\ notice = [x \in Mails |-> NoNotice] /\ recent = {}
  /\ job = [e \in Enqueuers |-> JobIdle]
  /\ mailer = [d \in Mailers |-> MailerIdle]
  /\ deaths = 0 /\ accepted = {} /\ late = 0

-----------------------------------------------------------------------------
(* The customer and the shelf *)

\* The partial unique index lets a contact wait once per variant.
requestRestockAlert(r) ==
  /\ request[r] = "none"
  /\ \A q \in Requests : VariantOf[q] = VariantOf[r] => request[q] # "waiting"
  /\ request' = [request EXCEPT ![r] = "waiting"]
  /\ UNCHANGED <<stock, unsubscribed, notice, recent, job, mailer, deaths, accepted, late>>

unsubscribeContact ==
  /\ "unsubscribe" \in MailOps
  /\ ~unsubscribed /\ unsubscribed' = TRUE
  /\ UNCHANGED <<storeVars, notice, recent, job, mailer, deaths, accepted, late>>

\* Sales, releases, edits and imports.
StockChanges(v) ==
  /\ "stock" \in MailOps
  /\ stock' = IF v \in stock THEN stock \ {v} ELSE stock \cup {v}
  /\ UNCHANGED <<request, unsubscribed, notice, recent, job, mailer, deaths, accepted, late>>

DayPasses(x) ==
  /\ "day" \in MailOps
  /\ x \in recent /\ recent' = recent \ {x}
  /\ UNCHANGED <<storeVars, unsubscribed, notice, job, mailer, deaths, accepted, late>>

-----------------------------------------------------------------------------
(* scanForRestockedVariants and enqueueNotification *)

\* Faulty variant: a request that has a row already is left to whoever wrote it.
WaitingUnnoticed == {r \in Requests : request[r] = "waiting" /\ notice[r] = NoNotice}
Waiting == {r \in Requests : request[r] = "waiting"}

\* LIMIT without ORDER BY, and before anybody looks at the stock: of more requests
\* than the scan reads, the database picks any.
Batches ==
  LET waiting == Cardinality(Waiting)
  IN  {b \in SUBSET Waiting : Cardinality(b) = IF waiting <= ScanLimit THEN waiting ELSE ScanLimit}

ReadWaiting(w) ==
  /\ job[w].pc = "idle" /\ Waiting # {}
  /\ \E b \in Batches : job' = [job EXCEPT ![w].pc = "next", ![w].todo = b]
  /\ UNCHANGED <<storeVars, unsubscribed, notice, recent, mailer, deaths, accepted, late>>

\* isContactable decides; only a contactable customer's mails are counted.
Contacted(e, x) ==
  [job[e] EXCEPT !.pc = IF unsubscribed THEN "write" ELSE "count", !.mail = x,
                 !.todo = @ \ {x}, !.status = IF unsubscribed THEN "suppressed" ELSE "none"]

CheckRequest(w, r) ==
  /\ job[w].pc = "next" /\ r \in job[w].todo
  /\ \/ VariantOf[r] \in stock /\ job' = [job EXCEPT ![w] = Contacted(w, r)]
     \/ VariantOf[r] \notin stock /\ job' = [job EXCEPT ![w].todo = @ \ {r}]
  /\ UNCHANGED <<storeVars, unsubscribed, notice, recent, mailer, deaths, accepted, late>>

EndScan(w) ==
  /\ job[w].pc = "next" /\ job[w].todo = {}
  /\ job' = [job EXCEPT ![w] = JobIdle]
  /\ UNCHANGED <<storeVars, unsubscribed, notice, recent, mailer, deaths, accepted, late>>

\* Another caller's notice; a step that is run again after a crash asks again.
EnqueueOther(o) ==
  /\ job[o].pc = "idle"
  /\ job' = [job EXCEPT ![o] = Contacted(o, o)]
  /\ UNCHANGED <<storeVars, unsubscribed, notice, recent, mailer, deaths, accepted, late>>

Counted == {x \in recent : notice[x].status # "suppressed"}

CapReached(n) == n >= MAX_NOTIFICATIONS_PER_CONTACT_PER_DAY

CountRecent(e) ==
  /\ job[e].pc = "count"
  /\ job' = [job EXCEPT ![e].pc = "write",
                        ![e].status = IF CapReached(Cardinality(Counted)) THEN "suppressed" ELSE "pending"]
  /\ UNCHANGED <<storeVars, unsubscribed, notice, recent, mailer, deaths, accepted, late>>

\* onConflictDoNothing on the type, the thing it is about and the contact.
writeRow(e) ==
  LET x == job[e].mail  s == job[e].status IN
  /\ job[e].pc = "write"
  /\ IF notice[x] = NoNotice
     THEN /\ notice' = [notice EXCEPT ![x] = [status |-> s, attempts |-> 0, due |-> s = "pending"]]
          /\ recent' = recent \cup {x}
     ELSE UNCHANGED <<notice, recent>>
  /\ job' = [job EXCEPT ![e] = IF e \in Scanners THEN [@ EXCEPT !.pc = "mark", !.status = "none"] ELSE JobIdle]
  /\ UNCHANGED <<storeVars, unsubscribed, mailer, deaths, accepted, late>>

\* Whether the row is to be sent or was suppressed.
MarkNotified(w) ==
  /\ job[w].pc = "mark"
  /\ request' = [request EXCEPT ![job[w].mail] = "notified"]
  /\ job' = [job EXCEPT ![w].pc = "next", ![w].mail = NoMail]
  /\ UNCHANGED <<stock, unsubscribed, notice, recent, mailer, deaths, accepted, late>>

-----------------------------------------------------------------------------
(* drainDueNotifications and attemptSend *)

DueNotices == {x \in Mails : notice[x].status = "pending" /\ notice[x].due}

ReadDueNotices(d) ==
  /\ mailer[d].pc = "idle" /\ DueNotices # {}
  /\ mailer' = [mailer EXCEPT ![d].pc = "next", ![d].todo = DueNotices]
  /\ UNCHANGED <<storeVars, unsubscribed, notice, recent, job, deaths, accepted, late>>

\* Faulty variant: only the enqueuing looks at the contact.
SuppressedWhenQueued == FALSE
Suppressed == unsubscribed

\* A row that is no longer pending is skipped; the contact is read once more.
ReadNotice(d, x) ==
  /\ mailer[d].pc = "next" /\ x \in mailer[d].todo
  /\ \/ /\ notice[x].status = "pending"
        /\ mailer' = [mailer EXCEPT
             ![d] = [pc |-> IF Suppressed THEN "write" ELSE "send", todo |-> @.todo \ {x}, mail |-> x,
                     seen |-> notice[x].attempts, outcome |-> IF Suppressed THEN "unsubscribed" ELSE "none"]]
     \/ /\ notice[x].status # "pending"
        /\ mailer' = [mailer EXCEPT ![d].todo = @ \ {x}]
  /\ UNCHANGED <<storeVars, unsubscribed, notice, recent, job, deaths, accepted, late>>

EndMailing(d) ==
  /\ mailer[d].pc = "next" /\ mailer[d].todo = {}
  /\ mailer' = [mailer EXCEPT ![d] = MailerIdle]
  /\ UNCHANGED <<storeVars, unsubscribed, notice, recent, job, deaths, accepted, late>>

\* The provider: accepts, rejects the address (4xx), is in trouble (5xx, 429,
\* no connection), or accepts and its answer is lost.
Replies == {"2xx", "4xx", "5xx", "timeout"}

SendMail(d, o) ==
  LET out == o \in {"2xx", "timeout"} IN
  /\ mailer[d].pc = "send" /\ o \in Replies \cap MailOps
  /\ mailer' = [mailer EXCEPT ![d].pc = "write", ![d].outcome = o]
  /\ accepted' = IF out THEN accepted \cup {mailer[d].mail} ELSE accepted
  /\ late' = IF out /\ unsubscribed THEN late + 1 ELSE late
  /\ UNCHANGED <<storeVars, unsubscribed, notice, recent, job, deaths>>

hasExhaustedNotificationRetries(n) == n >= MAX_NOTIFICATION_ATTEMPTS
isRetryableSendFailure(o) == o \in {"5xx", "timeout"}

\* The columns each outcome writes, over the row as it is by then.
AfterMail(old, n, o) ==
  CASE o = "unsubscribed" -> [old EXCEPT !.status = "suppressed", !.due = FALSE]
    [] o = "2xx"          -> [status |-> "sent", attempts |-> n, due |-> FALSE]
    [] o = "4xx"          -> [status |-> "failed", attempts |-> n, due |-> FALSE]
    [] isRetryableSendFailure(o) /\ hasExhaustedNotificationRetries(n) ->
                             [status |-> "exhausted", attempts |-> n, due |-> FALSE]
    [] OTHER              -> [old EXCEPT !.attempts = n, !.due = FALSE]

WriteSent(d) ==
  /\ mailer[d].pc = "write"
  /\ notice' = [notice EXCEPT ![mailer[d].mail] = AfterMail(@, mailer[d].seen + 1, mailer[d].outcome)]
  /\ mailer' = [mailer EXCEPT ![d] = [MailerIdle EXCEPT !.pc = "next", !.todo = mailer[d].todo]]
  /\ UNCHANGED <<storeVars, unsubscribed, recent, job, deaths, accepted, late>>

\* The shortest backoff is five minutes; nobody is still sending the row by then.
NoticeDue(x) ==
  /\ notice[x].status = "pending" /\ ~notice[x].due
  /\ \A d \in Mailers : mailer[d].mail # x
  /\ notice' = [notice EXCEPT ![x].due = TRUE]
  /\ UNCHANGED <<storeVars, unsubscribed, recent, job, mailer, deaths, accepted, late>>

-----------------------------------------------------------------------------
(* The platform stops a process, or a statement throws *)

Dies ==
  /\ deaths < MaxDeaths /\ deaths' = deaths + 1
  /\ \/ \E e \in Enqueuers : job[e].pc # "idle" /\ job' = [job EXCEPT ![e] = JobIdle] /\ UNCHANGED mailer
     \/ \E d \in Mailers : mailer[d].pc # "idle" /\ mailer' = [mailer EXCEPT ![d] = MailerIdle] /\ UNCHANGED job
  /\ UNCHANGED <<storeVars, unsubscribed, notice, recent, accepted, late>>

EnqueueStep(e) == CountRecent(e) \/ writeRow(e)
ScanStep(w) ==
  ReadWaiting(w) \/ EndScan(w) \/ EnqueueStep(w) \/ MarkNotified(w) \/ \E r \in Requests : CheckRequest(w, r)
MailStep(d) ==
  \/ ReadDueNotices(d) \/ EndMailing(d) \/ WriteSent(d)
  \/ \E x \in Mails : ReadNotice(d, x)
  \/ \E o \in Replies : SendMail(d, o)

NotificationsNext ==
  \/ \E r \in Requests : requestRestockAlert(r)
  \/ unsubscribeContact
  \/ \E v \in Variants : StockChanges(v)
  \/ \E w \in Scanners : ScanStep(w)
  \/ \E o \in Others : EnqueueOther(o) \/ EnqueueStep(o)
  \/ \E d \in Mailers : MailStep(d)
  \/ \E x \in Mails : DayPasses(x) \/ NoticeDue(x)
  \/ Dies

\* The scheduler keeps starting its jobs, and time passes.
NotificationsFairness ==
  /\ \A w \in Scanners : WF_noticeVars(ScanStep(w))
  /\ \A d \in Mailers : WF_noticeVars(MailStep(d))
  /\ \A x \in Mails : WF_noticeVars(NoticeDue(x))

NotificationsSpec == NotificationsInit /\ [][NotificationsNext]_noticeVars /\ NotificationsFairness

-----------------------------------------------------------------------------
NotificationsTypeOK ==
  /\ stock \subseteq Variants /\ recent \cup accepted \subseteq Mails
  /\ \A r \in Requests : request[r] \in {"none", "waiting", "notified"}
  /\ \A x \in Mails : /\ notice[x].status \in {"none", "pending", "sent", "failed", "exhausted", "suppressed"}
                      /\ notice[x].attempts \in 0..MAX_NOTIFICATION_ATTEMPTS
                      /\ notice[x].due => notice[x].status = "pending"
                      /\ x \in recent => notice[x] # NoNotice

\* After the customer unsubscribed, whatever is queued or gets queued, each drain
\* sends at most the one mail it was already sending.
UnsubscribedIsLeftAlone == late <= Cardinality(Mailers)

\* Who waits for a variant that comes back for good gets an alert that is sent,
\* given up or suppressed, even if the scan or the drain dies half-way -- provided
\* that in the end no more requests wait than one scan reads.  While more do, the
\* scan may read the same ones for ever, those whose variant never comes back.
Settled(x) == notice[x].status \in {"sent", "failed", "exhausted", "suppressed"}

RestockIsAnnounced ==
  \A r \in Requests :
    <>[](VariantOf[r] \in stock) /\ <>[](Cardinality(Waiting) <= ScanLimit) =>
      (request[r] = "waiting" ~> request[r] = "notified" /\ Settled(r))

\* The mail queue is at least once, like the webhooks'.
ClosedMail(x) ==
  CASE notice[x].status = "sent" -> "delivered"
    [] notice[x].status \in {"failed", "exhausted", "suppressed"} -> "given up"
    [] OTHER -> "open"

MailQueue == INSTANCE AtLeastOnce WITH
  Messages <- Mails, taken <- {x \in Mails : notice[x] # NoNotice}, heard <- accepted,
  closed <- [x \in Mails |-> ClosedMail(x)]

MailIsAtLeastOnce == MailQueue!Spec
=============================================================================
