---------------------------- MODULE MCDeliveries ----------------------------
(* One instance for the two outgoing queues, the merchant's webhooks and the *)
(* customer's mail: they share no state, so each behaviour is about one of   *)
(* them and the state spaces add up.                                         *)
EXTENDS Deliveries, Notifications, TLC

CONSTANTS h1, c1, c2, t1, t2, m1, r1, r2, l1, v1, v2, w1, d1, d2

Paid == [event |-> "order.paid", about |-> "s1"]
TestEvent == [event |-> "test", about |-> "itself"]

\* Both payment signals announce a sale, or the merchant sends a test.
PaidOrTest == {(c1 :> Paid) @@ (c2 :> Paid), c1 :> TestEvent}

TwoVariants == (r1 :> v1) @@ (r2 :> v2)

VARIABLE scene

allVars == <<scene, deliveryVars, noticeVars>>

\* The queue a behaviour is not about starts in one state only.
Init ==
  /\ DeliveriesInit /\ NotificationsInit
  /\ \/ scene = "webhooks" /\ stock = {}
     \/ scene = "mail" /\ stock = {v1} /\ active = {} /\ c2 \in DOMAIN call
     \/ scene = "crowd" /\ active = {} /\ c2 \in DOMAIN call

\* Either one request for a variant in stock, with all that may happen to its
\* alert, or two for a scan that reads one, while stock comes and goes and
\* nobody asks for anything else that day.
Alone == request'[r2] = "none" /\ stock' = stock
Crowded == job'[l1] = JobIdle /\ recent \subseteq recent'

Webhooks == scene = "webhooks" /\ DeliveriesNext /\ UNCHANGED <<scene, noticeVars>>
Mail ==
  /\ \/ scene = "mail" /\ NotificationsNext /\ Alone
     \/ scene = "crowd" /\ NotificationsNext /\ Crowded
  /\ UNCHANGED <<scene, deliveryVars>>

\* In the queue a behaviour is not about, nothing is ever due.
Spec == Init /\ [][Webhooks \/ Mail]_allVars /\ DeliveriesFairness /\ NotificationsFairness
=============================================================================
