------------------------------ MODULE Webhooks ------------------------------
(***************************************************************************)
(* Subscriptions in memory and the delivery of events to them: fire_event  *)
(* takes the active subscribers of the event's type and posts to all of    *)
(* them side by side, each with up to three attempts and a pause before    *)
(* the next.  A subscriber may take the event and fail to say so.          *)
(***************************************************************************)
EXTENDS Integers, Sequences, FiniteSets

CONSTANTS
  Subscriptions, \* the subscriptions that may be registered
  EventTypes,    \* _VALID_EVENTS
  MaxFired,      \* bound on the events fired
  MaxRetries     \* _MAX_RETRIES, 3 in the code

ASSUME WebhookAssumption ==
  /\ MaxFired \in Nat
  /\ MaxRetries \in Nat \ {0}

VARIABLES
  subs,       \* subs[s]: the event types of a registered one, {} otherwise
  used,       \* subscriptions that have been registered: ids are drawn once
  fired,      \* events fired so far
  deliveries, \* deliveries[e][s]: the delivery of event e to s, or NoDelivery
  returned    \* the events whose fire_event has returned

webhookVars == <<subs, used, fired, deliveries, returned>>

\* What became of a post, as the sender and as the subscriber see it.
Answers == {"ok", "refused", "unanswered", "lost"}
Took(answer) == answer \in {"ok", "unanswered"}

Stages == {"posting", "pausing", "ended"}
NoDelivery == [stage |-> "none", attempt |-> 0, posts |-> <<>>]
Events == 1..MaxFired

WebhookInit ==
  /\ subs = [s \in Subscriptions |-> {}]
  /\ used = {}
  /\ fired = 0
  /\ deliveries = [e \in Events |-> [s \in Subscriptions |-> NoDelivery]]
  /\ returned = {}

\* POST /webhooks; unknown event types are refused with 422.
Register(s) ==
  /\ s \notin used
  /\ used' = used \cup {s}
  /\ \E types \in SUBSET EventTypes : subs' = [subs EXCEPT ![s] = types]
  /\ UNCHANGED <<fired, deliveries, returned>>

\* DELETE /webhooks/{id}; 404 where there is none.
Unregister(s) ==
  /\ s \in used
  /\ subs' = [subs EXCEPT ![s] = {}]
  /\ UNCHANGED <<used, fired, deliveries, returned>>

ListActive(type) == {s \in Subscriptions : type \in subs[s]}

\* fire_event: a task for each subscriber; without any it returns at once.
FireEvent(type) ==
  /\ fired < MaxFired
  /\ fired' = fired + 1
  /\ deliveries' = [deliveries EXCEPT ![fired'] =
       [s \in Subscriptions |->
          IF s \in ListActive(type)
          THEN [stage |-> "posting", attempt |-> 1, posts |-> <<>>]
          ELSE NoDelivery]]
  /\ UNCHANGED <<subs, used, returned>>

\* Mutation: the last attempt is followed by another.
OnceMore(d) == d.attempt <= MaxRetries

MayRetry(d) == d.attempt < MaxRetries

Delivered(answer) == answer = "ok"

\* A post ends: with a status below 300, with another one, with a timeout
\* after the subscriber took it, or without having reached the subscriber.
Post(e, s) ==
  LET d == deliveries[e][s] IN
  /\ d.stage = "posting"
  /\ \E answer \in Answers :
       deliveries' = [deliveries EXCEPT ![e][s] =
         [d EXCEPT !.posts = Append(@, answer),
                   !.stage = IF Delivered(answer) \/ ~MayRetry(d) THEN "ended"
                             ELSE "pausing"]]
  /\ UNCHANGED <<subs, used, fired, returned>>

\* The pause is over: the next attempt, whoever is subscribed by now.
Retry(e, s) ==
  /\ deliveries[e][s].stage = "pausing"
  /\ deliveries' = [deliveries EXCEPT ![e][s].stage = "posting",
                                      ![e][s].attempt = @ + 1]
  /\ UNCHANGED <<subs, used, fired, returned>>

\* Mutation: fire_event waits until every subscriber has acknowledged.
Unacknowledged(e) ==
  \E s \in Subscriptions : /\ deliveries[e][s].stage # "none"
                            /\ \A n \in DOMAIN deliveries[e][s].posts :
                                 deliveries[e][s].posts[n] # "ok"

Underway(e) == \E s \in Subscriptions : deliveries[e][s].stage \in {"posting", "pausing"}

\* gather has the result of every delivery.
FireReturns(e) ==
  /\ e <= fired
  /\ e \notin returned
  /\ ~Underway(e)
  /\ returned' = returned \cup {e}
  /\ UNCHANGED <<subs, used, fired, deliveries>>

\* Subscriptions, deliveries under way and their callers are gone.
WebhookRestart ==
  /\ subs' = [s \in Subscriptions |-> {}]
  /\ deliveries' = [e \in Events |-> [s \in Subscriptions |->
       IF deliveries[e][s].stage \in {"posting", "pausing"} THEN NoDelivery
       ELSE deliveries[e][s]]]
  /\ returned' = 1..fired
  /\ UNCHANGED <<used, fired>>

Deliver(e, s) == Post(e, s) \/ Retry(e, s)

WebhookNext ==
  \/ \E s \in Subscriptions : Register(s) \/ Unregister(s)
  \/ \E type \in EventTypes : FireEvent(type)
  \/ \E e \in Events, s \in Subscriptions : Deliver(e, s)
  \/ \E e \in Events : FireReturns(e)
  \/ WebhookRestart

WebhookSpec == WebhookInit /\ [][WebhookNext]_webhookVars

\* The event loop runs the deliveries: a post has a timeout, a pause is finite.
DeliveryProgress ==
  \A e \in Events :
    /\ WF_webhookVars(FireReturns(e))
    /\ \A s \in Subscriptions : WF_webhookVars(Deliver(e, s))

FairWebhookSpec == WebhookSpec /\ DeliveryProgress

-----------------------------------------------------------------------------
WebhookTypeOK ==
  /\ subs \in [Subscriptions -> SUBSET EventTypes]
  /\ used \subseteq Subscriptions
  /\ fired \in 0..MaxFired
  /\ \A e \in Events, s \in Subscriptions :
       /\ deliveries[e][s].stage \in Stages \cup {"none"}
       /\ deliveries[e][s].attempt \in 0..MaxRetries
       /\ deliveries[e][s].posts \in Seq(Answers)
  /\ returned \subseteq 1..fired

Copies(e, s) ==
  Cardinality({n \in DOMAIN deliveries[e][s].posts : Took(deliveries[e][s].posts[n])})

\* A delivery ends because the subscriber has said that it took the event,
\* in its last post and in none before, or because three posts were not
\* acknowledged.  So a subscriber gets an event three times at most, and
\* again only if its answer to the copy before was lost.
EndedRightly ==
  \A e \in Events, s \in Subscriptions :
    LET d == deliveries[e][s] IN
    /\ \A n \in 1..Len(d.posts) - 1 : d.posts[n] # "ok"
    /\ d.stage = "ended" =>
         d.posts[Len(d.posts)] = "ok" \/ Len(d.posts) = MaxRetries
    /\ Copies(e, s) <= MaxRetries

\* One subscriber that hangs or refuses holds the others up by its pauses
\* only: fire_event returns to its caller, unless the process is gone first.
EventsReturn == \A e \in Events : (fired >= e) ~> (e \in returned)
=============================================================================
