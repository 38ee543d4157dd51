------------------------------ MODULE Billing ------------------------------
(***************************************************************************)
(* Subscriptions between a product and Stripe: BillingClient (client.rs),  *)
(* the webhook signatures of billing/webhooks.rs and crates/webhooks, the  *)
(* delivery store, and parse_event (events.rs).  Stripe delivers an event  *)
(* late, out of order, and any number of times.                            *)
(*                                                                         *)
(* The product's webhook handler (external) verifies, drops what the store *)
(* has seen, lets record decide which of several deliveries is processed,  *)
(* and stores the parsed change.  A restart loses the in-memory store.     *)
(***************************************************************************)
EXTENDS Integers, Sequences

CONSTANTS Orgs,       \* organizations, with subscriptions of one product
          Subs,       \* the subscription ids Stripe hands out
          Tiers,      \* the plans of this instance
          Statuses,   \* what Stripe may say of a subscription that is not cancelled
          Callers,    \* client calls in flight
          Handlers,   \* webhook requests in flight
          MaxEvents,  \* events Stripe emits
          Tolerance,  \* DEFAULT_TOLERANCE_SECS, max_skew_secs
          None

VARIABLES
    customer,  \* per org: whether the product has saved a Stripe customer
    sub,       \* per id: the subscription at Stripe, None before it exists
    call,      \* the BillingClient calls in flight
    events,    \* what Stripe has emitted; an event's delivery id is its place
    seen,      \* InMemoryDeliveryStore::seen
    handler,   \* the webhook requests in flight
    row,       \* per org: the change the product has stored last
    done       \* how often this process has processed each event

bvars == <<customer, sub, call, events, seen, handler, row, done>>
stripe == <<customer, sub, call, events>>
product == <<seen, handler, row, done>>

Idle == [phase |-> "idle", event |-> 0]

Init ==
    /\ customer = [o \in Orgs |-> FALSE]
    /\ sub = [s \in Subs |-> None]
    /\ call = [c \in Callers |-> None]
    /\ events = <<>> /\ seen = {}
    /\ handler = [h \in Handlers |-> Idle]
    /\ row = [o \in Orgs |-> None]
    /\ done = [e \in 1..MaxEvents |-> 0]

-----------------------------------------------------------------------------
\* client.rs

\* The bound: once MaxEvents events are out, nothing new happens at Stripe.
Going == Len(events) < MaxEvents

\* tier_slug and subscription_metadata
SubscriptionMetadata(o, tier) == [org_id |-> o, product |-> "vault", tier |-> tier]
NoMetadata == [org_id |-> None, product |-> None, tier |-> None]

\* ensure_customer: a saved customer is retrieved, otherwise one is created, and the caller
\* saves it (external).  Two calls for one org may both create one, of which one is saved.
EnsureCustomer(c, o) ==
    /\ Going /\ call[c] = None /\ ~customer[o]
    /\ call' = [call EXCEPT ![c] = [op |-> "customer", org |-> o]]
    /\ UNCHANGED <<customer, sub, events, product>>

CreateCustomer(c) ==
    /\ call[c] # None /\ call[c].op = "customer"
    /\ customer' = [customer EXCEPT ![call[c].org] = TRUE]
    /\ call' = [call EXCEPT ![c] = None]
    /\ UNCHANGED <<sub, events, product>>

\* create_subscription: one item, metadata stamped.  Nothing keeps an org from having two;
\* the event of a creation is not one that parse_event acts on.
CreateSubscription(s, o, tier) ==
    /\ Going /\ customer[o] /\ sub[s] = None
    /\ sub' = [sub EXCEPT ![s] = [org |-> o, canceled |-> FALSE, price |-> tier,
                                  metadata |-> SubscriptionMetadata(o, tier), stamped |-> TRUE]]
    /\ UNCHANGED <<customer, call, events, product>>

\* Complete metadata, or with one field missing, or with a tier nobody knows; a product of
\* None is no slug or an unknown one.
ForeignMetadata(o, tier) ==
    LET m == SubscriptionMetadata(o, tier)
    IN  {m, [m EXCEPT !.org_id = None], [m EXCEPT !.product = None],
         [m EXCEPT !.tier = None], [m EXCEPT !.tier = "unknown"]}

\* Somebody makes a subscription without this client, in Stripe's dashboard, and fills in
\* the metadata by hand (external).
MadeElsewhere(s, o, tier) ==
    /\ Going /\ sub[s] = None
    /\ \E m \in ForeignMetadata(o, tier) :
          sub' = [sub EXCEPT ![s] = [org |-> o, canceled |-> FALSE, price |-> tier,
                                     metadata |-> m, stamped |-> FALSE]]
    /\ UNCHANGED <<customer, call, events, product>>

\* update_tier up to the retrieved subscription, whose first item will be repriced
UpdateTier(c, s, tier) ==
    /\ Going /\ call[c] = None /\ sub[s] # None
    /\ call' = [call EXCEPT ![c] = [op |-> "update", sub |-> s, tier |-> tier]]
    /\ UNCHANGED <<customer, sub, events, product>>

\* Mutant: the update keeps the metadata of the old tier.
UpdatedKeepingMetadata(r, tier) == [r EXCEPT !.price = tier, !.stamped = TRUE]

\* UpdateSubscription: the item's price and the metadata change in one request
Updated(r, tier) ==
    [org |-> r.org, canceled |-> r.canceled, price |-> tier,
     metadata |-> SubscriptionMetadata(r.org, tier), stamped |-> TRUE]

\* What Stripe tells of a subscription r with id s: the event's own fields, and in fields of
\* their own what was the case when it was emitted (history).
Told(type, s, r, shown, was, metadata, subscription, line) ==
    [type |-> type, status |-> shown, metadata |-> metadata, subscription |-> subscription,
     line |-> line, of |-> s, org |-> r.org, billed |-> r.price, was |-> was,
     stamped |-> r.stamped]

\* The status Stripe may have of a subscription now.
StatusesOf(r) == IF r.canceled THEN {"canceled"} ELSE Statuses

\* Stripe emits an event of a subscription with a copy of its metadata (external).
EmitSubscription(type, s, r, shown, was) ==
    /\ Going
    /\ events' = Append(events, Told(type, s, r, shown, was, r.metadata, s, None))

\* A paid invoice has the metadata and the id of its subscription itself, or on its first
\* line, or it names no subscription at all (external).
EmitInvoice(s, r) ==
    /\ Going
    /\ \/ events' = Append(events, Told("invoice.paid", s, r, None, None, r.metadata, s, None))
       \/ \E id \in {s, None} :
             events' = Append(events, Told("invoice.paid", s, r, None, None, NoMetadata, None,
                                           [metadata |-> r.metadata, subscription |-> id]))

\* The rest of update_tier, unless the subscription was cancelled meanwhile.
FinishUpdate(c) ==
    /\ call[c] # None /\ call[c].op = "update"
    /\ LET s == call[c].sub
       IN  IF ~sub[s].canceled
           THEN /\ sub' = [sub EXCEPT ![s] = Updated(@, call[c].tier)]
                /\ \E status \in Statuses :
                      EmitSubscription("customer.subscription.updated", s, sub'[s], status, status)
           ELSE UNCHANGED <<sub, events>>
    /\ call' = [call EXCEPT ![c] = None]
    /\ UNCHANGED <<customer, product>>

\* Stripe refuses or fails a call: BillingError::Stripe.
CallFails(c) ==
    /\ call[c] # None
    /\ call' = [call EXCEPT ![c] = None]
    /\ UNCHANGED <<customer, sub, events, product>>

\* cancel_subscription, or Stripe gives up on the payments: the object of the event may
\* still show the status before.
CancelSubscription(s) ==
    /\ sub[s] # None /\ ~sub[s].canceled
    /\ sub' = [sub EXCEPT ![s].canceled = TRUE]
    /\ \E shown \in {"canceled"} \cup Statuses :
          EmitSubscription("customer.subscription.deleted", s, sub'[s], shown, "canceled")
    /\ UNCHANGED <<customer, call, product>>

\* Stripe: the status changes, or a payment comes in, for a cancelled subscription too
\* (external).
StripeActs(s) ==
    /\ sub[s] # None
    /\ \/ \E status \in StatusesOf(sub[s]) :
             EmitSubscription("customer.subscription.updated", s, sub[s], status, status)
       \/ EmitInvoice(s, sub[s])
    /\ UNCHANGED <<customer, sub, call, product>>

\* Another service sends an event (external).
OtherServiceActs ==
    /\ Going
    /\ events' = Append(events, [type |-> "push"])
    /\ UNCHANGED <<customer, sub, call, product>>

-----------------------------------------------------------------------------
\* Signatures: a header names the age of its timestamp and the secrets it was signed with;
\* age is None if the timestamp does not parse, and v1 if nothing decodes.

\* parse_signature_header and verify_signature; verify_optional_signature without a header
VerifySignature(header, secret) ==
    IF header = None THEN "MissingHeader"
    ELSE IF header.age = None \/ header.v1 = {} THEN "MalformedHeader"
    ELSE IF header.age \notin -Tolerance..Tolerance THEN "TimestampOutOfTolerance"
    ELSE IF secret \notin header.v1 THEN "NoMatch"
    ELSE "Ok"

\* verify_github and verify_hex, with the prefix of a header that is not None
VerifyGithub(header, secret) ==
    IF header.v1 = {} THEN "MalformedHeader"
    ELSE IF secret \notin header.v1 THEN "Mismatch"
    ELSE "Ok"

\* verify_timestamped, the timestamp in a header of its own
VerifyTimestamped(header, secret) ==
    IF header.age = None THEN "MalformedTimestamp"
    ELSE IF header.age \notin -Tolerance..Tolerance THEN "Stale"
    ELSE VerifyGithub(header, secret)

Headers == [age : {None, -Tolerance, Tolerance, Tolerance + 1}, v1 : {{}, {"old"}, {"old", "new"}}]

\* The verification a delivery goes through: Stripe's for its own events, for those of other
\* services the one of crates/webhooks that suits the sender.
Verify(type, header) ==
    IF type = "push" THEN {VerifyGithub(header, "new"), VerifyTimestamped(header, "new")}
    ELSE {VerifySignature(header, "new")}

\* From<BillingError> for ApiError: Stripe retries whatever is not acknowledged
Answer(outcome) ==
    CASE outcome \in {"MissingHeader", "MalformedHeader", "MalformedTimestamp", "Stale",
                      "TimestampOutOfTolerance", "NoMatch", "Mismatch"} -> "Unauthorized"
      [] outcome \in {"MalformedPayload", "MissingField"} -> "BadRequest"
      [] OTHER -> "Ok"

\* What deliveries with all kinds of headers are answered.
Answers(type) == {Answer(outcome) : outcome \in UNION {Verify(type, header) : header \in Headers}}

-----------------------------------------------------------------------------
\* events.rs

\* tier_from_str and status_from_stripe
TierFromStr(slug) == IF slug \in {"pro", "team", "enterprise"} THEN slug ELSE "free"
StatusFromStripe(status) ==
    CASE status \in {"trialing", "active", "canceled"} -> status
      [] status \in {"past_due", "unpaid"} -> "past_due"
      [] OTHER -> "incomplete"

\* An invoice's own metadata, or if that names no org, its first line's.
InvoiceMetadata(e) ==
    IF e.metadata.org_id = None /\ e.line # None THEN e.line.metadata ELSE e.metadata

\* Its subscription, or else its first line's.
InvoiceSubscription(e) ==
    IF e.subscription = None /\ e.line # None THEN e.line.subscription ELSE e.subscription

\* SubscriptionChange.  product_from_slug knows one product here; a missing or unknown tier
\* is Plan::Free.
SubscriptionChange(metadata, subscription, status) ==
    IF metadata.org_id = None \/ metadata.product # "vault" \/ subscription = None
    THEN [kind |-> "MissingField"]
    ELSE [kind |-> "change", org |-> metadata.org_id, product |-> metadata.product,
          tier |-> IF metadata.tier = None THEN "free" ELSE TierFromStr(metadata.tier),
          status |-> status, subscription |-> subscription]

\* change_from_subscription
ChangeFromSubscription(e, override) ==
    SubscriptionChange(e.metadata, e.subscription,
                       IF override # None THEN override ELSE StatusFromStripe(e.status))

\* change_from_invoice: status Active whatever the subscription's
ChangeFromInvoice(e) == SubscriptionChange(InvoiceMetadata(e), InvoiceSubscription(e), "active")

\* parse_event
ParseEvent(e) ==
    CASE e.type = "invoice.paid" -> ChangeFromInvoice(e)
      [] e.type = "customer.subscription.updated" -> ChangeFromSubscription(e, None)
      [] e.type = "customer.subscription.deleted" -> ChangeFromSubscription(e, "canceled")
      [] OTHER -> [kind |-> "Other"]

-----------------------------------------------------------------------------
\* The webhook handler

\* An event arrives, for the first time or again; what does not verify is answered at once.
Arrive(h, e) ==
    /\ handler[h].phase = "idle" /\ e <= Len(events)
    /\ "Ok" \in Answers(events[e].type)
    /\ e \notin seen
    /\ handler' = [handler EXCEPT ![h] = [phase |-> "unseen", event |-> e]]
    /\ UNCHANGED <<stripe, seen, row, done>>

\* Mutant: what record returns is not looked at.
NewlyInsertedAlways(e) == TRUE

\* DeliveryStore::record returns true
NewlyInserted(e) == e \notin seen

Record(h) ==
    /\ handler[h].phase = "unseen"
    /\ seen' = seen \cup {handler[h].event}
    /\ handler' = [handler EXCEPT ![h] =
                      IF NewlyInserted(@.event) THEN [@ EXCEPT !.phase = "recorded"] ELSE Idle]
    /\ UNCHANGED <<stripe, row, done>>

\* parse_event, and the change is stored; an event that is not about subscriptions is only
\* acknowledged, one without metadata refused.
Process(h) ==
    /\ handler[h].phase = "recorded"
    /\ LET e == handler[h].event
           change == ParseEvent(events[e])
       IN  /\ done' = [done EXCEPT ![e] = @ + 1]
           /\ row' = IF change.kind # "change" THEN row
                     ELSE [row EXCEPT ![change.org] = [change |-> change, event |-> e]]
    /\ handler' = [handler EXCEPT ![h] = Idle]
    /\ UNCHANGED <<stripe, seen>>

Restart ==
    /\ seen' = {} /\ done' = [e \in 1..MaxEvents |-> 0]
    /\ handler' = [h \in Handlers |-> Idle]
    /\ UNCHANGED <<stripe, row>>

Next ==
    \/ \E c \in Callers : \/ CreateCustomer(c) \/ FinishUpdate(c) \/ CallFails(c)
                          \/ \E o \in Orgs : EnsureCustomer(c, o)
                          \/ \E s \in Subs, tier \in Tiers : UpdateTier(c, s, tier)
    \/ \E s \in Subs : \/ \E o \in Orgs, tier \in Tiers :
                              CreateSubscription(s, o, tier) \/ MadeElsewhere(s, o, tier)
                       \/ CancelSubscription(s) \/ StripeActs(s)
    \/ \E h \in Handlers : \/ Record(h) \/ Process(h)
                         \/ \E e \in 1..MaxEvents : Arrive(h, e)
    \/ OtherServiceActs \/ Restart

-----------------------------------------------------------------------------

\* webhooks/lib.rs:3-6, 138-147: of any number of deliveries of an event, overlapping or
\* not, one process processes one.
ProcessedOnce == \A e \in 1..MaxEvents : done[e] <= 1

\* client.rs:84-86, 137-141, events.rs:27-31: tier changes may overlap each other and a
\* cancellation, an org may have two subscriptions and metadata may be incomplete: a stored
\* change is of the org and subscription its event was emitted for.  It names the tier whose
\* price was billed then, and no paid tier unless this client stamped one or the metadata
\* agrees with the price.  It entitles the org (active, trialing) only if Stripe's status did
\* or an invoice was paid, and says canceled exactly for a cancelled subscription.
ChangesTellWhatIsBilled ==
    \A o \in Orgs : row[o] # None =>
        LET e == events[row[o].event]
            change == row[o].change
        IN  /\ e.org = o /\ change.subscription = e.of
            /\ change.tier = e.billed \/ (change.tier = "free" /\ ~e.stamped)
            /\ change.status \in {"active", "trialing"} =>
                  e.was \in {"active", "trialing"} \/ e.type = "invoice.paid"
            /\ e.type # "invoice.paid" => (change.status = "canceled" <=> e.was = "canceled")

=============================================================================
