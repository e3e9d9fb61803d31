------------------------- MODULE SubscriptionBilling -------------------------
(***************************************************************************)
(* The plan of one organization: its checkouts at Paystack, the webhooks   *)
(* Paystack sends, the cancellation and the check of the trial.            *)
(*                                                                         *)
(* A handler is one database session.  It reads the organization and the   *)
(* subscription, keeps what it read (expire_on_commit and autoflush are    *)
(* off), and at its end writes the columns that it changed.  Until then    *)
(* other sessions commit.  get_db commits after the client has its answer, *)
(* so Paystack may take an event for delivered that was lost.              *)
(* Paystack delivers in any order and repeats what was not acknowledged;   *)
(* an event that was handled may be repeated too, its answer being lost.   *)
(***************************************************************************)
EXTENDS Naturals, FiniteSets

CONSTANTS
    Handlers,     \* database sessions that run at the same time
    Refs,         \* references of the checkouts
    Target,       \* Target[r]: the tier that checkout r is for
    TrialTier,    \* the tier of a trial (growth)
    None,         \* no reference, no event
    MaxInFlight,  \* bound: no invoice while that many events are undelivered
    MaxFaults     \* bound: sessions lost or failed

Explorer == 0     \* the lowest of the tiers, which are ordered as in TIER_HIERARCHY

ASSUME RefsAssumption == IsFiniteSet(Refs) /\ None \notin Refs
ASSUME TiersAssumption == Target \in [Refs -> Nat \ {Explorer}] /\ TrialTier \in Nat \ {Explorer}
ASSUME BoundsAssumption == MaxInFlight \in Nat /\ MaxFaults \in Nat

Events == [type : {"charge", "create", "disable", "failed", "paid"}, ref : Refs]
Statuses == {"absent", "pending_activation", "active", "past_due", "canceled"}
Tiers == {Explorer, TrialTier} \cup {Target[r] : r \in Refs}
Organizations ==
    [tier : Tiers,           \* pricing_tier
     trial : {"active", "expired", "converted"},
     billed : BOOLEAN]       \* billing_cycle_start is set
Subscriptions ==
    [status : Statuses, ref : Refs \cup {None},  \* latest_reference
     customer : BOOLEAN,                         \* provider_customer_code is set
     code : Refs \cup {None}]                    \* the checkout whose subscription it names

ASSUME EventsAssumption == None \notin Events

Event(t, r) == [type |-> t, ref |-> r]
Absent == [status |-> "absent", ref |-> None, customer |-> FALSE, code |-> None]

VARIABLES
    org, sub,     \* committed: the organization, its subscription row (or Absent)
    trialEnd,     \* trial_end_date: "none", "ahead" or "past"
    checkout,     \* checkout[r] at Paystack: "none", "open" or "paid"
    provider,     \* the Paystack subscription of r: "none", "active" or "disabled"
    events,       \* events that Paystack still delivers
    session,      \* session[h]: what handler h is doing
    faults,       \* faults so far
    applied,      \* history: references whose payment was committed
    missed        \* history: events acknowledged and without effect

vars == <<org, sub, trialEnd, checkout, provider, events, session, faults, applied, missed>>
rows == <<org, sub>>
paystack == <<checkout, provider, events>>
history == <<applied, missed>>

Idle == [pc |-> "idle", job |-> "none", ref |-> None, event |-> None,
         org |-> [tier |-> Explorer, trial |-> "active", billed |-> FALSE], sub |-> Absent]
Sessions ==
    [pc : {"idle", "loaded", "read", "asked"},
     job : {"none", "checkout", "verify", "event", "cancel", "trial"},
     ref : Refs \cup {None}, event : Events \cup {None},
     org : Organizations, sub : Subscriptions]    \* the instances it has loaded

TypeOK ==
    /\ org \in Organizations
    /\ sub \in Subscriptions
    /\ trialEnd \in {"none", "ahead", "past"}
    /\ checkout \in [Refs -> {"none", "open", "paid"}]
    /\ provider \in [Refs -> {"none", "active", "disabled"}]
    /\ events \in SUBSET Events
    /\ session \in [Handlers -> Sessions]
    /\ faults \in 0..MaxFaults
    /\ applied \in SUBSET Refs
    /\ missed \in SUBSET Events

\* A new organization, or one whose trial was started (start_trial).
Init ==
    /\ \/ trialEnd = "none"
          /\ org = [tier |-> Explorer, trial |-> "active", billed |-> FALSE]
       \/ trialEnd = "ahead"
          /\ org = [tier |-> TrialTier, trial |-> "active", billed |-> FALSE]
    /\ sub = Absent
    /\ checkout = [r \in Refs |-> "none"]
    /\ provider = [r \in Refs |-> "none"]
    /\ events = {}
    /\ session = [h \in Handlers |-> Idle]
    /\ faults = 0
    /\ applied = {}
    /\ missed = {}

-----------------------------------------------------------------------------
(* Paystack and time                                                       *)

\* The customer pays: Paystack creates a subscription and sends two events.
Pay(r) ==
    /\ checkout[r] = "open"
    /\ checkout' = [checkout EXCEPT ![r] = "paid"]
    /\ provider' = [provider EXCEPT ![r] = "active"]
    /\ events' = events \cup {Event("charge", r), Event("create", r)}
    /\ UNCHANGED <<rows, trialEnd, session, faults, history>>

\* A further cycle: its invoice is paid or its payment fails.
Invoice(r) ==
    /\ provider[r] = "active"
    /\ Cardinality(events) < MaxInFlight
    /\ \E t \in {"paid", "failed"} : events' = events \cup {Event(t, r)}
    /\ UNCHANGED <<rows, trialEnd, checkout, provider, session, faults, history>>

Disabled(r) ==
    /\ provider[r] = "active"
    /\ provider' = [provider EXCEPT ![r] = "disabled"]
    /\ events' = events \cup {Event("disable", r)}

\* The customer, or Paystack, ends the subscription.
Disable(r) ==
    /\ Disabled(r)
    /\ UNCHANGED <<rows, trialEnd, checkout, session, faults, history>>

TrialEnds ==
    /\ trialEnd = "ahead"
    /\ trialEnd' = "past"
    /\ UNCHANGED <<rows, paystack, session, faults, history>>

-----------------------------------------------------------------------------
(* The start of a session                                                  *)

Start(h, new) ==
    /\ session[h].pc = "idle"
    /\ session' = [session EXCEPT ![h] = new]

\* upgrade_tier: only to a higher tier.
StartCheckout(h, r) ==
    /\ checkout[r] = "none"
    /\ \A g \in Handlers : session[g].job = "checkout" => session[g].ref # r
    /\ Target[r] > org.tier
    /\ Start(h, [Idle EXCEPT !.pc = "loaded", !.job = "checkout", !.ref = r])
    /\ UNCHANGED <<rows, trialEnd, paystack, faults, history>>

\* verify_and_activate_checkout, for an event or for the route; a transaction that is
\* not paid is refused.
Verify(h, r, e) ==
    /\ checkout[r] = "paid"
    /\ Start(h, [Idle EXCEPT !.pc = "loaded", !.job = "verify", !.ref = r, !.event = e,
                             !.org = org])
    /\ UNCHANGED <<rows, trialEnd, paystack, faults, history>>

\* _find_subscription_for_event: by subscription code, by customer code, or by
\* reference.  (Whether the other events carry one is up to Paystack.)
FoundByCode(r) == sub # Absent /\ (sub.code = r \/ sub.customer)
FoundByReference(r) == sub # Absent /\ sub.ref = r

\* An event about the subscription.
Deliver(h, e) ==
    /\ e \in events /\ e.type # "charge"
    /\ FoundByCode(e.ref) \/ FoundByReference(e.ref)
    /\ Start(h, [Idle EXCEPT !.pc = "read", !.job = "event", !.ref = e.ref, !.event = e,
                             !.sub = sub])
    /\ UNCHANGED <<rows, trialEnd, paystack, faults, history>>

\* No subscription is found: the answer is "ignored", with status 200.
Ignore(e) ==
    /\ e \in events /\ e.type # "charge"
    /\ ~FoundByCode(e.ref)
    /\ events' = events \ {e}
    /\ missed' = missed \cup {e}
    /\ UNCHANGED <<rows, trialEnd, checkout, provider, session, faults, applied>>

\* cancel_subscription: nothing to cancel before the subscription code is known.
StartCancel(h) ==
    /\ sub.code # None
    /\ Start(h, [Idle EXCEPT !.pc = "read", !.job = "cancel", !.sub = sub])
    /\ UNCHANGED <<rows, trialEnd, paystack, faults, history>>

\* check_all_expired_trials loads the active trials, to check one after the other.
StartTrialCheck(h) ==
    /\ org.trial = "active"
    /\ Start(h, [Idle EXCEPT !.pc = "loaded", !.job = "trial", !.org = org])
    /\ UNCHANGED <<rows, trialEnd, paystack, faults, history>>

-----------------------------------------------------------------------------
(* The rest of a session                                                   *)

\* _get_subscription_by_org, after the organization was loaded.
ReadSubscription(h) ==
    /\ session[h].pc = "loaded" /\ session[h].job \in {"checkout", "verify"}
    /\ session' = [session EXCEPT ![h].pc = "read", ![h].sub = sub]
    /\ UNCHANGED <<rows, trialEnd, paystack, faults, history>>

\* cancel_subscription asks Paystack to disable the subscription ...
AskToDisable(h) ==
    /\ session[h].pc = "read" /\ session[h].job = "cancel"
    /\ Disabled(session[h].sub.code)
    /\ session' = [session EXCEPT ![h].pc = "asked"]
    /\ UNCHANGED <<rows, trialEnd, checkout, faults, history>>

\* ... which refuses if it is disabled already.
Refused(h) ==
    /\ session[h].pc = "read" /\ session[h].job = "cancel"
    /\ provider[session[h].sub.code] # "active"
    /\ session' = [session EXCEPT ![h] = Idle]
    /\ UNCHANGED <<rows, trialEnd, paystack, faults, history>>

\* Mutant: the UPDATE sets every column, as after a merge of the instance.
WrittenAllColumns(base, old, new) == new

\* What an UPDATE of the columns changed from old to new leaves in the row.
Written(base, old, new) ==
    [col \in DOMAIN base |-> IF new[col] = old[col] THEN base[col] ELSE new[col]]

\* verify_and_activate_checkout: the tier, the billing cycle and the subscription.
ActivatedOrg(o, r) == [o EXCEPT !.tier = Target[r], !.billed = TRUE]
Activated(s, r) == [s EXCEPT !.status = "active", !.ref = r, !.customer = TRUE]

\* initialize_subscription_checkout, also over an active subscription.
Initialized(s, r) == [s EXCEPT !.status = "pending_activation", !.ref = r]

\* Mutant: a paid invoice copies the status Paystack gives it.
EventHandledPaidStatus(s, e) ==
    {[s EXCEPT !.status = IF e.type = "paid" THEN "success" ELSE "active"]}

\* The four handlers of subscription and invoice events.  subscription.create takes
\* the status of the event or keeps its own.  The webhook knows no order of events.
EventHandled(s, e) ==
    CASE e.type = "create" ->
            {[s EXCEPT !.customer = TRUE, !.code = e.ref, !.status = st] :
                st \in {"active", s.status}}
      [] e.type = "disable" -> {[s EXCEPT !.status = "canceled"]}
      [] e.type = "failed"  -> {[s EXCEPT !.status = "past_due"]}
      [] e.type = "paid"    -> {[s EXCEPT !.status = "active"]}

\* Mutant: the trial ends, the tier stays.
TrialCheckedKeepTier(o) ==
    IF trialEnd # "past" THEN o
    ELSE [o EXCEPT !.trial = IF o.billed THEN "converted" ELSE "expired"]

\* Mutant: the downgrade comes before the question whether there is a subscription.
TrialCheckedDowngradeFirst(o) ==
    IF trialEnd # "past" THEN o
    ELSE [o EXCEPT !.tier = Explorer,
                   !.trial = IF o.billed THEN "converted" ELSE "expired"]

\* check_trial_expiry, on the instance.
TrialChecked(o) ==
    CASE trialEnd # "past" -> o
      [] trialEnd = "past" /\ o.billed -> [o EXCEPT !.trial = "converted"]
      [] OTHER -> [o EXCEPT !.trial = "expired", !.tier = Explorer]

\* What the session leaves in its instances.
NewOrg(w) ==
    CASE w.job = "verify" -> ActivatedOrg(w.org, w.ref)
      [] w.job = "trial"  -> TrialChecked(w.org)
      [] OTHER            -> w.org

NewSubs(w) ==
    CASE w.job = "checkout" -> {Initialized(w.sub, w.ref)}
      [] w.job = "verify"   -> {Activated(w.sub, w.ref)}
      [] w.job = "event"    -> EventHandled(w.sub, w.event)
      [] w.job = "cancel"   -> {[w.sub EXCEPT !.status = "canceled"]}
      [] OTHER              -> {w.sub}

\* Mutant: a cancellation is recorded whatever Paystack said.
ReadyUnasked(w) == \/ w.pc = "read"
                   \/ w.pc = "asked"
                   \/ w.pc = "loaded" /\ w.job = "trial"

\* Nothing is left to read or to ask.
Ready(w) == \/ w.pc = "read" /\ w.job # "cancel"
            \/ w.pc = "asked"
            \/ w.pc = "loaded" /\ w.job = "trial"

\* Two sessions created the row of one organization: its org_id is unique.
Conflicting(w) == w.job \in {"checkout", "verify"} /\ w.sub = Absent /\ sub # Absent

\* The client of a checkout gets the link to pay.
Opened(w) == IF w.job = "checkout" THEN [checkout EXCEPT ![w.ref] = "open"] ELSE checkout

\* Flush, answer and commit.  (The flushed rows are locked until the commit, so no
\* other session comes in between.)  The answer to Paystack may be lost.
Commit(h) ==
    LET w == session[h]
    IN  /\ Ready(w) /\ ~Conflicting(w)
        /\ org' = Written(org, w.org, NewOrg(w))
        /\ \E new \in NewSubs(w) : sub' = Written(sub, w.sub, new)
        /\ checkout' = Opened(w)
        /\ events' \in {events, events \ {w.event}}
        /\ applied' = IF w.job = "verify" THEN applied \cup {w.ref} ELSE applied
        /\ session' = [session EXCEPT ![h] = Idle]
        /\ UNCHANGED <<trialEnd, provider, faults, missed>>

\* The flush of a second subscription row fails: status 500, and rollback.
Conflict(h) ==
    /\ Ready(session[h]) /\ Conflicting(session[h])
    /\ session' = [session EXCEPT ![h] = Idle]
    /\ UNCHANGED <<rows, trialEnd, paystack, faults, history>>

\* The commit fails, or the process is lost, after the answer.
LoseCommit(h) ==
    LET w == session[h]
    IN  /\ Ready(w) /\ ~Conflicting(w)
        /\ faults < MaxFaults
        /\ faults' = faults + 1
        /\ checkout' = Opened(w)
        /\ events' = events \ {w.event}
        /\ missed' = missed \cup ({w.event} \ {None})
        /\ session' = [session EXCEPT ![h] = Idle]
        /\ UNCHANGED <<rows, trialEnd, provider, applied>>

\* Mutant: the webhook logs a failure and answers 200.
AbortAcknowledged(h) ==
    /\ session[h].pc # "idle"
    /\ faults < MaxFaults
    /\ faults' = faults + 1
    /\ events' = events \ {session[h].event}
    /\ session' = [session EXCEPT ![h] = Idle]
    /\ UNCHANGED <<rows, trialEnd, checkout, provider, history>>

\* Paystack cannot be reached, or anything else fails before the answer, which is then
\* an error: Paystack repeats the event.
Abort(h) ==
    /\ session[h].pc # "idle"
    /\ faults < MaxFaults
    /\ faults' = faults + 1
    /\ session' = [session EXCEPT ![h] = Idle]
    /\ UNCHANGED <<rows, trialEnd, paystack, history>>

-----------------------------------------------------------------------------

Paystack == \E r \in Refs : Pay(r) \/ Invoice(r) \/ Disable(r)

DeliverCharge(h, r) ==
    /\ Event("charge", r) \in events
    /\ Verify(h, r, Event("charge", r))

Begin(h) ==
    \/ \E r \in Refs : StartCheckout(h, r) \/ Verify(h, r, None) \/ DeliverCharge(h, r)
    \/ \E e \in events : Deliver(h, e)
    \/ StartCancel(h)
    \/ StartTrialCheck(h)

Advance(h) ==
    ReadSubscription(h) \/ AskToDisable(h) \/ Refused(h) \/ Commit(h) \/ Conflict(h)

Next ==
    \/ Paystack
    \/ TrialEnds
    \/ \E e \in events : Ignore(e)
    \/ \E h \in Handlers : Begin(h) \/ Advance(h) \/ LoseCommit(h) \/ Abort(h)

Spec == Init /\ [][Next]_vars

-----------------------------------------------------------------------------
(* Properties                                                              *)

\* A tier above the lowest is paid for (Paid), or it is the tier of a trial that still runs:
\* whatever the order of checks and payments, nobody keeps a tier for nothing.
Paid(tier) == \E r \in Refs : checkout[r] = "paid" /\ tier = Target[r]
TierIsPaidFor ==
    \/ org.tier = Explorer
    \/ Paid(org.tier)
    \/ org.tier = TrialTier /\ org.trial = "active"

\* check_trial_expiry, "No subscription - downgrade to Explorer": who has paid is
\* never downgraded.
SubscribersKeepTier == org.billed => org.tier # Explorer

\* If a paying organization is downgraded all the same, then by a check that loaded it
\* before the payment was committed; no check that sees the payment downgrades it.
OnlyLateChecksDowngrade ==
    [][org.billed /\ org.tier # Explorer /\ org'.tier = Explorer
        => \E h \in Handlers : session[h].job = "trial" /\ ~session[h].org.billed]_vars

\* The subscription's status follows Paystack's: canceled only after a subscription
\* was disabled, in force only after a payment.
StatusFollowsPaystack ==
    /\ sub.status = "canceled" => \E r \in Refs : provider[r] = "disabled"
    /\ sub.status \in {"active", "past_due"} => \E r \in Refs : checkout[r] = "paid"

\* Once subscription.create is acknowledged, the code that a cancellation needs is
\* known, over all sessions that read the row before; unless the event found no
\* subscription or was lost after its answer.
CancelStaysPossible ==
    \A r \in Refs :
        provider[r] # "none" /\ Event("create", r) \notin events \cup missed
            => sub.code # None

\* A payment stays with Paystack, to be delivered again, until a session has applied it;
\* only an event that is lost after its answer leaves a paid checkout to the client.
PaymentIsNotForgotten ==
    \A r \in Refs :
        checkout[r] = "paid" /\ Event("charge", r) \notin events \cup missed
            => r \in applied
=============================================================================
