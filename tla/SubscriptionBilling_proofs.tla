---------------------- MODULE SubscriptionBilling_proofs ----------------------
(***************************************************************************)
(* Nobody keeps a tier for nothing, no payment is forgotten, and the row   *)
(* follows Paystack, for every set of sessions and references, every tier  *)
(* and any number of faults.                                               *)
(* An UPDATE writes the changed columns only, so the invariant has to say  *)
(* what an outdated instance still knows about the row.                    *)
(***************************************************************************)
EXTENDS SubscriptionBilling, TLAPS

\* The tier is the lowest or paid for: no check and no payment undoes this.
Settled == org.tier = Explorer \/ Paid(org.tier)

\* What a session has in its hands, and what its instance still says of the row.
SessionOK(w) ==
    /\ w.job \in {"checkout", "verify"} => w.ref \in Refs
    /\ w.job = "verify" => checkout[w.ref] = "paid"
    /\ w.job = "event" => w.event \in Events /\ w.event.type # "charge"
    /\ w.job = "cancel" => w.sub.code \in Refs
    /\ w.event \in Events /\ w.event.type = "charge" => w.job = "verify" /\ w.ref = w.event.ref
    /\ w.org.billed => org.billed
    /\ w.org.tier \notin {Explorer, TrialTier} => w.org.billed
    /\ w.job = "trial" => w.org.trial = "active" /\ (w.org.tier = Explorer => Settled)

\* A checkout under way has its reference to itself.
CheckoutsApart ==
    \A h \in Handlers : session[h].job = "checkout" =>
        /\ checkout[session[h].ref] = "none"
        /\ \A g \in Handlers \ {h} :
              session[g].job = "checkout" => session[g].ref # session[h].ref

TierInv ==
    /\ TierIsPaidFor
    /\ org.billed => Settled
    /\ org.tier \notin {Explorer, TrialTier} => org.billed

IInv ==
    /\ TypeOK
    /\ \A h \in Handlers : SessionOK(session[h])
    /\ CheckoutsApart
    /\ TierInv
    /\ PaymentIsNotForgotten

-----------------------------------------------------------------------------
(* Types                                                                   *)

\* An UPDATE of the changed columns, column by column.
LEMMA WrittenOrg ==
    ASSUME NEW base \in Organizations, NEW old \in Organizations, NEW new \in Organizations
    PROVE  /\ Written(base, old, new) \in Organizations
           /\ Written(base, old, new).tier = IF new.tier = old.tier THEN base.tier ELSE new.tier
           /\ Written(base, old, new).trial = IF new.trial = old.trial THEN base.trial ELSE new.trial
           /\ Written(base, old, new).billed = IF new.billed = old.billed THEN base.billed ELSE new.billed
<1>1. DOMAIN base = {"tier", "trial", "billed"}
    BY DEF Organizations
<1>2. Written(base, old, new) =
        [tier   |-> IF new.tier = old.tier THEN base.tier ELSE new.tier,
         trial  |-> IF new.trial = old.trial THEN base.trial ELSE new.trial,
         billed |-> IF new.billed = old.billed THEN base.billed ELSE new.billed]
    BY <1>1 DEF Written
<1> QED
    BY <1>2 DEF Organizations

LEMMA WrittenSub ==
    ASSUME NEW base \in Subscriptions, NEW old \in Subscriptions, NEW new \in Subscriptions
    PROVE  /\ Written(base, old, new) \in Subscriptions
           /\ Written(base, old, new).status \in {base.status, new.status}
           /\ Written(base, old, new).code = IF new.code = old.code THEN base.code ELSE new.code
<1>1. DOMAIN base = {"status", "ref", "customer", "code"}
    BY DEF Subscriptions
<1>2. Written(base, old, new) =
        [status   |-> IF new.status = old.status THEN base.status ELSE new.status,
         ref      |-> IF new.ref = old.ref THEN base.ref ELSE new.ref,
         customer |-> IF new.customer = old.customer THEN base.customer ELSE new.customer,
         code     |-> IF new.code = old.code THEN base.code ELSE new.code]
    BY <1>1 DEF Written
<1> QED
    BY <1>2 DEF Subscriptions

LEMMA TierTypes == Explorer \in Tiers /\ TrialTier \in Tiers /\ \A r \in Refs : Target[r] \in Tiers
  BY DEF Tiers

LEMMA IdleType == Idle \in Sessions
  BY TierTypes DEF Idle, Sessions, Absent, Organizations, Subscriptions, Statuses

LEMMA TypeInit == Init => TypeOK
<1> SUFFICES ASSUME Init PROVE TypeOK
  OBVIOUS
<1>1. org \in Organizations /\ trialEnd \in {"none", "ahead", "past"}
  <2>1. \A t \in Tiers : [tier |-> t, trial |-> "active", billed |-> FALSE] \in Organizations
    BY DEF Organizations
  <2> QED
    BY <2>1, TierTypes DEF Init
<1>2. sub \in Subscriptions
  BY DEF Init, Absent, Subscriptions, Statuses
<1>3. session \in [Handlers -> Sessions]
  BY IdleType DEF Init
<1> QED
  BY <1>1, <1>2, <1>3, BoundsAssumption DEF Init, TypeOK

LEMMA EventType == \A r \in Refs : \A t \in {"charge", "create", "disable", "failed", "paid"} :
                      Event(t, r) \in Events
  BY DEF Event, Events

LEMMA StartType ==
  ASSUME TypeOK, NEW h \in Handlers, NEW w \in Sessions, Start(h, w)
  PROVE  session' \in [Handlers -> Sessions]
  BY DEF TypeOK, Start

LEMMA TypePaystack ==
  ASSUME TypeOK, Paystack \/ TrialEnds \/ \E e \in events : Ignore(e)
  PROVE  TypeOK'
<1> USE EventType DEF TypeOK, rows, paystack, history
<1>1. ASSUME NEW r \in Refs, Pay(r) PROVE TypeOK'
  BY <1>1 DEF Pay
<1>2. ASSUME NEW r \in Refs, Invoice(r) PROVE TypeOK'
  BY <1>2 DEF Invoice
<1>3. ASSUME NEW r \in Refs, Disable(r) PROVE TypeOK'
  BY <1>3 DEF Disable, Disabled
<1>4. ASSUME TrialEnds PROVE TypeOK'
  BY <1>4 DEF TrialEnds
<1>5. ASSUME NEW e \in events, Ignore(e) PROVE TypeOK'
  BY <1>5 DEF Ignore
<1> QED
  BY <1>1, <1>2, <1>3, <1>4, <1>5 DEF Paystack

LEMMA TypeBegin ==
  ASSUME TypeOK, NEW h \in Handlers, Begin(h)
  PROVE  TypeOK'
<1> USE IdleType, StartType DEF rows, paystack, history
<1>1. ASSUME NEW r \in Refs, StartCheckout(h, r) PROVE TypeOK'
  <2>1. [Idle EXCEPT !.pc = "loaded", !.job = "checkout", !.ref = r] \in Sessions
    BY TierTypes DEF Idle, Absent, Organizations, Subscriptions, Statuses, Sessions
  <2> QED
    BY <1>1, <2>1 DEF StartCheckout, TypeOK
<1>2. ASSUME NEW r \in Refs, NEW e \in Events \cup {None}, Verify(h, r, e) PROVE TypeOK'
  <2>1. [Idle EXCEPT !.pc = "loaded", !.job = "verify", !.ref = r, !.event = e,
                     !.org = org] \in Sessions
    BY TierTypes DEF Idle, Absent, Organizations, Subscriptions, Statuses, Sessions, TypeOK
  <2> QED
    BY <1>2, <2>1 DEF Verify, TypeOK
<1>3. ASSUME NEW e \in events, Deliver(h, e) PROVE TypeOK'
  <2>1. [Idle EXCEPT !.pc = "read", !.job = "event", !.ref = e.ref, !.event = e,
                     !.sub = sub] \in Sessions
    BY TierTypes DEF Idle, Absent, Organizations, Subscriptions, Statuses, Sessions, TypeOK, Events
  <2> QED
    BY <1>3, <2>1 DEF Deliver, TypeOK
<1>4. ASSUME StartCancel(h) PROVE TypeOK'
  <2>1. [Idle EXCEPT !.pc = "read", !.job = "cancel", !.sub = sub] \in Sessions
    BY TierTypes DEF Idle, Absent, Organizations, Subscriptions, Statuses, Sessions, TypeOK
  <2> QED
    BY <1>4, <2>1 DEF StartCancel, TypeOK
<1>5. ASSUME StartTrialCheck(h) PROVE TypeOK'
  <2>1. [Idle EXCEPT !.pc = "loaded", !.job = "trial", !.org = org] \in Sessions
    BY TierTypes DEF Idle, Absent, Organizations, Subscriptions, Statuses, Sessions, TypeOK
  <2> QED
    BY <1>5, <2>1 DEF StartTrialCheck, TypeOK
<1> QED
  BY <1>1, <1>2, <1>3, <1>4, <1>5, EventType DEF Begin, DeliverCharge

\* What a session leaves in its instances is an organization and a subscription.
LEMMA NewTypes ==
  ASSUME NEW w \in Sessions, w.job \in {"checkout", "verify"} => w.ref \in Refs,
         w.job = "event" => w.event \in Events /\ w.event.type # "charge"
  PROVE  NewOrg(w) \in Organizations /\ NewSubs(w) \subseteq Subscriptions
<1> USE DEF Sessions, NewOrg, NewSubs
<1>1. NewOrg(w) \in Organizations
  <2>1. TrialChecked(w.org) \in Organizations
    BY TierTypes DEF TrialChecked, Organizations
  <2>2. CASE w.job = "verify"
    <3>1. ActivatedOrg(w.org, w.ref) \in Organizations
      BY <2>2, TierTypes DEF ActivatedOrg, Organizations
    <3> QED
      BY <2>2, <3>1
  <2> QED
    BY <2>1, <2>2
<1>2. NewSubs(w) \subseteq Subscriptions
  <2>1. CASE w.job = "checkout"
    BY <2>1 DEF Initialized, Subscriptions, Statuses
  <2>2. CASE w.job = "verify"
    BY <2>2 DEF Activated, Subscriptions, Statuses
  <2>3. CASE w.job = "event"
    <3>1. EventHandled(w.sub, w.event) \subseteq Subscriptions
      <4> DEFINE e == w.event
      <4>1. CASE e.type = "create"
        <5>1. \A st \in Statuses :
                 [w.sub EXCEPT !.customer = TRUE, !.code = e.ref, !.status = st] \in Subscriptions
          BY <2>3 DEF Subscriptions, Events
        <5>2. {"active", w.sub.status} \subseteq Statuses
          BY DEF Subscriptions, Statuses
        <5>3. EventHandled(w.sub, e) =
                {[w.sub EXCEPT !.customer = TRUE, !.code = e.ref, !.status = st] :
                    st \in {"active", w.sub.status}}
          BY <4>1 DEF EventHandled
        <5> QED
          BY <5>1, <5>2, <5>3
      <4>2. CASE e.type = "disable"
        BY <2>3, <4>2 DEF EventHandled, Subscriptions, Statuses
      <4>3. CASE e.type = "failed"
        BY <2>3, <4>3 DEF EventHandled, Subscriptions, Statuses
      <4>4. CASE e.type = "paid"
        BY <2>3, <4>4 DEF EventHandled, Subscriptions, Statuses
      <4> QED
        BY <2>3, <4>1, <4>2, <4>3, <4>4 DEF Events
    <3> QED
      BY <2>3, <3>1
  <2>4. CASE w.job = "cancel"
    BY <2>4 DEF Subscriptions, Statuses
  <2> QED
    BY <2>1, <2>2, <2>3, <2>4
<1> QED
  BY <1>1, <1>2

LEMMA TypeAdvance ==
  ASSUME TypeOK, NEW h \in Handlers, SessionOK(session[h]),
         Advance(h) \/ LoseCommit(h) \/ Abort(h)
  PROVE  TypeOK'
<1> DEFINE w == session[h]
<1>w. w \in Sessions
  BY DEF TypeOK
<1>o. Opened(w) \in [Refs -> {"none", "open", "paid"}]
  BY DEF Opened, TypeOK
<1>1. ASSUME ReadSubscription(h) PROVE TypeOK'
  BY <1>1, <1>w DEF ReadSubscription, TypeOK, Sessions, rows, paystack, history
<1>2. ASSUME AskToDisable(h) PROVE TypeOK'
  <2>1. w.sub.code \in Refs
    BY <1>2 DEF AskToDisable, SessionOK
  <2>2. session' \in [Handlers -> Sessions]
    BY <1>2, <1>w DEF AskToDisable, TypeOK, Sessions
  <2> QED
    BY <1>2, <2>1, <2>2, EventType DEF AskToDisable, Disabled, TypeOK, rows, history
<1>3. ASSUME Refused(h) PROVE TypeOK'
  BY <1>3, IdleType DEF Refused, TypeOK, rows, paystack, history
<1>4. ASSUME Commit(h) PROVE TypeOK'
  <2>1. NewOrg(w) \in Organizations /\ NewSubs(w) \subseteq Subscriptions
    BY <1>w, NewTypes DEF SessionOK
  <2>2. org' \in Organizations
    BY <1>4, <1>w, <2>1, WrittenOrg DEF Commit, TypeOK, Sessions
  <2>3. sub' \in Subscriptions
    BY <1>4, <1>w, <2>1, WrittenSub DEF Commit, TypeOK, Sessions
  <2>4. applied' \subseteq Refs
    BY <1>4 DEF Commit, TypeOK, SessionOK
  <2> QED
    BY <1>4, <1>o, <2>2, <2>3, <2>4, IdleType DEF Commit, TypeOK
<1>5. ASSUME Conflict(h) PROVE TypeOK'
  BY <1>5, IdleType DEF Conflict, TypeOK, rows, paystack, history
<1>6. ASSUME LoseCommit(h) PROVE TypeOK'
  BY <1>6, <1>w, <1>o, IdleType, BoundsAssumption DEF LoseCommit, TypeOK, Sessions, rows
<1>7. ASSUME Abort(h) PROVE TypeOK'
  BY <1>7, IdleType, BoundsAssumption DEF Abort, TypeOK, rows, paystack, history
<1> QED
  BY <1>1, <1>2, <1>3, <1>4, <1>5, <1>6, <1>7 DEF Advance

-----------------------------------------------------------------------------
(* Sessions that do not take the step                                      *)

\* What never shrinks: payments, the billing cycle, a settled tier.
Grows ==
    /\ \A r \in Refs : checkout[r] = "paid" => checkout'[r] = "paid"
    /\ org.billed => org'.billed
    /\ Settled => Settled'

LEMMA Bystander ==
  ASSUME NEW w \in Sessions, SessionOK(w), Grows
  PROVE  SessionOK(w)'
  BY DEF SessionOK, Grows

LEMMA PaidGrows ==
  ASSUME \A r \in Refs : checkout[r] = "paid" => checkout'[r] = "paid"
  PROVE  \A tier : Paid(tier) => Paid(tier)'
  BY DEF Paid

\* A step that leaves the organization alone and unpays nothing.
LEMMA OrgUnchanged ==
  ASSUME TierInv, org' = org, \A r \in Refs : checkout[r] = "paid" => checkout'[r] = "paid"
  PROVE  Grows /\ TierInv'
  BY PaidGrows DEF Grows, Settled, TierInv, TierIsPaidFor

\* A session that the step leaves alone keeps what it knows.
LEMMA Others ==
  ASSUME TypeOK, NEW g \in Handlers, SessionOK(session[g]), Grows, session'[g] = session[g]
  PROVE  SessionOK(session[g])'
  BY DEF SessionOK, Grows

-----------------------------------------------------------------------------
(* Paystack and time                                                       *)

LEMMA PaystackStep ==
  ASSUME IInv, Paystack \/ TrialEnds \/ \E e \in events : Ignore(e)
  PROVE  IInv'
<1> USE DEF IInv, rows, paystack, history
<1>1. TypeOK'
  BY TypePaystack
<1>2. org' = org /\ session' = session /\ applied' = applied
  BY DEF Paystack, Pay, Invoice, Disable, TrialEnds, Ignore
<1>3. \A r \in Refs : /\ checkout[r] = "paid" => checkout'[r] = "paid"
                      /\ checkout[r] = "none" => checkout'[r] = "none"
  BY DEF Paystack, Pay, Invoice, Disable, Disabled, TrialEnds, Ignore, TypeOK
<1>4. Grows /\ TierInv'
  BY <1>2, <1>3, OrgUnchanged
<1>5. \A g \in Handlers : SessionOK(session[g])'
  BY <1>2, <1>4, Others
<1>6. CheckoutsApart'
  BY <1>2, <1>3 DEF CheckoutsApart, SessionOK
<1>7. PaymentIsNotForgotten'
  <2>1. ASSUME NEW r \in Refs, Pay(r) PROVE PaymentIsNotForgotten'
    BY <2>1, <1>2 DEF Pay, PaymentIsNotForgotten, TypeOK
  <2>2. ASSUME NEW r \in Refs, Invoice(r) \/ Disable(r) PROVE PaymentIsNotForgotten'
    BY <2>2 DEF Invoice, Disable, Disabled, PaymentIsNotForgotten
  <2>3. ASSUME TrialEnds PROVE PaymentIsNotForgotten'
    BY <2>3 DEF TrialEnds, PaymentIsNotForgotten
  <2>4. ASSUME NEW e \in events, Ignore(e) PROVE PaymentIsNotForgotten'
    BY <2>4 DEF Ignore, PaymentIsNotForgotten
  <2> QED
    BY <2>1, <2>2, <2>3, <2>4 DEF Paystack
<1> QED
  BY <1>1, <1>4, <1>5, <1>6, <1>7

-----------------------------------------------------------------------------
(* Sessions begin                                                          *)

LEMMA BeginStep ==
  ASSUME IInv, NEW h \in Handlers, Begin(h)
  PROVE  IInv'
<1> USE DEF IInv, rows, paystack, history
<1>1. TypeOK'
  BY TypeBegin
<1>2. /\ org' = org /\ checkout' = checkout /\ events' = events
      /\ applied' = applied /\ missed' = missed
      /\ \A g \in Handlers \ {h} : session'[g] = session[g]
  BY DEF Begin, DeliverCharge, StartCheckout, Verify, Deliver, StartCancel, StartTrialCheck,
         Start, TypeOK
<1>3. Grows /\ TierInv'
  BY <1>2, OrgUnchanged
<1>4. SessionOK(session[h])'
  <2> DEFINE w == session'[h]
  <2>1. ASSUME NEW r \in Refs, StartCheckout(h, r) PROVE SessionOK(session[h])'
    <3>1. w.job = "checkout" /\ w.ref = r /\ w.event = None /\ w.org = Idle.org
      BY <2>1 DEF StartCheckout, Start, TypeOK, Idle
    <3> QED
      BY <3>1, EventsAssumption DEF SessionOK, Idle
  <2>2. ASSUME NEW r \in Refs, NEW e \in {None, Event("charge", r)}, Verify(h, r, e)
        PROVE  SessionOK(session[h])'
    <3>1. w.job = "verify" /\ w.ref = r /\ w.event = e /\ w.org = org /\ checkout[r] = "paid"
      BY <2>2 DEF Verify, Start, TypeOK, Idle
    <3> QED
      BY <3>1, <1>2, EventsAssumption DEF SessionOK, Event, TierInv
  <2>3. ASSUME NEW e \in events, Deliver(h, e) PROVE SessionOK(session[h])'
    <3>1. w.job = "event" /\ w.event = e /\ w.org = Idle.org /\ e.type # "charge" /\ e \in Events
      BY <2>3 DEF Deliver, Start, TypeOK, Idle
    <3> QED
      BY <3>1 DEF SessionOK, Idle
  <2>4. ASSUME StartCancel(h) PROVE SessionOK(session[h])'
    <3>1. w.job = "cancel" /\ w.event = None /\ w.org = Idle.org /\ w.sub.code \in Refs
      BY <2>4 DEF StartCancel, Start, TypeOK, Idle, Subscriptions
    <3> QED
      BY <3>1, EventsAssumption DEF SessionOK, Idle
  <2>5. ASSUME StartTrialCheck(h) PROVE SessionOK(session[h])'
    <3>1. w.job = "trial" /\ w.event = None /\ w.org = org /\ org.trial = "active"
      BY <2>5 DEF StartTrialCheck, Start, TypeOK, Idle
    <3>2. Settled => Settled'
      BY <1>3 DEF Grows
    <3> QED
      BY <3>1, <3>2, <1>2, EventsAssumption DEF SessionOK, TierInv, Settled
  <2> QED
    BY <2>1, <2>2, <2>3, <2>4, <2>5 DEF Begin, DeliverCharge
<1>5. \A g \in Handlers : SessionOK(session[g])'
  BY <1>2, <1>3, <1>4, Others
<1>6. CheckoutsApart'
  <2>1. ASSUME NEW r \in Refs, StartCheckout(h, r) PROVE CheckoutsApart'
    <3>1. session'[h].job = "checkout" /\ session'[h].ref = r
      BY <2>1 DEF StartCheckout, Start, TypeOK, Idle
    <3> QED
      BY <2>1, <3>1, <1>2 DEF StartCheckout, CheckoutsApart
  <2>2. ASSUME session'[h].job # "checkout" PROVE CheckoutsApart'
    BY <2>2, <1>2 DEF CheckoutsApart
  <2>3. (\E r \in Refs : StartCheckout(h, r)) \/ session'[h].job # "checkout"
    BY DEF Begin, DeliverCharge, Verify, Deliver, StartCancel, StartTrialCheck, Start, TypeOK,
           Idle
  <2> QED
    BY <2>1, <2>2, <2>3
<1>7. PaymentIsNotForgotten'
  BY <1>2 DEF PaymentIsNotForgotten
<1> QED
  BY <1>1, <1>3, <1>5, <1>6, <1>7

-----------------------------------------------------------------------------
(* Sessions go on and end                                                  *)

\* A checkout that opens unpays nothing and touches no other checkout.
LEMMA OpenedOnly ==
  ASSUME IInv, NEW h \in Handlers, checkout' = Opened(session[h])
  PROVE  /\ \A r \in Refs : checkout[r] = "paid" <=> checkout'[r] = "paid"
         /\ \A r \in Refs : checkout[r] = "none" /\ checkout'[r] # "none"
               => session[h].job = "checkout" /\ session[h].ref = r
  BY DEF IInv, TypeOK, SessionOK, CheckoutsApart, Opened

\* The organization after a session's UPDATE of the changed columns.
LEMMA OrgCommitted ==
  ASSUME IInv, NEW h \in Handlers, checkout' = Opened(session[h]),
         org' = Written(org, session[h].org, NewOrg(session[h]))
  PROVE  Grows /\ TierInv'
<1> DEFINE w == session[h]
<1>w. w \in Sessions /\ w.org \in Organizations /\ SessionOK(w) /\ org \in Organizations
  BY DEF IInv, TypeOK, Sessions
<1>p. \A r \in Refs : checkout[r] = "paid" => checkout'[r] = "paid"
  BY OpenedOnly
<1>n. NewOrg(w) \in Organizations
  BY <1>w, NewTypes DEF SessionOK
<1>o. /\ org'.tier = IF NewOrg(w).tier = w.org.tier THEN org.tier ELSE NewOrg(w).tier
      /\ org'.trial = IF NewOrg(w).trial = w.org.trial THEN org.trial ELSE NewOrg(w).trial
      /\ org'.billed = IF NewOrg(w).billed = w.org.billed THEN org.billed ELSE NewOrg(w).billed
      /\ org' \in Organizations
  BY <1>w, <1>n, WrittenOrg
<1>t. TierInv
  BY DEF IInv
<1>1. CASE w.job = "verify"
  <2>1. /\ NewOrg(w).tier = Target[w.ref] /\ NewOrg(w).trial = w.org.trial
        /\ NewOrg(w).billed = TRUE /\ w.ref \in Refs /\ checkout[w.ref] = "paid"
    BY <1>1, <1>w DEF NewOrg, ActivatedOrg, SessionOK, Organizations
  <2>2. org'.trial = org.trial /\ org'.billed = TRUE
    BY <2>1, <1>o, <1>w DEF Organizations, SessionOK
  <2>3. PICK r \in Refs : w.ref = r /\ checkout[r] = "paid" /\ checkout'[r] = "paid"
    BY <2>1, <1>p
  <2>4. Settled'
    <3>1. CASE w.org.tier # Target[r]
      BY <3>1, <2>1, <2>3, <1>o DEF Settled, Paid
    <3>2. CASE w.org.tier = Target[r] /\ Target[r] # TrialTier
      <4>1. w.org.billed
        BY <3>2, <1>w, TiersAssumption DEF SessionOK
      <4>2. org'.tier = org.tier /\ Settled
        BY <4>1, <3>2, <2>1, <2>3, <1>o, <1>w, <1>t DEF SessionOK, TierInv
      <4> QED
        BY <4>2, <1>p, PaidGrows DEF Settled
    <3>3. CASE w.org.tier = Target[r] /\ Target[r] = TrialTier
      <4>1. org'.tier = org.tier
        BY <3>3, <2>1, <2>3, <1>o
      <4>2. org.tier = Explorer \/ Paid(org.tier) \/ org.tier = Target[r]
        BY <3>3, <1>t DEF TierInv, TierIsPaidFor
      <4> QED
        BY <4>1, <4>2, <2>3, <1>p DEF Settled, Paid
    <3> QED
      BY <3>1, <3>2, <3>3
  <2> QED
    BY <2>2, <2>4, <1>p DEF Grows, TierInv, TierIsPaidFor, Settled
<1>2. CASE w.job = "trial" /\ trialEnd = "past"
  <2>0. NewOrg(w) = TrialChecked(w.org) /\ w.org.trial = "active"
    BY <1>2, <1>w DEF NewOrg, SessionOK
  <2>1. CASE w.org.billed
    <3>1. NewOrg(w).tier = w.org.tier /\ NewOrg(w).billed = w.org.billed
      BY <2>0, <2>1, <1>2, <1>w DEF TrialChecked, Organizations
    <3>2. org'.tier = org.tier /\ org'.billed = org.billed /\ org.billed
      BY <3>1, <2>1, <1>o, <1>w DEF SessionOK
    <3>3. Settled /\ Settled'
      BY <3>2, <1>t, <1>p, PaidGrows DEF TierInv, Settled
    <3> QED
      BY <3>2, <3>3, <1>p DEF Grows, TierInv, TierIsPaidFor, Settled
  <2>2. CASE ~w.org.billed
    <3>1. NewOrg(w).tier = Explorer /\ NewOrg(w).billed = w.org.billed
      BY <2>0, <2>2, <1>2, <1>w DEF TrialChecked, Organizations
    <3>2. org'.billed = org.billed
      BY <3>1, <1>o
    <3>3. org'.tier = Explorer \/ (org'.tier = org.tier /\ Settled)
      BY <3>1, <1>o, <1>2, <1>w DEF SessionOK
    <3>4. Settled'
      BY <3>3, <1>p, PaidGrows DEF Settled
    <3>5. org'.tier \notin {Explorer, TrialTier} => org'.billed
      BY <3>2, <3>3, <1>t DEF TierInv
    <3> QED
      BY <3>2, <3>4, <3>5, <1>p DEF Grows, TierInv, TierIsPaidFor, Settled
  <2> QED
    BY <2>1, <2>2
<1>3. CASE w.job # "verify" /\ ~(w.job = "trial" /\ trialEnd = "past")
  <2>1. NewOrg(w) = w.org
    BY <1>3 DEF NewOrg, TrialChecked
  <2>2. org'.tier = org.tier /\ org'.trial = org.trial /\ org'.billed = org.billed
    BY <2>1, <1>o
  <2> QED
    BY <2>2, <1>p, <1>t, PaidGrows DEF Grows, TierInv, TierIsPaidFor, Settled
<1> QED
  BY <1>1, <1>2, <1>3

LEMMA IdleOK == SessionOK(Idle)
  BY EventsAssumption DEF SessionOK, Idle

\* The end of a session, whatever it has written.
LEMMA EndStep ==
  ASSUME IInv, NEW h \in Handlers, TypeOK', Grows, session' = [session EXCEPT ![h] = Idle],
         \A r \in Refs : checkout[r] = "none" /\ checkout'[r] # "none"
               => session[h].job = "checkout" /\ session[h].ref = r
  PROVE  (\A g \in Handlers : SessionOK(session[g])') /\ CheckoutsApart'
<1>1. session'[h] = Idle /\ \A g \in Handlers \ {h} : session'[g] = session[g]
  BY DEF IInv, TypeOK
<1>2. SessionOK(session[h])'
  BY <1>1, EventsAssumption DEF SessionOK, Idle
<1>3. \A g \in Handlers : SessionOK(session[g])'
  BY <1>1, <1>2, Others DEF IInv
<1>4. CheckoutsApart'
  BY <1>1 DEF IInv, CheckoutsApart, Idle, SessionOK
<1> QED
  BY <1>3, <1>4

LEMMA AdvanceStep ==
  ASSUME IInv, NEW h \in Handlers, Advance(h) \/ LoseCommit(h) \/ Abort(h)
  PROVE  IInv'
<1> DEFINE w == session[h]
<1>w. w \in Sessions /\ SessionOK(w) /\ TypeOK
  BY DEF IInv, TypeOK
<1>t. TypeOK'
  BY <1>w, TypeAdvance
<1>1. ASSUME ReadSubscription(h) \/ AskToDisable(h) PROVE IInv'
  <2>1. /\ org' = org /\ checkout' = checkout /\ applied' = applied /\ missed' = missed
        /\ events \subseteq events'
        /\ \A g \in Handlers \ {h} : session'[g] = session[g]
    BY <1>1, <1>w DEF ReadSubscription, AskToDisable, Disabled, TypeOK, rows, paystack, history
  <2>2. /\ session'[h].job = w.job /\ session'[h].ref = w.ref /\ session'[h].event = w.event
        /\ session'[h].org = w.org
        /\ w.job = "cancel" => session'[h].sub = w.sub
    BY <1>1, <1>w DEF ReadSubscription, AskToDisable, TypeOK, Sessions
  <2>3. Grows /\ TierInv'
    BY <2>1, OrgUnchanged DEF IInv
  <2>4. SessionOK(session[h])'
    BY <1>w, <2>1, <2>2, <2>3 DEF SessionOK, Grows
  <2>5. \A g \in Handlers : SessionOK(session[g])'
    BY <1>w, <2>1, <2>3, <2>4, Others DEF IInv
  <2>6. CheckoutsApart'
    BY <2>1, <2>2 DEF IInv, CheckoutsApart
  <2>7. PaymentIsNotForgotten'
    BY <2>1 DEF IInv, PaymentIsNotForgotten
  <2> QED
    BY <1>t, <2>3, <2>5, <2>6, <2>7 DEF IInv
<1>2. ASSUME Refused(h) \/ Conflict(h) \/ Abort(h) PROVE IInv'
  <2>1. /\ org' = org /\ checkout' = checkout /\ applied' = applied /\ missed' = missed
        /\ events' = events /\ session' = [session EXCEPT ![h] = Idle]
    BY <1>2 DEF Refused, Conflict, Abort, rows, paystack, history
  <2>2. Grows /\ TierInv'
    BY <2>1, OrgUnchanged DEF IInv
  <2>3. (\A g \in Handlers : SessionOK(session[g])') /\ CheckoutsApart'
    BY <1>t, <2>1, <2>2, EndStep
  <2>4. PaymentIsNotForgotten'
    BY <2>1 DEF IInv, PaymentIsNotForgotten
  <2> QED
    BY <1>t, <2>2, <2>3, <2>4 DEF IInv
<1>3. ASSUME Commit(h) PROVE IInv'
  <2>1. /\ checkout' = Opened(w) /\ org' = Written(org, w.org, NewOrg(w))
        /\ session' = [session EXCEPT ![h] = Idle]
        /\ events' \in {events, events \ {w.event}} /\ missed' = missed
        /\ applied' = IF w.job = "verify" THEN applied \cup {w.ref} ELSE applied
    BY <1>3 DEF Commit
  <2>2. Grows /\ TierInv'
    BY <2>1, OrgCommitted
  <2>3. (\A g \in Handlers : SessionOK(session[g])') /\ CheckoutsApart'
    BY <1>t, <2>1, <2>2, OpenedOnly, EndStep
  <2>4. PaymentIsNotForgotten'
    <3> SUFFICES ASSUME NEW r \in Refs, checkout'[r] = "paid",
                        Event("charge", r) \notin events' \cup missed'
                 PROVE  r \in applied'
      BY DEF PaymentIsNotForgotten
    <3>1. checkout[r] = "paid"
      BY <2>1, OpenedOnly
    <3>2. CASE w.event = Event("charge", r)
      BY <3>2, <2>1, <1>w DEF SessionOK, Event, Events
    <3>3. CASE w.event # Event("charge", r)
      BY <3>3, <3>1, <2>1 DEF IInv, PaymentIsNotForgotten
    <3> QED
      BY <3>2, <3>3
  <2> QED
    BY <1>t, <2>2, <2>3, <2>4 DEF IInv
<1>4. ASSUME LoseCommit(h) PROVE IInv'
  <2>1. /\ checkout' = Opened(w) /\ org' = org /\ applied' = applied
        /\ session' = [session EXCEPT ![h] = Idle]
        /\ events' = events \ {w.event} /\ missed' = missed \cup ({w.event} \ {None})
    BY <1>4 DEF LoseCommit, rows
  <2>2. Grows /\ TierInv'
    BY <2>1, OpenedOnly, OrgUnchanged DEF IInv
  <2>3. (\A g \in Handlers : SessionOK(session[g])') /\ CheckoutsApart'
    BY <1>t, <2>1, <2>2, OpenedOnly, EndStep
  <2>4. PaymentIsNotForgotten'
    <3> SUFFICES ASSUME NEW r \in Refs, checkout'[r] = "paid",
                        Event("charge", r) \notin events' \cup missed'
                 PROVE  r \in applied'
      BY DEF PaymentIsNotForgotten
    <3>1. checkout[r] = "paid"
      BY <2>1, OpenedOnly
    <3>2. Event("charge", r) # None
      BY EventType, EventsAssumption
    <3> QED
      BY <3>1, <3>2, <2>1 DEF IInv, PaymentIsNotForgotten
  <2> QED
    BY <1>t, <2>2, <2>3, <2>4 DEF IInv
<1> QED
  BY <1>1, <1>2, <1>3, <1>4 DEF Advance

-----------------------------------------------------------------------------
(* Theorems                                                                *)

LEMMA InvInit == Init => IInv
<1> SUFFICES ASSUME Init PROVE IInv
  OBVIOUS
<1>1. \A h \in Handlers : session[h] = Idle
  BY DEF Init
<1>2. \A h \in Handlers : SessionOK(session[h])
  BY <1>1, IdleOK
<1>3. CheckoutsApart
  BY <1>1 DEF CheckoutsApart, Idle
<1>4. TierInv /\ PaymentIsNotForgotten
  BY TiersAssumption DEF Init, TierInv, TierIsPaidFor, PaymentIsNotForgotten
<1> QED
  BY <1>2, <1>3, <1>4, TypeInit DEF IInv

LEMMA InvStutters == IInv /\ UNCHANGED vars => IInv'
<1> SUFFICES ASSUME IInv, UNCHANGED vars PROVE IInv'
  OBVIOUS
<1>1. TypeOK'
  BY DEF IInv, TypeOK, vars
<1>2. Grows /\ TierInv'
  BY OrgUnchanged DEF IInv, vars
<1>3. \A g \in Handlers : SessionOK(session[g])'
  BY <1>2, Others DEF IInv, vars
<1>4. CheckoutsApart' /\ PaymentIsNotForgotten'
  BY DEF IInv, vars, CheckoutsApart, PaymentIsNotForgotten
<1> QED
  BY <1>1, <1>2, <1>3, <1>4 DEF IInv

LEMMA InvNext == IInv /\ [Next]_vars => IInv'
  BY PaystackStep, BeginStep, AdvanceStep, InvStutters DEF Next

\* The inductive invariant: what the sessions' outdated instances still know.
THEOREM IInvCorrect == Spec => []IInv
  BY InvInit, InvNext, PTL DEF Spec

\* Every variable keeps its type.
THEOREM TypeCorrect == Spec => []TypeOK
  BY IInvCorrect, PTL DEF IInv

\* A tier above the lowest is paid for, or it is the tier of a trial that still runs
\* (verify_and_activate_checkout, check_trial_expiry), in whatever order they commit.
THEOREM TierIsPaidForCorrect == Spec => []TierIsPaidFor
<1>1. IInv => TierIsPaidFor
  BY DEF IInv, TierInv
<1> QED
  BY <1>1, IInvCorrect, PTL

\* Only a check that loaded the organization before its payment was committed downgrades
\* a paying organization (check_trial_expiry on the instances of get_active_trials).
THEOREM OnlyLateChecksDowngradeCorrect == Spec => OnlyLateChecksDowngrade
<1> DEFINE Late == \E h \in Handlers : session[h].job = "trial" /\ ~session[h].org.billed
<1>1. ASSUME IInv, [Next]_vars, org.tier # Explorer, org'.tier = Explorer
      PROVE  Late
  <2>1. PICK h \in Handlers : Commit(h)
    BY <1>1 DEF Next, Paystack, Pay, Invoice, Disable, TrialEnds, Ignore, Begin, DeliverCharge,
                StartCheckout, Verify, Deliver, StartCancel, StartTrialCheck, Advance,
                ReadSubscription, AskToDisable, Refused, Conflict, LoseCommit, Abort, vars,
                rows, paystack, history
  <2> DEFINE w == session[h]
  <2>2. /\ w \in Sessions /\ SessionOK(w) /\ NewOrg(w) \in Organizations
        /\ w.org \in Organizations /\ org \in Organizations
    BY <1>1, NewTypes DEF IInv, TypeOK, Sessions, SessionOK
  <2>3. org'.tier = IF NewOrg(w).tier = w.org.tier THEN org.tier ELSE NewOrg(w).tier
    BY <2>1, <2>2, WrittenOrg DEF Commit
  <2>4. NewOrg(w).tier = Explorer /\ w.org.tier # Explorer
    BY <1>1, <2>3
  <2>5. w.job # "verify"
    BY <2>2, <2>4, TiersAssumption DEF NewOrg, ActivatedOrg, SessionOK, Organizations
  <2>6. w.job = "trial" /\ ~w.org.billed
    BY <2>2, <2>4, <2>5 DEF NewOrg, TrialChecked, Organizations
  <2> QED
    BY <2>6
<1>2. IInv /\ [Next]_vars =>
        [org.billed /\ org.tier # Explorer /\ org'.tier = Explorer => Late]_vars
  BY <1>1
<1> QED
  BY <1>2, IInvCorrect, PTL DEF Spec, OnlyLateChecksDowngrade

\* A payment stays with Paystack until a session has applied it, or is lost after the
\* answer (paystack_webhook, get_db).
THEOREM PaymentIsNotForgottenCorrect == Spec => []PaymentIsNotForgotten
<1>1. IInv => PaymentIsNotForgotten
  BY DEF IInv
<1> QED
  BY <1>1, IInvCorrect, PTL

-----------------------------------------------------------------------------
(* The subscription row follows Paystack                                   *)

Ended == \E r \in Refs : provider[r] = "disabled"
Bought == \E r \in Refs : checkout[r] = "paid"

\* What a status and an event say of Paystack.
StatusOK(st) == (st = "canceled" => Ended) /\ (st \in {"active", "past_due"} => Bought)
EventOK(e) == (e.type = "disable" => Ended) /\ (e.type # "disable" => Bought)

\* The same of the instance, the event and the cancellation of a session; and a code
\* that the instance has, the row has too.
RowOK(w) ==
    /\ StatusOK(w.sub.status)
    /\ w.event \in Events => EventOK(w.event)
    /\ w.event \in Events /\ w.event.type = "create" => w.job = "event"
    /\ w.job = "cancel" /\ w.pc = "asked" => Ended
    /\ w.sub.code # None => sub.code # None

RowInv ==
    /\ StatusOK(sub.status)
    /\ \A e \in events : EventOK(e)
    /\ \A r \in Refs : provider[r] # "none" => checkout[r] = "paid"
    /\ \A h \in Handlers : RowOK(session[h])
    /\ CancelStaysPossible

\* Nothing is unsold, no subscription comes back, and no code is forgotten.
RowGrows == (Ended => Ended') /\ (Bought => Bought') /\ (sub.code # None => sub'.code # None)

LEMMA RowOthers ==
  ASSUME RowGrows, NEW g \in Handlers, RowOK(session[g]), session'[g] = session[g]
  PROVE  RowOK(session[g])'
  BY DEF RowOK, RowGrows, StatusOK, EventOK

\* A step that leaves the row alone.
LEMMA RowUnchanged ==
  ASSUME StatusOK(sub.status), sub' = sub, Ended => Ended', Bought => Bought'
  PROVE  RowGrows /\ StatusOK(sub.status)'
  BY DEF RowGrows, StatusOK

LEMMA RowPaystack ==
  ASSUME TypeOK, RowInv, Paystack \/ TrialEnds \/ \E e \in events : Ignore(e)
  PROVE  RowInv'
<1> USE DEF rows, paystack, history
<1>1. sub' = sub /\ session' = session
  BY DEF Paystack, Pay, Invoice, Disable, TrialEnds, Ignore
<1>2. ASSUME Ended => Ended', Bought => Bought'
      PROVE  StatusOK(sub.status)' /\ \A h \in Handlers : RowOK(session[h])'
  BY <1>1, <1>2, RowUnchanged, RowOthers DEF RowInv
<1>3. ASSUME NEW r \in Refs, Pay(r) PROVE RowInv'
  <2>1. Bought' /\ (Ended => Ended')
    BY <1>3 DEF Pay, Ended, Bought, RowInv, TypeOK
  <2>2. \A e \in events' : EventOK(e)'
    BY <1>3, <2>1 DEF Pay, RowInv, EventOK, Event
  <2>3. CancelStaysPossible'
    BY <1>3 DEF Pay, RowInv, CancelStaysPossible, TypeOK
  <2>4. \A q \in Refs : provider'[q] # "none" => checkout'[q] = "paid"
    BY <1>3 DEF Pay, RowInv, TypeOK
  <2> QED
    BY <1>2, <2>1, <2>2, <2>3, <2>4 DEF RowInv
<1>4. ASSUME NEW r \in Refs, Invoice(r) PROVE RowInv'
  <2>1. Bought' /\ (Ended => Ended') /\ provider' = provider
    BY <1>4 DEF Invoice, Ended, Bought, RowInv
  <2>2. \A e \in events' : EventOK(e)'
    BY <1>4, <2>1 DEF Invoice, RowInv, EventOK, Event
  <2>3. CancelStaysPossible'
    BY <1>4 DEF Invoice, RowInv, CancelStaysPossible
  <2>4. \A q \in Refs : provider'[q] # "none" => checkout'[q] = "paid"
    BY <1>4 DEF Invoice, RowInv, TypeOK
  <2> QED
    BY <1>2, <2>1, <2>2, <2>3, <2>4 DEF RowInv
<1>5. ASSUME NEW r \in Refs, Disable(r) PROVE RowInv'
  <2>1. Ended' /\ Bought'
    BY <1>5 DEF Disable, Disabled, Ended, Bought, RowInv, TypeOK
  <2>2. \A e \in events' : EventOK(e)'
    BY <2>1 DEF EventOK
  <2>3. CancelStaysPossible'
    BY <1>5 DEF Disable, Disabled, RowInv, CancelStaysPossible, TypeOK
  <2>4. \A q \in Refs : provider'[q] # "none" => checkout'[q] = "paid"
    BY <1>5 DEF Disable, Disabled, RowInv, TypeOK
  <2> QED
    BY <1>2, <2>1, <2>2, <2>3, <2>4 DEF RowInv
<1>6. ASSUME TrialEnds PROVE RowInv'
  BY <1>2, <1>6 DEF TrialEnds, Ended, Bought, RowInv, EventOK, CancelStaysPossible
<1>7. ASSUME NEW e \in events, Ignore(e) PROVE RowInv'
  BY <1>2, <1>7 DEF Ignore, Ended, Bought, RowInv, EventOK, CancelStaysPossible
<1> QED
  BY <1>3, <1>4, <1>5, <1>6, <1>7 DEF Paystack

LEMMA RowBegin ==
  ASSUME TypeOK, RowInv, NEW h \in Handlers, Begin(h)
  PROVE  RowInv'
<1> USE DEF rows, paystack, history
<1>1. /\ sub' = sub /\ checkout' = checkout /\ provider' = provider /\ events' = events
      /\ missed' = missed
      /\ \A g \in Handlers \ {h} : session'[g] = session[g]
  BY DEF Begin, DeliverCharge, StartCheckout, Verify, Deliver, StartCancel, StartTrialCheck,
         Start, TypeOK
<1>2. RowGrows /\ StatusOK(sub.status)'
  BY <1>1, RowUnchanged DEF RowInv, Ended, Bought
<1>3. RowOK(session[h])'
  <2> DEFINE w == session'[h]
  <2>1. ASSUME NEW r \in Refs, StartCheckout(h, r) PROVE RowOK(session[h])'
    <3>1. w.event = None /\ w.sub = Absent /\ w.job = "checkout"
      BY <2>1 DEF StartCheckout, Start, TypeOK, Idle
    <3> QED
      BY <3>1, EventsAssumption DEF RowOK, Absent, StatusOK
  <2>2. ASSUME NEW r \in Refs, NEW e \in {None, Event("charge", r)}, Verify(h, r, e)
        PROVE  RowOK(session[h])'
    <3>1. w.event = e /\ w.sub = Absent /\ w.job = "verify" /\ Bought
      BY <2>2 DEF Verify, Start, TypeOK, Idle, Bought
    <3> QED
      BY <3>1, <1>2, EventsAssumption DEF RowOK, Absent, StatusOK, EventOK, Event, RowGrows
  <2>3. ASSUME NEW e \in events, Deliver(h, e) PROVE RowOK(session[h])'
    <3>1. w.event = e /\ w.sub = sub /\ w.job = "event"
      BY <2>3 DEF Deliver, Start, TypeOK, Idle
    <3> QED
      BY <3>1, <1>1, <1>2 DEF RowOK, RowInv, StatusOK, EventOK, RowGrows
  <2>4. ASSUME StartCancel(h) PROVE RowOK(session[h])'
    <3>1. w.event = None /\ w.sub = sub /\ w.pc = "read"
      BY <2>4 DEF StartCancel, Start, TypeOK, Idle
    <3> QED
      BY <3>1, <1>1, <1>2, EventsAssumption DEF RowOK, RowInv, StatusOK, RowGrows
  <2>5. ASSUME StartTrialCheck(h) PROVE RowOK(session[h])'
    <3>1. w.event = None /\ w.sub = Absent /\ w.job = "trial"
      BY <2>5 DEF StartTrialCheck, Start, TypeOK, Idle
    <3> QED
      BY <3>1, EventsAssumption DEF RowOK, Absent, StatusOK
  <2> QED
    BY <2>1, <2>2, <2>3, <2>4, <2>5 DEF Begin, DeliverCharge
<1>4. \A g \in Handlers : RowOK(session[g])'
  BY <1>1, <1>2, <1>3, RowOthers DEF RowInv
<1> QED
  BY <1>1, <1>2, <1>4 DEF RowInv, EventOK, Ended, Bought, CancelStaysPossible

\* What a session adds to its instance of the row is true of Paystack; only
\* subscription.create writes the code, and it writes one.
LEMMA NewStatus ==
  ASSUME NEW w \in Sessions, SessionOK(w), RowOK(w), Ready(w), NEW new \in NewSubs(w)
  PROVE  /\ StatusOK(new.status)
         /\ new.code = w.sub.code \/ new.code \in Refs
         /\ w.event \in Events /\ w.event.type = "create" => new.code \in Refs
<1> USE DEF Sessions, Subscriptions
<1>1. CASE w.job = "checkout"
  BY <1>1 DEF NewSubs, Initialized, StatusOK, RowOK
<1>2. CASE w.job = "verify"
  BY <1>2 DEF NewSubs, Activated, StatusOK, RowOK, SessionOK, Bought
<1>3. CASE w.job = "event"
  <2>1. w.event \in Events /\ new \in EventHandled(w.sub, w.event)
    BY <1>3 DEF NewSubs, SessionOK
  <2>2. CASE w.event.type = "create"
    <3>1. PICK st \in {"active", w.sub.status} :
            new = [w.sub EXCEPT !.customer = TRUE, !.code = w.event.ref, !.status = st]
      BY <2>1, <2>2 DEF EventHandled
    <3>2. new.code = w.event.ref /\ w.event.ref \in Refs /\ new.status = st
      BY <2>1, <3>1 DEF Events
    <3> QED
      BY <2>1, <2>2, <3>2 DEF RowOK, StatusOK, EventOK
  <2>3. CASE w.event.type = "disable"
    BY <2>1, <2>3 DEF EventHandled, RowOK, StatusOK, EventOK
  <2>4. CASE w.event.type = "failed"
    BY <2>1, <2>4 DEF EventHandled, RowOK, StatusOK, EventOK
  <2>5. CASE w.event.type = "paid"
    BY <2>1, <2>5 DEF EventHandled, RowOK, StatusOK, EventOK
  <2> QED
    BY <1>3, <2>1, <2>2, <2>3, <2>4, <2>5 DEF Events, SessionOK
<1>4. CASE w.job = "cancel"
  BY <1>4 DEF NewSubs, Ready, RowOK, StatusOK
<1>5. CASE w.job \in {"none", "trial"}
  BY <1>5 DEF NewSubs, RowOK
<1> QED
  BY <1>1, <1>2, <1>3, <1>4, <1>5

LEMMA RowAdvance ==
  ASSUME IInv, RowInv, NEW h \in Handlers, Advance(h) \/ LoseCommit(h) \/ Abort(h)
  PROVE  RowInv'
<1> USE DEF rows, paystack, history
<1> DEFINE w == session[h]
<1>w. w \in Sessions /\ SessionOK(w) /\ RowOK(w) /\ TypeOK
  BY DEF IInv, TypeOK, RowInv
<1>i. RowOK(Idle)'
  BY EventsAssumption DEF RowOK, Idle, Absent, StatusOK
<1>1. ASSUME ReadSubscription(h) PROVE RowInv'
  <2>1. /\ UNCHANGED <<sub, checkout, provider, events, missed>>
        /\ \A g \in Handlers \ {h} : session'[g] = session[g]
        /\ session'[h] = [w EXCEPT !.pc = "read", !.sub = sub]
    BY <1>1, <1>w DEF ReadSubscription, TypeOK, Sessions
  <2>2. RowGrows /\ StatusOK(sub.status)'
    BY <2>1, RowUnchanged DEF RowInv, Ended, Bought
  <2>3. /\ session'[h].sub = sub /\ session'[h].event = w.event /\ session'[h].job = w.job
        /\ session'[h].pc = "read"
    BY <2>1, <1>w DEF Sessions
  <2>4. RowOK(session[h])'
    BY <2>1, <2>2, <2>3, <1>w DEF RowOK, RowInv, RowGrows, StatusOK, EventOK
  <2> QED
    BY <2>1, <2>2, <2>4, RowOthers DEF RowInv, EventOK, Ended, Bought, CancelStaysPossible
<1>2. ASSUME AskToDisable(h) PROVE RowInv'
  <2>1. PICK r \in Refs : Disabled(r)
    BY <1>2, <1>w DEF AskToDisable, SessionOK
  <2>2. Ended' /\ Bought' /\ UNCHANGED <<sub, checkout, missed>>
    BY <1>2, <2>1, <1>w DEF AskToDisable, Disabled, Ended, Bought, RowInv, TypeOK
  <2>3. RowGrows /\ StatusOK(sub.status)'
    BY <2>2, RowUnchanged DEF RowInv
  <2>4. RowOK(session[h])'
    <3>1. session'[h].sub = w.sub /\ session'[h].event = w.event /\ session'[h].job = w.job
      BY <1>2, <1>w DEF AskToDisable, TypeOK, Sessions
    <3> QED
      BY <3>1, <2>2, <1>w DEF RowOK, StatusOK, EventOK
  <2>5. \A g \in Handlers : RowOK(session[g])'
    BY <1>2, <1>w, <2>3, <2>4, RowOthers DEF AskToDisable, RowInv, TypeOK
  <2>6. \A e \in events' : EventOK(e)'
    BY <2>2 DEF EventOK
  <2>7. CancelStaysPossible' /\ \A q \in Refs : provider'[q] # "none" => checkout'[q] = "paid"
    BY <2>1, <2>2, <1>w DEF Disabled, RowInv, CancelStaysPossible, TypeOK
  <2> QED
    BY <2>3, <2>5, <2>6, <2>7 DEF RowInv
<1>3. ASSUME Refused(h) \/ Conflict(h) \/ Abort(h) PROVE RowInv'
  <2>1. /\ UNCHANGED <<sub, checkout, provider, events, missed>>
        /\ session' = [session EXCEPT ![h] = Idle]
    BY <1>3 DEF Refused, Conflict, Abort
  <2>2. RowGrows /\ StatusOK(sub.status)'
    BY <2>1, RowUnchanged DEF RowInv, Ended, Bought
  <2>3. \A g \in Handlers : RowOK(session[g])'
    BY <1>i, <1>w, <2>1, <2>2, RowOthers DEF RowInv, TypeOK, RowOK
  <2> QED
    BY <2>1, <2>2, <2>3 DEF RowInv, EventOK, Ended, Bought, CancelStaysPossible
<1>4. ASSUME Commit(h) \/ LoseCommit(h) PROVE RowInv'
  <2>1. /\ Ready(w) /\ checkout' = Opened(w) /\ provider' = provider
        /\ session' = [session EXCEPT ![h] = Idle] /\ events' \subseteq events
    BY <1>4 DEF Commit, LoseCommit
  <2>2. (Ended => Ended') /\ (Bought => Bought')
    BY <2>1, OpenedOnly DEF Ended, Bought
  <2>3. RowGrows /\ StatusOK(sub.status)' /\ CancelStaysPossible'
    <3>1. ASSUME LoseCommit(h) PROVE RowGrows /\ StatusOK(sub.status)' /\ CancelStaysPossible'
      <4>1. sub' = sub /\ events' = events \ {w.event} /\ missed' = missed \cup ({w.event} \ {None})
        BY <3>1 DEF LoseCommit
      <4>2. \A r \in Refs : Event("create", r) # None
        BY EventType, EventsAssumption
      <4> QED
        BY <4>1, <4>2, <2>1, <2>2, RowUnchanged DEF RowInv, CancelStaysPossible
    <3>2. ASSUME Commit(h) PROVE RowGrows /\ StatusOK(sub.status)' /\ CancelStaysPossible'
      <4>1. PICK new \in NewSubs(w) : sub' = Written(sub, w.sub, new)
        BY <3>2 DEF Commit
      <4>2. w.sub \in Subscriptions /\ new \in Subscriptions /\ sub \in Subscriptions
        BY <1>w, NewTypes DEF SessionOK, Sessions, TypeOK
      <4>3. /\ sub'.status \in {sub.status, new.status}
            /\ sub'.code = IF new.code = w.sub.code THEN sub.code ELSE new.code
        BY <4>1, <4>2, WrittenSub
      <4>4. /\ StatusOK(new.status)
            /\ new.code = w.sub.code \/ new.code \in Refs
            /\ w.event \in Events /\ w.event.type = "create" => new.code \in Refs
        BY <1>w, <2>1, NewStatus
      <4>5. RowGrows /\ StatusOK(sub.status)'
        BY <4>3, <4>4, <2>2, RefsAssumption DEF RowGrows, RowInv, StatusOK
      <4>6. w.event \in Events /\ w.event.type = "create" => sub'.code # None
        BY <4>3, <4>4, <1>w, RefsAssumption DEF RowOK
      <4>7. missed' = missed /\ events' \in {events, events \ {w.event}}
        BY <3>2 DEF Commit
      <4>8. CancelStaysPossible'
        <5> SUFFICES ASSUME NEW r \in Refs, provider[r] # "none",
                            Event("create", r) \notin events' \cup missed
                     PROVE  sub'.code # None
          BY <2>1, <4>7 DEF CancelStaysPossible
        <5>1. CASE w.event = Event("create", r)
          <6>1. w.event \in Events
            BY <5>1, EventType
          <6>2. w.event.type = "create"
            BY <5>1 DEF Event
          <6> QED
            BY <6>1, <6>2, <4>6
        <5>2. CASE w.event # Event("create", r)
          BY <5>2, <4>5, <4>7 DEF RowInv, RowGrows, CancelStaysPossible
        <5> QED
          BY <5>1, <5>2
      <4> QED
        BY <4>5, <4>8
    <3> QED
      BY <1>4, <3>1, <3>2
  <2>4. \A g \in Handlers : RowOK(session[g])'
    BY <1>i, <1>w, <2>1, <2>3, RowOthers DEF RowInv, TypeOK, RowOK
  <2>5. \A e \in events' : EventOK(e)'
    BY <2>1, <2>2 DEF RowInv, EventOK
  <2>6. \A r \in Refs : provider'[r] # "none" => checkout'[r] = "paid"
    BY <2>1, OpenedOnly DEF RowInv
  <2> QED
    BY <2>3, <2>4, <2>5, <2>6 DEF RowInv
<1> QED
  BY <1>1, <1>2, <1>3, <1>4 DEF Advance

LEMMA RowStart == Init => RowInv
<1> SUFFICES ASSUME Init PROVE RowInv
  OBVIOUS
<1>1. \A h \in Handlers : RowOK(session[h])
  BY EventsAssumption DEF Init, RowOK, Idle, Absent, StatusOK
<1> QED
  BY <1>1 DEF Init, RowInv, Absent, StatusOK, CancelStaysPossible

LEMMA RowStutters == RowInv /\ UNCHANGED vars => RowInv'
<1> SUFFICES ASSUME RowInv, UNCHANGED vars PROVE RowInv'
  OBVIOUS
<1>1. RowGrows /\ StatusOK(sub.status)'
  BY RowUnchanged DEF RowInv, vars, Ended, Bought
<1>2. \A g \in Handlers : RowOK(session[g])'
  BY <1>1, RowOthers DEF RowInv, vars
<1> QED
  BY <1>1, <1>2 DEF RowInv, vars, EventOK, Ended, Bought, CancelStaysPossible

\* The second inductive invariant: the row, the events and the outdated instances of the
\* row say nothing that is not true of Paystack.
THEOREM RowInvCorrect == Spec => []RowInv
<1>1. IInv /\ RowInv /\ [Next]_vars => RowInv'
  BY RowPaystack, RowBegin, RowAdvance, RowStutters DEF Next, IInv
<1> QED
  BY <1>1, RowStart, IInvCorrect, PTL DEF Spec

\* The status in the database never runs ahead of Paystack: no cancellation that is none
\* (cancel_subscription), no plan in force that nobody paid (the four event handlers).
THEOREM StatusFollowsPaystackCorrect == Spec => []StatusFollowsPaystack
<1>1. RowInv => StatusFollowsPaystack
  BY DEF RowInv, StatusOK, StatusFollowsPaystack, Ended, Bought
<1> QED
  BY <1>1, RowInvCorrect, PTL

\* The code of a subscription.create that was acknowledged is not overwritten by an
\* outdated session (_handle_subscription_create, cancel_subscription).
THEOREM CancelStaysPossibleCorrect == Spec => []CancelStaysPossible
<1>1. RowInv => CancelStaysPossible
  BY DEF RowInv
<1> QED
  BY <1>1, RowInvCorrect, PTL
=============================================================================
