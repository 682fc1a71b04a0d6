------------------------------- MODULE Billing -------------------------------
(***************************************************************************)
(* The plan of one organization: the handlers of handler/billing.go, one   *)
(* statement of store/billing.go and store/coupon.go at a time, against    *)
(* Razorpay, which charges subscriptions and reports on them by webhooks.  *)
(*                                                                         *)
(* A webhook may come late, out of order or twice.  The handler answers    *)
(* 200 whatever its statements do, so a webhook whose UPDATE fails is not  *)
(* sent again.  A subscription carries the id of the Razorpay plan it was  *)
(* created for, which PlanFromRazorpayPlanID reads back as its tier, as    *)
(* long as that id is the one configured for it.  The audit event each     *)
(* endpoint ends with is left to module Audit.                             *)
(***************************************************************************)
EXTENDS Integers, FiniteSets

CONSTANTS
    Requests,        \* calls of the billing endpoints, one each
    Subscriptions,   \* identifiers Razorpay may hand out
    NoSubscription,  \* rzp_subscription_id is NULL
    Tier,            \* the tier of each subscription
    MaxFaults,       \* bound on failed statements, lost answers, repeated webhooks
                     \* and changes of the configured plan ids
    MaxHooks         \* bound on webhooks under way

Paid == {"starter", "business"}

ASSUME BillingAssumption ==
    /\ NoSubscription \notin Subscriptions
    /\ Tier \in [Subscriptions -> Paid]
    /\ MaxFaults \in Nat /\ MaxHooks \in Nat \ {0}

VARIABLES
    org,             \* the organizations row: plan_tier, rzp_subscription_id, status
    redeemed,        \* coupon_redemptions: the tiers of the coupons redeemed
    rzp,             \* Razorpay's state of each subscription (external); "paused"
                     \* stands for pending and halted, too
    retired,         \* subscriptions whose plan id is not configured (any more)
    hooks,           \* webhooks on their way or being handled
    call,            \* where a request is, and the plan and subscription it holds
    paid,            \* subscriptions that have been paid for (external)
    slipped,         \* the plan has been written wrongly since it was last
                     \* written rightly (auxiliary)
    missed,          \* the status was last written wrongly: its UPDATE failed, or
                     \* wrote active for an unknown plan id (auxiliary)
    faults

vars == <<org, redeemed, rzp, retired, hooks, call, paid, slipped, missed, faults>>

Plan == Paid \cup {"free"}
Sub  == Subscriptions \cup {NoSubscription}
Org  == [plan : Plan, sub : Sub,
         status : {"none", "created", "active", "paused", "cancelled"}]
Hook == [event : {"active", "ended", "paused"}, sub : Subscriptions,
         at : {"sent", "plan", "status"}]
Call == [at : {"idle", "read", "store", "apply", "cancel", "plan", "status", "done"},
         plan : Plan, sub : Sub]

TypeOK ==
    /\ org \in Org
    /\ redeemed \subseteq Paid
    /\ rzp \in [Subscriptions -> {"none", "created", "active", "paused", "ended"}]
    /\ retired \subseteq Subscriptions
    /\ hooks \subseteq Hook
    /\ call \in [Requests -> Call]
    /\ paid \subseteq Subscriptions
    /\ slipped \in BOOLEAN /\ missed \in BOOLEAN
    /\ faults \in 0 .. MaxFaults

Quiet(place) == [at |-> place, plan |-> "free", sub |-> NoSubscription]

Init ==
    /\ org = [plan |-> "free", sub |-> NoSubscription, status |-> "none"]
    /\ redeemed = {} /\ paid = {} /\ retired = {}
    /\ rzp = [s \in Subscriptions |-> "none"]
    /\ hooks = {}
    /\ call = [r \in Requests |-> Quiet("idle")]
    /\ slipped = FALSE /\ missed = FALSE
    /\ faults = 0

-----------------------------------------------------------------------------
Finish(r) == call' = [call EXCEPT ![r] = Quiet("done")]
Goto(r, place) == call' = [call EXCEPT ![r].at = place]
At(r, place) == call[r].at = place

Fault == faults < MaxFaults /\ faults' = faults + 1

Send(e, s) ==
    /\ hooks' = hooks \cup {[event |-> e, sub |-> s, at |-> "sent"]}
    /\ Cardinality(hooks') <= MaxHooks

UpdateOrgBilling(t, s, status) == org' = [plan |-> t, sub |-> s, status |-> status]

\* UpdateOrgPlan(free, 7), its error ignored.
UpdateOrgPlan ==
    \/ org' = [org EXCEPT !.plan = "free"] /\ slipped' = FALSE /\ UNCHANGED faults
    \/ Fault /\ slipped' = TRUE /\ UNCHANGED org

\* Its error is ignored.
UpdateOrgSubscriptionStatus(status) ==
    \/ org' = [org EXCEPT !.status = status] /\ missed' = FALSE /\ UNCHANGED faults
    \/ Fault /\ missed' = TRUE /\ UNCHANGED org

\* CreateSubscription: Razorpay refuses, or creates a subscription and its answer
\* arrives or is lost.
Subscribe(r) ==
    /\ At(r, "idle")
    /\ \/ \E s \in Subscriptions :
             /\ rzp[s] = "none"
             /\ rzp' = [rzp EXCEPT ![s] = "created"]
             /\ \/ /\ call' = [call EXCEPT ![r] = [@ EXCEPT !.at = "read", !.sub = s]]
                   /\ UNCHANGED faults
                \/ Fault /\ Finish(r)
       \/ Finish(r) /\ UNCHANGED <<rzp, faults>>
    /\ UNCHANGED <<org, redeemed, hooks, paid, slipped, missed, retired>>

\* GetOrganizationByID.
ReadOrganization(r) ==
    /\ At(r, "read")
    /\ \/ /\ call' = [call EXCEPT ![r] = [@ EXCEPT !.at = "store", !.plan = org.plan]]
          /\ UNCHANGED faults
       \/ Fault /\ Finish(r)
    /\ UNCHANGED <<org, redeemed, rzp, hooks, paid, slipped, missed, retired>>

\* Mutant: the plan subscribed to is granted before it is paid.
StoreSubscriptionGrants(r) ==
    LET s == call[r].sub IN
    /\ At(r, "store")
    /\ UpdateOrgBilling(Tier[s], s, "created")
    /\ Finish(r)
    /\ UNCHANGED <<redeemed, rzp, hooks, paid, slipped, missed, faults, retired>>

\* UpdateOrgBilling: the new subscription, and the plan as it was read, over
\* whatever a webhook, a coupon or a cancellation has written meanwhile.
StoreSubscription(r) ==
    /\ At(r, "store")
    /\ \/ /\ UpdateOrgBilling(call[r].plan, call[r].sub, "created")
          /\ slipped' = (slipped \/ call[r].plan # org.plan)
          /\ missed' = FALSE
          /\ UNCHANGED faults
       \/ Fault /\ UNCHANGED <<org, slipped, missed>>
    /\ Finish(r)
    /\ UNCHANGED <<redeemed, rzp, hooks, paid, retired>>

-----------------------------------------------------------------------------
\* CancelSubscription: nothing to cancel, or Razorpay first if there is a
\* subscription.
BeginCancel(r) ==
    LET nothing == org.plan = "free" /\ (org.status = "cancelled" \/ org.sub = NoSubscription)
        next    == IF org.sub = NoSubscription THEN "plan" ELSE "cancel"
    IN  /\ At(r, "idle")
        /\ \/ nothing /\ Finish(r)
           \/ ~nothing /\ call' = [call EXCEPT ![r] = [@ EXCEPT !.at = next, !.sub = org.sub]]
        /\ UNCHANGED <<org, redeemed, rzp, hooks, paid, slipped, missed, faults, retired>>

\* Razorpay ends the subscription at once and says so by webhook, too; or it does
\* not, which is logged and changes nothing.
CancelAtRazorpay(r) ==
    LET s == call[r].sub IN
    /\ At(r, "cancel")
    /\ \/ /\ rzp[s] \in {"created", "active", "paused"}
          /\ rzp' = [rzp EXCEPT ![s] = "ended"]
          /\ Send("ended", s)
       \/ UNCHANGED <<rzp, hooks>>
    /\ call' = [call EXCEPT ![r] = Quiet("plan")]
    /\ UNCHANGED <<org, redeemed, paid, slipped, missed, faults, retired>>

CancelPlan(r) ==
    /\ At(r, "plan")
    /\ UpdateOrgPlan
    /\ Goto(r, "status")
    /\ UNCHANGED <<redeemed, rzp, hooks, paid, missed, retired>>

CancelStatus(r) ==
    /\ At(r, "status")
    /\ UpdateOrgSubscriptionStatus("cancelled")
    /\ Finish(r)
    /\ UNCHANGED <<redeemed, rzp, hooks, paid, slipped, retired>>

-----------------------------------------------------------------------------
AlreadyActive(t) == org.plan = t /\ org.status = "active"

\* RedeemCoupon: the transaction reads the organization and refuses a plan that is
\* already active ...
BeginRedeem(r, t) ==
    /\ At(r, "idle")
    /\ IF AlreadyActive(t)
       THEN Finish(r)
       ELSE call' = [call EXCEPT ![r] = [@ EXCEPT !.at = "apply", !.plan = t]]
    /\ UNCHANGED <<org, redeemed, rzp, hooks, paid, slipped, missed, faults, retired>>

\* ... then records the redemption and rewrites the row, both or neither.
ApplyCoupon(r) ==
    LET t == call[r].plan IN
    /\ At(r, "apply")
    /\ \/ /\ org' = [org EXCEPT !.plan = t, !.status = "active"]
          /\ redeemed' = redeemed \cup {t}
          /\ slipped' = FALSE /\ missed' = FALSE
          /\ UNCHANGED faults
       \/ Fault /\ UNCHANGED <<org, redeemed, slipped, missed>>
    /\ Finish(r)
    /\ UNCHANGED <<rzp, hooks, paid, retired>>

-----------------------------------------------------------------------------
(* Razorpay.                                                               *)

\* The customer pays a new or a halted subscription, or resumes a paused one.
Activate(s) ==
    /\ rzp[s] \in {"created", "paused"}
    /\ rzp' = [rzp EXCEPT ![s] = "active"]
    /\ paid' = paid \cup {s}
    /\ Send("active", s)
    /\ UNCHANGED <<org, redeemed, call, slipped, missed, faults, retired>>

\* Every month it charges the customer and reports it.
Charge(s) ==
    /\ rzp[s] = "active"
    /\ Send("active", s)
    /\ UNCHANGED <<org, redeemed, rzp, call, paid, slipped, missed, faults, retired>>

Pause(s) ==
    /\ rzp[s] = "active"
    /\ rzp' = [rzp EXCEPT ![s] = "paused"]
    /\ Send("paused", s)
    /\ UNCHANGED <<org, redeemed, call, paid, slipped, missed, faults, retired>>

\* Its charges fail.  The webhooks that say so, subscription.pending and
\* subscription.halted, change nothing: the handler has no case for them.
Halt(s) ==
    /\ rzp[s] = "active"
    /\ rzp' = [rzp EXCEPT ![s] = "paused"]
    /\ UNCHANGED <<org, redeemed, hooks, call, paid, slipped, missed, faults, retired>>

\* Completed, expired, or cancelled at Razorpay.
End(s) ==
    /\ rzp[s] \in {"created", "active", "paused"}
    /\ rzp' = [rzp EXCEPT ![s] = "ended"]
    /\ Send("ended", s)
    /\ UNCHANGED <<org, redeemed, call, paid, slipped, missed, faults, retired>>

\* A webhook whose answer was late is sent once more.
Repeat(s) ==
    /\ Fault
    /\ \/ s \in paid /\ Send("active", s)
       \/ rzp[s] = "paused" /\ Send("paused", s)
       \/ rzp[s] = "ended" /\ Send("ended", s)
    /\ UNCHANGED <<org, redeemed, rzp, call, paid, slipped, missed, retired>>

-----------------------------------------------------------------------------
(* RazorpayWebhook.                                                        *)

\* h's handler ends, or goes on to another statement.
Drop(h) == hooks' = hooks \ {h}
Advance(h, place) == hooks' = (hooks \ {h}) \cup {[h EXCEPT !.at = place]}

Live == {s \in Subscriptions : rzp[s] \in {"active", "paused"}}

\* PlanFromRazorpayPlanID: an id that is not configured is of the free plan.
PlanOf(s) == IF s \in retired THEN "free" ELSE Tier[s]

\* Mutant: the status is not written.
HandleActiveNoStatus(h) ==
    /\ h.event = "active"
    /\ org' = [org EXCEPT !.plan = PlanOf(h.sub), !.sub = h.sub]
    /\ Drop(h)
    /\ UNCHANGED <<redeemed, rzp, call, paid, slipped, missed, faults, retired>>

\* handleRzpSubscriptionActive: activated, charged or resumed.  One UPDATE, of the
\* organization the subscription's notes name, whatever its row says: active it is
\* in any case, also when the plan id is unknown and the plan written is the free one.
HandleActive(h) ==
    /\ h.event = "active"
    /\ \/ /\ UpdateOrgBilling(PlanOf(h.sub), h.sub, "active")
          /\ slipped' = (h.sub \notin Live)
          /\ missed' = (h.sub \in retired)
          /\ UNCHANGED faults
       \/ Fault /\ UNCHANGED <<org, slipped, missed>>
    /\ Drop(h)
    /\ UNCHANGED <<redeemed, rzp, call, paid, retired>>

\* The lookup by rzp_subscription_id that opens the other two handlers: no such
\* organization, or a read that fails, and the webhook is dropped.
Lookup(h, place) ==
    /\ h.at = "sent"
    /\ \/ org.sub = h.sub /\ Advance(h, place) /\ UNCHANGED <<slipped, faults>>
       \/ /\ Drop(h)
          /\ \/ org.sub # h.sub /\ UNCHANGED faults
             \/ Fault
          /\ slipped' = (slipped \/ (h.event = "ended" /\ org.plan = Tier[h.sub]))
    /\ UNCHANGED <<org, redeemed, rzp, call, paid, missed, retired>>

HandlePlan(h) ==
    /\ h.at = "plan"
    /\ UpdateOrgPlan
    /\ Advance(h, "status")
    /\ UNCHANGED <<redeemed, rzp, call, paid, missed, retired>>

HandleStatus(h, status) ==
    /\ h.at = "status"
    /\ UpdateOrgSubscriptionStatus(status)
    /\ Drop(h)
    /\ UNCHANGED <<redeemed, rzp, call, paid, slipped, retired>>

\* Mutant: the subscription is marked cancelled and its plan kept.
HandleEndedKeepsPlan(h) ==
    /\ h.event = "ended"
    /\ Lookup(h, "status") \/ HandleStatus(h, "cancelled")

\* Mutant: the status is not written.
HandleEndedNoStatus(h) ==
    /\ h.event = "ended"
    /\ \/ Lookup(h, "plan")
       \/ /\ h.at = "plan" /\ UpdateOrgPlan /\ Drop(h)
          /\ UNCHANGED <<redeemed, rzp, call, paid, missed, retired>>

\* handleRzpSubscriptionCancelled: cancelled, completed or expired.
HandleEnded(h) ==
    /\ h.event = "ended"
    /\ Lookup(h, "plan") \/ HandlePlan(h) \/ HandleStatus(h, "cancelled")

\* Mutant: Razorpay's word for the event is stored as the status.
HandlePausedRaw(h) ==
    /\ h.event = "paused"
    /\ Lookup(h, "status") \/ HandleStatus(h, "subscription.paused")

\* handleRzpSubscriptionPaused.
HandlePaused(h) ==
    /\ h.event = "paused"
    /\ Lookup(h, "status") \/ HandleStatus(h, "paused")

Handle(h) == h \in hooks /\ (HandleActive(h) \/ HandleEnded(h) \/ HandlePaused(h))

-----------------------------------------------------------------------------
\* Other values are given to RZP_PLAN_STARTER and RZP_PLAN_BUSINESS, or the former
\* ones again: some of the subscriptions made so far are of ids that are not
\* configured.  A new one is made with an id that is.
Configure ==
    /\ Fault
    /\ retired' \in (SUBSET {s \in Subscriptions : rzp[s] # "none"}) \ {retired}
    /\ UNCHANGED <<org, redeemed, rzp, hooks, call, paid, slipped, missed>>

-----------------------------------------------------------------------------
Begin(r) == Subscribe(r) \/ BeginCancel(r) \/ \E t \in Paid : BeginRedeem(r, t)

Continue(r) ==
    \/ ReadOrganization(r) \/ StoreSubscription(r)
    \/ CancelAtRazorpay(r) \/ CancelPlan(r) \/ CancelStatus(r)
    \/ ApplyCoupon(r)

RazorpayStep(s) == Activate(s) \/ Charge(s) \/ Pause(s) \/ Halt(s) \/ End(s) \/ Repeat(s)

Next ==
    \/ Configure
    \/ \E r \in Requests : Begin(r) \/ Continue(r)
    \/ \E s \in Subscriptions : RazorpayStep(s)
    \/ \E h \in hooks : Handle(h)

\* Handlers run to their end, webhooks are delivered, and Razorpay keeps charging a
\* subscription that is active.
Spec ==
    /\ Init /\ [][Next]_vars
    /\ \A r \in Requests : WF_vars(Continue(r))
    /\ \A h \in Hook : WF_vars(Handle(h))
    /\ \A s \in Subscriptions : WF_vars(Charge(s))

-----------------------------------------------------------------------------
(* Properties.                                                             *)

\* Nobody is given a plan that was never paid for or redeemed, though a subscribe
\* writes back the plan it read however long ago.
PlanWasBought == org.plan \in {"free"} \cup redeemed \cup {Tier[s] : s \in paid}

\* A free organization is not shown as active, except while a cancellation is
\* between its two UPDATEs or after the second of them failed, and when the
\* organization was charged for a plan id that was no longer configured.
FreeIsNotActive ==
    (org.plan = "free" /\ org.status = "active") =>
        \/ missed
        \/ \E r \in Requests : At(r, "status")
        \/ \E h \in hooks : h.event = "ended" /\ h.at = "status"

\* A paid plan has a subscription that is not over or a coupon behind it, or the end
\* of its subscription is still on its way; else one of these five has happened since
\* the plan was last written rightly: a subscribe wrote back a plan that had changed,
\* a report of payment came after the end, the end of a subscription the row no
\* longer names was dropped, the end of the one it names was dropped as the lookup
\* failed, or an UPDATE of the downgrade failed.
PaidPlanIsCovered ==
    org.plan # "free" =>
        \/ org.plan \in redeemed
        \/ \E s \in Live : Tier[s] = org.plan
        \/ \E h \in hooks : h.event = "ended" /\ Tier[h.sub] = org.plan
        \/ slipped

\* Who keeps paying is served in the end: once one subscription of a plan id that
\* stays configured remains active, and no other is live, the organization has its
\* plan for good, whatever webhooks were lost, repeated or reordered, whatever
\* requests overlapped and whatever was configured before.
PayingIsServed ==
    \A s \in Subscriptions :
        <>[](Live = {s} /\ rzp[s] = "active" /\ s \notin retired) =>
            <>[](org = [plan |-> Tier[s], sub |-> s, status |-> "active"])
=============================================================================
