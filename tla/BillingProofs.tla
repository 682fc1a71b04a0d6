---------------------------- MODULE BillingProofs ----------------------------
(***************************************************************************)
(* Proofs about Billing, for any number of requests and subscriptions, any *)
(* tiers, and any number of failures and webhooks under way.               *)
(*                                                                         *)
(* The types are not inductive alone: a cancellation ends the subscription *)
(* it holds, which must be one.  CallsHold says so.                        *)
(*                                                                         *)
(* At the end Billing and Projects are put together, the plan Projects     *)
(* reads being the one Billing writes.                                     *)
(***************************************************************************)
EXTENDS Billing, TLAPS

USE BillingAssumption

-----------------------------------------------------------------------------
(* What the steps write.                                                   *)

Places == {"idle", "read", "store", "apply", "cancel", "plan", "status", "done"}

\* r moves to place, with plan t and subscription s.
Moves(r, place, t, s) ==
    call' = [call EXCEPT ![r] = [at |-> place, plan |-> t, sub |-> s]]

\* What a request holds: a cancellation its subscription, a coupon's its tier.
CallsHold ==
    \A r \in Requests : /\ At(r, "cancel") => call[r].sub \in Subscriptions
                        /\ At(r, "apply") => call[r].plan \in Paid

LEMMA TierPaid ==
  \A s \in Subscriptions : Tier[s] \in Paid /\ PlanOf(s) \in Plan /\ s \in Sub
BY DEF Plan, Sub, PlanOf

LEMMA MovedOnly ==
  ASSUME NEW c \in Call, NEW place \in Places
  PROVE  /\ [c EXCEPT !.at = place] = [at |-> place, plan |-> c.plan, sub |-> c.sub]
         /\ [c EXCEPT !.at = place] \in Call
BY DEF Call, Places

LEMMA MovedWithSub ==
  ASSUME NEW c \in Call, NEW place \in Places, NEW s \in Sub
  PROVE  [c EXCEPT !.at = place, !.sub = s] = [at |-> place, plan |-> c.plan, sub |-> s]
<1> DEFINE d == [c EXCEPT !.at = place]
<1>1. d = [at |-> place, plan |-> c.plan, sub |-> c.sub] /\ d \in Call
  BY MovedOnly
<1>2. [c EXCEPT !.at = place, !.sub = s] = [d EXCEPT !.sub = s]
  BY Zenon
<1> HIDE DEF d
<1>3. [d EXCEPT !.sub = s] = [at |-> place, plan |-> c.plan, sub |-> s]
  BY <1>1 DEF Call
<1>. QED BY Zenon, <1>2, <1>3 DEF d

LEMMA MovedWithPlan ==
  ASSUME NEW c \in Call, NEW place \in Places, NEW t \in Plan
  PROVE  [c EXCEPT !.at = place, !.plan = t] = [at |-> place, plan |-> t, sub |-> c.sub]
<1> DEFINE d == [c EXCEPT !.at = place]
<1>1. d = [at |-> place, plan |-> c.plan, sub |-> c.sub] /\ d \in Call
  BY MovedOnly
<1>2. [c EXCEPT !.at = place, !.plan = t] = [d EXCEPT !.plan = t]
  BY Zenon
<1> HIDE DEF d
<1>3. [d EXCEPT !.plan = t] = [at |-> place, plan |-> t, sub |-> c.sub]
  BY <1>1 DEF Call
<1>. QED BY Zenon, <1>2, <1>3 DEF d

LEMMA Moved ==
  ASSUME TypeOK, NEW r \in Requests, NEW place \in Places, NEW t \in Plan, NEW s \in Sub,
         Moves(r, place, t, s)
  PROVE  /\ call' \in [Requests -> Call]
         /\ call'[r] = [at |-> place, plan |-> t, sub |-> s]
         /\ \A q \in Requests : q # r => call'[q] = call[q]
BY DEF TypeOK, Call, Places, Moves

LEMMA Held ==
  ASSUME TypeOK, NEW r \in Requests
  PROVE  /\ call[r] \in Call /\ call[r].plan \in Plan /\ call[r].sub \in Sub
         /\ org.plan \in Plan /\ org.sub \in Sub
BY DEF TypeOK, Call, Org

LEMMA Ended == ASSUME NEW r, Finish(r) PROVE Moves(r, "done", "free", NoSubscription)
BY DEF Finish, Quiet, Moves

\* Where each step of a request leaves it.
LEMMA SubscribeMoves ==
  ASSUME TypeOK, NEW r \in Requests, Subscribe(r)
  PROVE  \/ Moves(r, "done", "free", NoSubscription)
         \/ \E s \in Subscriptions : Moves(r, "read", call[r].plan, s)
<1> DEFINE Q(s) == call' = [call EXCEPT ![r] = [@ EXCEPT !.at = "read", !.sub = s]]
<1>1. CASE Finish(r)
  BY <1>1, Ended
<1>2. ASSUME NEW s \in Subscriptions, Q(s)
      PROVE  Moves(r, "read", call[r].plan, s)
  <2>1. [call[r] EXCEPT !.at = "read", !.sub = s]
           = [at |-> "read", plan |-> call[r].plan, sub |-> s]
    <3>1. call[r] \in Call /\ "read" \in Places /\ s \in Sub
      BY Held, TierPaid DEF Places, Plan
    <3>. QED BY Zenon, <3>1, MovedWithSub
  <2>. QED BY Zenon, <1>2, <2>1 DEF Moves
<1>3. Finish(r) \/ \E s \in Subscriptions : Q(s)
  BY Zenon DEF Subscribe
<1> HIDE DEF Q
<1>. QED BY <1>1, <1>2, <1>3

LEMMA ReadMoves ==
  ASSUME TypeOK, NEW r \in Requests, ReadOrganization(r)
  PROVE  \/ Moves(r, "done", "free", NoSubscription)
         \/ Moves(r, "store", org.plan, call[r].sub)
<1>1. CASE Finish(r)
  BY <1>1, Ended
<1>2. CASE call' = [call EXCEPT ![r] = [@ EXCEPT !.at = "store", !.plan = org.plan]]
  <2>1. [call[r] EXCEPT !.at = "store", !.plan = org.plan]
           = [at |-> "store", plan |-> org.plan, sub |-> call[r].sub]
    <3>1. call[r] \in Call /\ "store" \in Places /\ org.plan \in Plan
      BY Held DEF Places
    <3>. QED BY Zenon, <3>1, MovedWithPlan
  <2>. QED BY Zenon, <1>2, <2>1 DEF Moves
<1>. QED BY <1>1, <1>2, Zenon DEF ReadOrganization

LEMMA CancelMoves ==
  ASSUME TypeOK, NEW r \in Requests, BeginCancel(r)
  PROVE  \/ Moves(r, "done", "free", NoSubscription)
         \/ Moves(r, "plan", call[r].plan, org.sub)
         \/ Moves(r, "cancel", call[r].plan, org.sub) /\ org.sub \in Subscriptions
<1>1. CASE Finish(r)
  BY <1>1, Ended
<1>2. ASSUME NEW place \in {"plan", "cancel"},
             call' = [call EXCEPT ![r] = [@ EXCEPT !.at = place, !.sub = org.sub]]
      PROVE  Moves(r, place, call[r].plan, org.sub)
  <2>1. [call[r] EXCEPT !.at = place, !.sub = org.sub]
           = [at |-> place, plan |-> call[r].plan, sub |-> org.sub]
    <3>1. call[r] \in Call /\ place \in Places /\ org.sub \in Sub
      BY Held DEF Places
    <3>. QED BY Zenon, <3>1, MovedWithSub
  <2>. QED BY Zenon, <1>2, <2>1 DEF Moves
<1>3. org.sub # NoSubscription => org.sub \in Subscriptions
  BY Held DEF Sub
<1>4. CASE org.sub = NoSubscription
  <2>1. \/ Finish(r)
        \/ call' = [call EXCEPT ![r] = [@ EXCEPT !.at = "plan", !.sub = org.sub]]
    BY <1>4, Zenon DEF BeginCancel
  <2>. QED BY <2>1, <1>1, <1>2
<1>5. CASE org.sub # NoSubscription
  <2>1. \/ Finish(r)
        \/ call' = [call EXCEPT ![r] = [@ EXCEPT !.at = "cancel", !.sub = org.sub]]
    BY <1>5, Zenon DEF BeginCancel
  <2>. QED BY <2>1, <1>1, <1>2, <1>3, <1>5
<1>. QED BY <1>4, <1>5

LEMMA RedeemMoves ==
  ASSUME TypeOK, NEW r \in Requests, NEW t \in Paid, BeginRedeem(r, t)
  PROVE  \/ Moves(r, "done", "free", NoSubscription)
         \/ Moves(r, "apply", t, call[r].sub)
<1>1. CASE Finish(r)
  BY <1>1, Ended
<1>2. CASE call' = [call EXCEPT ![r] = [@ EXCEPT !.at = "apply", !.plan = t]]
  <2>1. [call[r] EXCEPT !.at = "apply", !.plan = t]
           = [at |-> "apply", plan |-> t, sub |-> call[r].sub]
    <3>1. call[r] \in Call /\ "apply" \in Places /\ t \in Plan
      BY Held DEF Places, Plan
    <3>. QED BY Zenon, <3>1, MovedWithPlan
  <2>. QED BY Zenon, <1>2, <2>1 DEF Moves
<1>. QED BY <1>1, <1>2, Zenon DEF BeginRedeem

LEMMA PlanMoves ==
  ASSUME TypeOK, NEW r \in Requests, CancelPlan(r)
  PROVE  Moves(r, "status", call[r].plan, call[r].sub)
<1>1. call[r] \in Call /\ "status" \in Places
  BY Held DEF Places
<1>2. [call[r] EXCEPT !.at = "status"]
         = [at |-> "status", plan |-> call[r].plan, sub |-> call[r].sub]
  BY Zenon, <1>1, MovedOnly
<1>. QED BY Zenon, <1>2 DEF CancelPlan, Goto, Moves

\* What the statements write.
LEMMA PlanWritten ==
  ASSUME TypeOK, UpdateOrgPlan
  PROVE  /\ org' \in Org /\ slipped' \in BOOLEAN /\ faults' \in 0 .. MaxFaults
         /\ \/ org'.plan = "free" /\ org'.status = org.status
            \/ org' = org /\ slipped'
<1>1. slipped' \in BOOLEAN
  BY Zenon DEF UpdateOrgPlan
<1>2. faults' \in 0 .. MaxFaults
  BY DEF TypeOK, UpdateOrgPlan, Fault
<1>3. org' \in Org /\ ((org'.plan = "free" /\ org'.status = org.status) \/ org' = org)
  BY DEF TypeOK, UpdateOrgPlan, Org, Plan
<1>4. CASE slipped'
  BY <1>1, <1>2, <1>3, <1>4
<1>5. CASE ~ slipped'
  <2>1. org' = [org EXCEPT !.plan = "free"]
    BY Zenon, <1>5 DEF UpdateOrgPlan
  <2>. QED BY <2>1, <1>1, <1>2, <1>3 DEF TypeOK, Org
<1>. QED BY <1>4, <1>5

LEMMA StatusWritten ==
  ASSUME TypeOK, NEW status \in {"paused", "cancelled"}, UpdateOrgSubscriptionStatus(status)
  PROVE  /\ org' \in Org /\ missed' \in BOOLEAN /\ faults' \in 0 .. MaxFaults
         /\ org'.plan = org.plan
         /\ org'.status # "active" \/ missed'
<1>1. missed' \in BOOLEAN
  BY Zenon DEF UpdateOrgSubscriptionStatus
<1>2. faults' \in 0 .. MaxFaults
  BY DEF TypeOK, UpdateOrgSubscriptionStatus, Fault
<1>3. org' \in Org /\ org'.plan = org.plan
  BY DEF TypeOK, UpdateOrgSubscriptionStatus, Org
<1>4. ASSUME ~ missed' PROVE org'.status # "active"
  <2>1. org' = [org EXCEPT !.status = status]
    BY Zenon, <1>4 DEF UpdateOrgSubscriptionStatus
  <2>. QED BY <2>1 DEF TypeOK, Org
<1>. QED BY Zenon, <1>1, <1>2, <1>3, <1>4

LEMMA FaultType == ASSUME TypeOK, Fault PROVE faults' \in 0 .. MaxFaults
BY DEF TypeOK, Fault

LEMMA CouponWritten ==
  ASSUME TypeOK, NEW t \in Paid, org' = [org EXCEPT !.plan = t, !.status = "active"]
  PROVE  org' \in Org /\ org'.plan = t
<1> DEFINE d == [org EXCEPT !.plan = t]
<1>1. d \in Org /\ d.plan = t
  BY DEF TypeOK, Org, Plan
<1>2. org' = [d EXCEPT !.status = "active"]
  BY Zenon
<1> HIDE DEF d
<1>. QED BY <1>1, <1>2 DEF Org

LEMMA SendType ==
  ASSUME TypeOK, NEW s \in Subscriptions, NEW e \in {"active", "ended", "paused"}, Send(e, s)
  PROVE  hooks' \subseteq Hook
BY DEF TypeOK, Send, Hook

\* Razorpay touches nothing of SuperLock's.
LEMMA RazorpayKeeps ==
  ASSUME NEW s \in Subscriptions, RazorpayStep(s)
  PROVE  UNCHANGED <<org, redeemed, call, slipped, missed, retired>>
<1>1. CASE Activate(s)
  BY <1>1, Zenon DEF Activate
<1>2. CASE Charge(s)
  BY <1>2, Zenon DEF Charge
<1>3. CASE Pause(s)
  BY <1>3, Zenon DEF Pause
<1>4. CASE Halt(s)
  BY <1>4, Zenon DEF Halt
<1>5. CASE End(s)
  BY <1>5, Zenon DEF End
<1>6. CASE Repeat(s)
  BY <1>6, Zenon DEF Repeat
<1>. QED BY <1>1, <1>2, <1>3, <1>4, <1>5, <1>6, Zenon DEF RazorpayStep

LEMMA HookType ==
  ASSUME TypeOK, NEW h \in hooks
  PROVE  /\ h \in Hook /\ h.event \in {"active", "ended", "paused"} /\ h.sub \in Subscriptions
         /\ \A place \in {"plan", "status"} :
               /\ [h EXCEPT !.at = place]
                     = [event |-> h.event, sub |-> h.sub, at |-> place]
               /\ Advance(h, place) => hooks' \subseteq Hook
         /\ Drop(h) => hooks' \subseteq Hook
BY DEF TypeOK, Hook, Advance, Drop

-----------------------------------------------------------------------------
(* Types.                                                                  *)

LEMMA TypeInit == Init => TypeOK /\ CallsHold
<1> SUFFICES ASSUME Init PROVE TypeOK /\ CallsHold
    OBVIOUS
<1>1. slipped \in BOOLEAN /\ missed \in BOOLEAN
  BY Zenon DEF Init
<1>2. call \in [Requests -> Call]
  BY DEF Init, Quiet, Call, Plan, Sub
<1>3. org \in Org
  BY DEF Init, Org, Plan, Sub
<1>4. CallsHold
  BY DEF Init, Quiet, CallsHold, At
<1>. QED
  BY <1>1, <1>2, <1>3, <1>4 DEF Init, TypeOK

\* A request that moves keeps its types and what the others hold.
LEMMA MoveType ==
  ASSUME TypeOK, CallsHold, NEW r \in Requests, NEW place \in Places, NEW t \in Plan,
         NEW s \in Sub, Moves(r, place, t, s),
         place = "cancel" => s \in Subscriptions, place = "apply" => t \in Paid
  PROVE  call' \in [Requests -> Call] /\ CallsHold'
<1>1. /\ call' \in [Requests -> Call]
      /\ call'[r] = [at |-> place, plan |-> t, sub |-> s]
      /\ \A q \in Requests : q # r => call'[q] = call[q]
  BY Moved
<1>2. ASSUME NEW q \in Requests
      PROVE  /\ At(q, "cancel")' => call'[q].sub \in Subscriptions
             /\ At(q, "apply")' => call'[q].plan \in Paid
  <2>1. CASE q = r
    BY <2>1, <1>1 DEF At
  <2>2. CASE q # r
    BY <2>2, <1>1 DEF At, CallsHold
  <2>. QED BY <2>1, <2>2
<1>. QED BY <1>1, <1>2 DEF CallsHold

LEMMA DoneType ==
  ASSUME TypeOK, CallsHold, NEW r \in Requests, Finish(r)
  PROVE  call' \in [Requests -> Call] /\ CallsHold'
BY Ended, MoveType DEF Places, Plan, Sub

LEMMA StayType == TypeOK /\ CallsHold /\ call' = call
                    => call' \in [Requests -> Call] /\ CallsHold'
BY DEF TypeOK, CallsHold, At

LEMMA CallsStep ==
  ASSUME TypeOK, CallsHold, [Next]_vars
  PROVE  call' \in [Requests -> Call] /\ CallsHold'
<1> DEFINE Goal == call' \in [Requests -> Call] /\ CallsHold'
<1>1. CASE call' = call
  BY <1>1, StayType
<1>2. ASSUME NEW r \in Requests, Moves(r, "done", "free", NoSubscription) PROVE Goal
  BY <1>2, MoveType DEF Places, Plan, Sub
<1>3. ASSUME NEW r \in Requests, Subscribe(r) PROVE Goal
  <2>1. ASSUME NEW s \in Subscriptions, Moves(r, "read", call[r].plan, s) PROVE Goal
    BY <2>1, MoveType, Held, TierPaid DEF Places
  <2>. QED BY <1>2, <1>3, <2>1, SubscribeMoves
<1>4. ASSUME NEW r \in Requests, ReadOrganization(r) PROVE Goal
  <2>1. CASE Moves(r, "store", org.plan, call[r].sub)
    BY <2>1, MoveType, Held DEF Places
  <2>. QED BY <1>2, <1>4, <2>1, ReadMoves
<1>5. ASSUME NEW r \in Requests, BeginCancel(r) PROVE Goal
  <2>1. CASE Moves(r, "plan", call[r].plan, org.sub)
    BY <2>1, MoveType, Held DEF Places
  <2>2. CASE Moves(r, "cancel", call[r].plan, org.sub) /\ org.sub \in Subscriptions
    BY <2>2, MoveType, Held DEF Places
  <2>. QED BY <1>2, <1>5, <2>1, <2>2, CancelMoves
<1>6. ASSUME NEW r \in Requests, NEW t \in Paid, BeginRedeem(r, t) PROVE Goal
  <2>1. CASE Moves(r, "apply", t, call[r].sub)
    BY <2>1, MoveType, Held DEF Places, Plan
  <2>. QED BY <1>2, <1>6, <2>1, RedeemMoves
<1>7. ASSUME NEW r \in Requests, CancelAtRazorpay(r) PROVE Goal
  <2>1. Moves(r, "plan", "free", NoSubscription)
    BY <1>7, Zenon DEF CancelAtRazorpay, Quiet, Moves
  <2>. QED BY <2>1, MoveType DEF Places, Plan, Sub
<1>8. ASSUME NEW r \in Requests, CancelPlan(r) PROVE Goal
  <2>1. Moves(r, "status", call[r].plan, call[r].sub)
    BY <1>8, PlanMoves
  <2>. QED BY <2>1, MoveType, Held DEF Places
<1>9. ASSUME NEW r \in Requests, Finish(r) PROVE Goal
  BY <1>9, DoneType
<1>10. ASSUME NEW r \in Requests, Begin(r) PROVE Goal
  BY <1>10, <1>3, <1>5, <1>6 DEF Begin
<1>11. ASSUME NEW r \in Requests, Continue(r) PROVE Goal
  <2>1. StoreSubscription(r) \/ CancelStatus(r) \/ ApplyCoupon(r) => Finish(r)
    BY Zenon DEF StoreSubscription, CancelStatus, ApplyCoupon
  <2>. QED BY <2>1, <1>11, <1>4, <1>7, <1>8, <1>9 DEF Continue
<1>12. ASSUME NEW s \in Subscriptions, RazorpayStep(s)
       PROVE  call' = call
  BY <1>12, RazorpayKeeps, Zenon
<1>13. ASSUME NEW h \in hooks, Handle(h) PROVE call' = call
  BY <1>13, Zenon DEF Handle, HandleActive, HandleEnded, HandlePaused, Lookup, HandlePlan,
                      HandleStatus
<1>14. UNCHANGED vars \/ Configure => call' = call
  BY Zenon DEF vars, Configure
<1>. QED BY <1>1, <1>10, <1>11, <1>12, <1>13, <1>14 DEF Next

\* The types of everything but the calls.
RowsType ==
    /\ org \in Org
    /\ redeemed \subseteq Paid
    /\ rzp \in [Subscriptions -> {"none", "created", "active", "paused", "ended"}]
    /\ retired \subseteq Subscriptions
    /\ hooks \subseteq Hook
    /\ paid \subseteq Subscriptions
    /\ faults \in 0 .. MaxFaults

FlagsType == slipped \in BOOLEAN /\ missed \in BOOLEAN

LEMMA FlagsStep ==
  ASSUME TypeOK, [Next]_vars
  PROVE  FlagsType'
<1>1. slipped \in BOOLEAN /\ missed \in BOOLEAN
  BY Zenon DEF TypeOK
<1>2. ASSUME NEW r \in Requests, Begin(r) PROVE FlagsType'
  <2>1. slipped' = slipped /\ missed' = missed
    BY <1>2, Zenon DEF Begin, Subscribe, BeginCancel, BeginRedeem
  <2>. QED BY Zenon, <2>1, <1>1 DEF FlagsType
<1>3. ASSUME NEW r \in Requests, Continue(r) PROVE FlagsType'
  <2>1. CASE ReadOrganization(r)
    BY Zenon, <2>1, <1>1 DEF ReadOrganization, FlagsType
  <2>2. CASE StoreSubscription(r)
    BY Zenon, <2>2, <1>1 DEF StoreSubscription, FlagsType
  <2>3. CASE CancelAtRazorpay(r)
    BY Zenon, <2>3, <1>1 DEF CancelAtRazorpay, FlagsType
  <2>4. CASE CancelPlan(r)
    BY Zenon, <2>4, <1>1, PlanWritten DEF CancelPlan, FlagsType
  <2>5. CASE CancelStatus(r)
    BY Zenon, <2>5, <1>1, StatusWritten DEF CancelStatus, FlagsType
  <2>6. CASE ApplyCoupon(r)
    BY Zenon, <2>6, <1>1 DEF ApplyCoupon, FlagsType
  <2>. QED BY <1>3, <2>1, <2>2, <2>3, <2>4, <2>5, <2>6 DEF Continue
<1>4. ASSUME NEW s \in Subscriptions, RazorpayStep(s)
      PROVE  FlagsType'
  <2>1. slipped' = slipped /\ missed' = missed
    BY <1>4, RazorpayKeeps, Zenon
  <2>. QED BY Zenon, <2>1, <1>1 DEF FlagsType
<1>5. ASSUME NEW h \in hooks, Handle(h) PROVE FlagsType'
  <2>1. CASE HandleActive(h)
    <3>1. \/ slipped' = (h.sub \notin Live) /\ missed' = (h.sub \in retired)
          \/ slipped' = slipped /\ missed' = missed
      BY Zenon, <2>1 DEF HandleActive
    <3>2. CASE slipped' = (h.sub \notin Live) /\ missed' = (h.sub \in retired)
      <4>1. (h.sub \notin Live) \in BOOLEAN /\ (h.sub \in retired) \in BOOLEAN
        OBVIOUS
      <4>. QED BY Zenon, <3>2, <4>1 DEF FlagsType
    <3>3. CASE slipped' = slipped /\ missed' = missed
      BY Zenon, <1>1, <3>3 DEF FlagsType
    <3>. QED BY Zenon, <3>1, <3>2, <3>3
  <2>2. ASSUME NEW place, Lookup(h, place) PROVE FlagsType'
    BY Zenon, <2>2, <1>1 DEF Lookup, FlagsType
  <2>3. CASE HandlePlan(h)
    BY Zenon, <2>3, <1>1, PlanWritten DEF HandlePlan, FlagsType
  <2>4. ASSUME NEW status \in {"paused", "cancelled"}, HandleStatus(h, status) PROVE FlagsType'
    BY Zenon, <2>4, <1>1, StatusWritten DEF HandleStatus, FlagsType
  <2>. QED BY <1>5, <2>1, <2>2, <2>3, <2>4 DEF Handle, HandleEnded, HandlePaused
<1>6. CASE UNCHANGED vars \/ Configure
  BY Zenon, <1>1, <1>6 DEF vars, Configure, FlagsType
<1>. QED BY <1>2, <1>3, <1>4, <1>5, <1>6 DEF Next

LEMMA RowsStep ==
  ASSUME TypeOK, CallsHold, [Next]_vars
  PROVE  RowsType'
<1> SUFFICES RowsType'
    OBVIOUS
<1>0. RowsType
  BY DEF TypeOK, RowsType
<1>1. CASE UNCHANGED vars
  BY <1>0, <1>1 DEF vars, RowsType
<1>2. ASSUME NEW r \in Requests, Subscribe(r) PROVE RowsType'
  <2>1. rzp' \in [Subscriptions -> {"none", "created", "active", "paused", "ended"}]
    BY <1>0, <1>2 DEF Subscribe, RowsType
  <2>2. faults' \in 0 .. MaxFaults
    BY <1>0, <1>2, FaultType DEF Subscribe, RowsType
  <2>. QED BY <1>0, <1>2, <2>1, <2>2 DEF Subscribe, RowsType
<1>3. ASSUME NEW r \in Requests, ReadOrganization(r) PROVE RowsType'
  BY <1>0, <1>3, FaultType DEF ReadOrganization, RowsType
<1>4. ASSUME NEW r \in Requests, StoreSubscription(r) PROVE RowsType'
  <2>1. org' \in Org
    BY <1>0, <1>4, Held DEF StoreSubscription, UpdateOrgBilling, RowsType, Org
  <2>2. faults' \in 0 .. MaxFaults
    BY <1>0, <1>4, FaultType DEF StoreSubscription, RowsType
  <2>. QED BY <1>0, <1>4, <2>1, <2>2 DEF StoreSubscription, RowsType
<1>5. ASSUME NEW r \in Requests, BeginCancel(r) PROVE RowsType'
  BY <1>0, <1>5 DEF BeginCancel, RowsType
<1>6. ASSUME NEW r \in Requests, CancelAtRazorpay(r) PROVE RowsType'
  <2>1. call[r].sub \in Subscriptions
    BY <1>6 DEF CancelAtRazorpay, CallsHold
  <2>2. hooks' \subseteq Hook
    BY <1>0, <1>6, <2>1, SendType DEF CancelAtRazorpay, RowsType
  <2>3. rzp' \in [Subscriptions -> {"none", "created", "active", "paused", "ended"}]
    BY <1>0, <1>6, <2>1 DEF CancelAtRazorpay, RowsType
  <2>. QED BY <1>0, <1>6, <2>2, <2>3 DEF CancelAtRazorpay, RowsType
<1>7. ASSUME NEW r \in Requests, CancelPlan(r) PROVE RowsType'
  BY <1>0, <1>7, PlanWritten DEF CancelPlan, RowsType
<1>8. ASSUME NEW r \in Requests, CancelStatus(r) PROVE RowsType'
  BY <1>0, <1>8, StatusWritten DEF CancelStatus, RowsType
<1>9. ASSUME NEW r \in Requests, NEW t \in Paid, BeginRedeem(r, t) PROVE RowsType'
  BY <1>0, <1>9 DEF BeginRedeem, RowsType
<1>10. ASSUME NEW r \in Requests, ApplyCoupon(r) PROVE RowsType'
  <2>1. call[r].plan \in Paid
    BY <1>10 DEF ApplyCoupon, CallsHold
  <2>2. org' \in Org
    BY <1>0, <1>10, <2>1, CouponWritten DEF ApplyCoupon, RowsType
  <2>3. redeemed' \subseteq Paid /\ faults' \in 0 .. MaxFaults
    BY <1>0, <1>10, <2>1, FaultType DEF ApplyCoupon, RowsType
  <2>. QED BY <1>0, <1>10, <2>2, <2>3 DEF ApplyCoupon, RowsType
<1>11. ASSUME NEW s \in Subscriptions, RazorpayStep(s)
       PROVE  RowsType'
  <2>1. hooks' \subseteq Hook
    <3>1. hooks' = hooks \/ Send("active", s) \/ Send("ended", s) \/ Send("paused", s)
      BY <1>11 DEF RazorpayStep, Activate, Charge, Pause, Halt, End, Repeat
    <3>. QED BY <1>0, <3>1, SendType DEF RowsType
  <2>2. rzp' \in [Subscriptions -> {"none", "created", "active", "paused", "ended"}]
    BY <1>0, <1>11 DEF RowsType, RazorpayStep, Activate, Charge, Pause, Halt, End, Repeat
  <2>3. paid' \subseteq Subscriptions /\ faults' \in 0 .. MaxFaults
    BY <1>0, <1>11, FaultType DEF RowsType, RazorpayStep, Activate, Charge, Pause, Halt, End, Repeat
  <2>4. org' = org /\ redeemed' = redeemed /\ retired' = retired
    BY <1>11, RazorpayKeeps, Zenon
  <2>. QED BY <1>0, <2>1, <2>2, <2>3, <2>4 DEF RowsType
<1>12. ASSUME NEW h \in hooks, HandleActive(h) PROVE RowsType'
  <2>1. org' \in Org
    <3>1. \/ org' = [plan |-> PlanOf(h.sub), sub |-> h.sub, status |-> "active"]
          \/ org' = org
      BY <1>12, Zenon DEF HandleActive, UpdateOrgBilling
    <3>2. h.sub \in Subscriptions
      BY DEF TypeOK, Hook
    <3>. QED BY <1>0, <3>1, <3>2, TierPaid DEF RowsType, Org
  <2>2. hooks' \subseteq Hook
    <3>1. Drop(h)
      BY <1>12, Zenon DEF HandleActive
    <3>. QED BY <3>1 DEF Drop, TypeOK
  <2>3. faults' \in 0 .. MaxFaults
    BY <1>0, <1>12, FaultType DEF HandleActive, RowsType
  <2>. QED BY <1>0, <1>12, <2>1, <2>2, <2>3 DEF HandleActive, RowsType
<1>13. ASSUME NEW h \in hooks, NEW place \in {"plan", "status"}, Lookup(h, place) PROVE RowsType'
  <2>1. hooks' \subseteq Hook
    BY <1>13, HookType, Zenon DEF Lookup
  <2>2. faults' \in 0 .. MaxFaults
    BY <1>0, <1>13, FaultType DEF Lookup, RowsType
  <2>3. UNCHANGED <<org, redeemed, rzp, paid, retired>>
    BY <1>13, Zenon DEF Lookup
  <2>. QED BY <1>0, <2>1, <2>2, <2>3 DEF RowsType
<1>14. ASSUME NEW h \in hooks, HandlePlan(h) PROVE RowsType'
  BY <1>0, <1>14, HookType, PlanWritten DEF HandlePlan, RowsType
<1>15. ASSUME NEW h \in hooks, NEW status \in {"paused", "cancelled"}, HandleStatus(h, status)
       PROVE  RowsType'
  BY <1>0, <1>15, HookType, StatusWritten DEF HandleStatus, RowsType
<1>16. ASSUME NEW h \in hooks, Handle(h) PROVE RowsType'
  BY <1>16, <1>12, <1>13, <1>14, <1>15 DEF Handle, HandleEnded, HandlePaused
<1>17. ASSUME NEW r \in Requests, Begin(r) \/ Continue(r) PROVE RowsType'
  BY <1>17, <1>2, <1>3, <1>4, <1>5, <1>6, <1>7, <1>8, <1>9, <1>10 DEF Begin, Continue
<1>18. CASE Configure
  <2>1. UNCHANGED <<org, redeemed, rzp, hooks, paid>> /\ retired' \subseteq Subscriptions
    BY <1>18 DEF Configure
  <2>2. faults' \in 0 .. MaxFaults
    BY <1>18, FaultType DEF Configure
  <2>. QED BY <1>0, <2>1, <2>2 DEF RowsType
<1>. QED BY <1>1, <1>11, <1>16, <1>17, <1>18 DEF Next

LEMMA TypeStep == TypeOK /\ CallsHold /\ [Next]_vars => TypeOK' /\ CallsHold'
<1> SUFFICES ASSUME TypeOK, CallsHold, [Next]_vars PROVE TypeOK' /\ CallsHold'
    OBVIOUS
<1>1. FlagsType' /\ RowsType' /\ call' \in [Requests -> Call] /\ CallsHold'
  BY FlagsStep, RowsStep, CallsStep
<1>. QED BY Zenon, <1>1 DEF FlagsType, RowsType, TypeOK

\* Every variable keeps its type; in particular the row never holds a plan, a
\* subscription or a status the handlers do not know.
THEOREM TypeCorrect == Spec => []TypeOK
BY TypeInit, TypeStep, PTL DEF Spec

-----------------------------------------------------------------------------
(* Where the plan comes from.                                              *)

Bought == {"free"} \cup redeemed \cup {Tier[s] : s \in paid}

\* PlanWasBought is not inductive: a subscribe writes the plan it has read, and a
\* webhook the tier of its subscription.  A plan that was read had been bought; a
\* report of payment, and a subscription Razorpay has active, were paid for.
PlanSeen ==
    /\ org.plan \in Bought
    /\ \A r \in Requests : At(r, "store") => call[r].plan \in Bought
    /\ \A h \in hooks : h.event = "active" => h.sub \in paid
    /\ \A s \in Subscriptions : rzp[s] = "active" => s \in paid

LEMMA BoughtGrows ==
  ASSUME redeemed \subseteq redeemed', paid \subseteq paid'
  PROVE  Bought \subseteq Bought'
BY DEF Bought

\* A request that moves holds a plan that was bought, if it is to store one.
LEMMA SeenInCall ==
  ASSUME TypeOK, PlanSeen, NEW r \in Requests, NEW place \in Places, NEW t \in Plan,
         NEW s \in Sub, Moves(r, place, t, s), place = "store" => t \in Bought,
         redeemed \subseteq redeemed', paid' = paid
  PROVE  \A q \in Requests : At(q, "store")' => call'[q].plan \in Bought'
<1>1. /\ call'[r] = [at |-> place, plan |-> t, sub |-> s]
      /\ \A q \in Requests : q # r => call'[q] = call[q]
  BY Moved
<1>2. Bought \subseteq Bought'
  BY BoughtGrows
<1> SUFFICES ASSUME NEW q \in Requests, At(q, "store")' PROVE call'[q].plan \in Bought'
    OBVIOUS
<1>3. CASE q = r
  BY <1>1, <1>2, <1>3 DEF At
<1>4. CASE q # r
  BY <1>1, <1>2, <1>4 DEF At, PlanSeen
<1>. QED BY <1>3, <1>4

LEMMA SeenDone ==
  ASSUME TypeOK, PlanSeen, NEW r \in Requests, Finish(r),
         redeemed \subseteq redeemed', paid' = paid
  PROVE  \A q \in Requests : At(q, "store")' => call'[q].plan \in Bought'
BY Ended, SeenInCall DEF Places, Plan, Sub

\* The calls: only ReadOrganization brings one to its store.
LEMMA SeenByCalls ==
  ASSUME TypeOK, CallsHold, PlanSeen, NEW r \in Requests, Begin(r) \/ Continue(r)
  PROVE  \A q \in Requests : At(q, "store")' => call'[q].plan \in Bought'
<1> DEFINE Goal == \A q \in Requests : At(q, "store")' => call'[q].plan \in Bought'
<1>1. paid' = paid /\ redeemed \subseteq redeemed'
  <2>1. paid' = paid
    BY Zenon DEF Begin, Continue, Subscribe, BeginCancel, BeginRedeem, ReadOrganization,
                 StoreSubscription, CancelAtRazorpay, CancelPlan, CancelStatus, ApplyCoupon
  <2>2. redeemed' = redeemed \/ redeemed' = redeemed \cup {call[r].plan}
    BY Zenon DEF Begin, Continue, Subscribe, BeginCancel, BeginRedeem, ReadOrganization,
                 StoreSubscription, CancelAtRazorpay, CancelPlan, CancelStatus, ApplyCoupon
  <2>. QED BY <2>1, <2>2
<1>2. ASSUME NEW place \in Places, NEW t \in Plan, NEW s \in Sub, Moves(r, place, t, s),
             place # "store"
      PROVE  Goal
  BY <1>1, <1>2, SeenInCall
<1>3. CASE Finish(r)
  BY <1>1, <1>3, SeenDone
<1>4. CASE Moves(r, "done", "free", NoSubscription)
  BY <1>4, <1>2 DEF Places, Plan, Sub
<1>5. CASE Subscribe(r)
  <2>1. ASSUME NEW s \in Subscriptions, Moves(r, "read", call[r].plan, s) PROVE Goal
    BY <2>1, <1>2, Held, TierPaid DEF Places
  <2>. QED BY <1>4, <1>5, <2>1, SubscribeMoves
<1>6. CASE ReadOrganization(r)
  <2>1. CASE Moves(r, "store", org.plan, call[r].sub)
    BY <1>1, <2>1, SeenInCall, Held DEF Places, PlanSeen
  <2>. QED BY <1>4, <1>6, <2>1, ReadMoves
<1>7. CASE BeginCancel(r)
  <2>1. CASE Moves(r, "plan", call[r].plan, org.sub)
    BY <2>1, <1>2, Held DEF Places
  <2>2. CASE Moves(r, "cancel", call[r].plan, org.sub)
    BY <2>2, <1>2, Held DEF Places
  <2>. QED BY <1>4, <1>7, <2>1, <2>2, CancelMoves
<1>8. ASSUME NEW t \in Paid, BeginRedeem(r, t) PROVE Goal
  <2>1. CASE Moves(r, "apply", t, call[r].sub)
    BY <2>1, <1>2, Held DEF Places, Plan
  <2>. QED BY <1>4, <1>8, <2>1, RedeemMoves
<1>9. CASE CancelAtRazorpay(r)
  <2>1. Moves(r, "plan", "free", NoSubscription)
    BY <1>9, Zenon DEF CancelAtRazorpay, Quiet, Moves
  <2>. QED BY <2>1, <1>2 DEF Places, Plan, Sub
<1>10. CASE CancelPlan(r)
  <2>1. Moves(r, "status", call[r].plan, call[r].sub)
    BY <1>10, PlanMoves
  <2>. QED BY <2>1, <1>2, Held DEF Places
<1>11. StoreSubscription(r) \/ CancelStatus(r) \/ ApplyCoupon(r) => Finish(r)
  BY Zenon DEF StoreSubscription, CancelStatus, ApplyCoupon
<1>. QED
  BY <1>3, <1>5, <1>6, <1>7, <1>8, <1>9, <1>10, <1>11 DEF Begin, Continue

\* What the other parts of PlanSeen ask of a step.
LEMMA SeenAfter ==
  ASSUME PlanSeen, paid \subseteq paid', org'.plan \in Bought',
         \A h \in hooks' : h.event = "active" => h \in hooks \/ h.sub \in paid',
         \A s \in Subscriptions : rzp'[s] = "active" => rzp[s] = "active" \/ s \in paid',
         \A q \in Requests : At(q, "store")' => call'[q].plan \in Bought'
  PROVE  PlanSeen'
BY DEF PlanSeen

LEMMA SeenByRequest ==
  ASSUME TypeOK, CallsHold, PlanSeen, NEW r \in Requests, Begin(r) \/ Continue(r)
  PROVE  PlanSeen'
<1>0. /\ \A q \in Requests : At(q, "store")' => call'[q].plan \in Bought'
      /\ org.plan \in Bought
  BY SeenByCalls DEF PlanSeen
<1>1. CASE Begin(r)
  <2>1. /\ org' = org /\ hooks' = hooks /\ redeemed' = redeemed /\ paid' = paid
    BY <1>1, Zenon DEF Begin, Subscribe, BeginCancel, BeginRedeem
  <2>2. ASSUME NEW s \in Subscriptions, rzp'[s] = "active" PROVE rzp[s] = "active"
    BY <1>1, <2>2 DEF Begin, Subscribe, BeginCancel, BeginRedeem, TypeOK
  <2>. QED BY <1>0, <2>1, <2>2, SeenAfter, BoughtGrows
<1>2. CASE ReadOrganization(r)
  <2>1. org' = org /\ hooks' = hooks /\ redeemed' = redeemed /\ paid' = paid /\ rzp' = rzp
    BY <1>2, Zenon DEF ReadOrganization
  <2>. QED BY <1>0, <2>1, SeenAfter, BoughtGrows
<1>3. CASE StoreSubscription(r)
  <2>1. /\ hooks' = hooks /\ redeemed' = redeemed /\ paid' = paid /\ rzp' = rzp
        /\ org' = org \/ org' = [plan |-> call[r].plan, sub |-> call[r].sub, status |-> "created"]
    BY <1>3, Zenon DEF StoreSubscription, UpdateOrgBilling
  <2>2. call[r].plan \in Bought
    BY <1>3, Zenon DEF StoreSubscription, PlanSeen
  <2>. QED BY <1>0, <2>1, <2>2, SeenAfter, BoughtGrows
<1>4. CASE CancelAtRazorpay(r)
  <2>1. org' = org /\ redeemed' = redeemed /\ paid' = paid
    BY <1>4, Zenon DEF CancelAtRazorpay
  <2>2. ASSUME NEW h \in hooks', h.event = "active" PROVE h \in hooks
    BY <1>4, <2>2 DEF CancelAtRazorpay, Send
  <2>3. ASSUME NEW s \in Subscriptions, rzp'[s] = "active" PROVE rzp[s] = "active"
    BY <1>4, <2>3 DEF CancelAtRazorpay, TypeOK
  <2>. QED BY <1>0, <2>1, <2>2, <2>3, SeenAfter, BoughtGrows
<1>5. CASE CancelPlan(r)
  <2>1. hooks' = hooks /\ redeemed' = redeemed /\ paid' = paid /\ rzp' = rzp
    BY <1>5, Zenon DEF CancelPlan
  <2>2. org'.plan \in {"free", org.plan}
    BY <1>5, PlanWritten DEF CancelPlan
  <2>3. "free" \in Bought
    BY DEF Bought
  <2>. QED BY <1>0, <2>1, <2>2, <2>3, SeenAfter, BoughtGrows
<1>6. CASE CancelStatus(r)
  <2>1. hooks' = hooks /\ redeemed' = redeemed /\ paid' = paid /\ rzp' = rzp
    BY <1>6, Zenon DEF CancelStatus
  <2>2. org'.plan = org.plan
    BY <1>6, StatusWritten DEF CancelStatus
  <2>. QED BY <1>0, <2>1, <2>2, SeenAfter, BoughtGrows
<1>7. CASE ApplyCoupon(r)
  <2>0. call[r].plan \in Paid
    BY <1>7, Zenon DEF ApplyCoupon, CallsHold
  <2>1. hooks' = hooks /\ paid' = paid /\ rzp' = rzp
    BY <1>7, Zenon DEF ApplyCoupon
  <2>2. CASE org' = org /\ redeemed' = redeemed
    BY <1>0, <2>1, <2>2, SeenAfter, BoughtGrows
  <2>3. CASE /\ org' = [org EXCEPT !.plan = call[r].plan, !.status = "active"]
             /\ redeemed' = redeemed \cup {call[r].plan}
    <3>1. org'.plan = call[r].plan
      BY <2>0, <2>3, CouponWritten
    <3>2. org'.plan \in Bought' /\ redeemed \subseteq redeemed'
      BY <3>1, <2>3 DEF Bought
    <3>. QED BY <1>0, <2>1, <3>2, SeenAfter, BoughtGrows
  <2>. QED BY <1>7, <2>2, <2>3, Zenon DEF ApplyCoupon
<1>. QED BY <1>1, <1>2, <1>3, <1>4, <1>5, <1>6, <1>7 DEF Continue

LEMMA SeenByRazorpay ==
  ASSUME TypeOK, PlanSeen, NEW s \in Subscriptions, RazorpayStep(s)
  PROVE  PlanSeen'
<1>1. org' = org /\ redeemed' = redeemed /\ call' = call
  BY RazorpayKeeps, Zenon
<1>2. paid \subseteq paid'
  BY DEF RazorpayStep, Activate, Charge, Pause, Halt, End, Repeat
<1>3. ASSUME NEW h \in hooks', h.event = "active" PROVE h \in hooks \/ h.sub \in paid'
  BY <1>3 DEF RazorpayStep, Activate, Charge, Pause, Halt, End, Repeat, Send, PlanSeen
<1>4. ASSUME NEW q \in Subscriptions, rzp'[q] = "active" PROVE rzp[q] = "active" \/ q \in paid'
  BY <1>4 DEF RazorpayStep, Activate, Charge, Pause, Halt, End, Repeat, TypeOK
<1>5. Bought \subseteq Bought'
  BY <1>1, <1>2, BoughtGrows
<1>6. \A q \in Requests : At(q, "store")' => call'[q].plan \in Bought'
  BY <1>1, <1>5 DEF At, PlanSeen
<1>. QED BY <1>1, <1>2, <1>3, <1>4, <1>5, <1>6, SeenAfter DEF PlanSeen

LEMMA SeenByHandler ==
  ASSUME TypeOK, PlanSeen, NEW h \in hooks, Handle(h)
  PROVE  PlanSeen'
<1>1. redeemed' = redeemed /\ call' = call /\ paid' = paid /\ rzp' = rzp
  BY Zenon DEF Handle, HandleActive, HandleEnded, HandlePaused, Lookup, HandlePlan, HandleStatus
<1>2. Bought' = Bought
  BY <1>1 DEF Bought
<1>3. \A q \in Requests : At(q, "store")' => call'[q].plan \in Bought'
  BY <1>1, <1>2 DEF At, PlanSeen
<1>4. org.plan \in Bought /\ "free" \in Bought
  BY DEF PlanSeen, Bought
<1>5. Drop(h) => hooks' \subseteq hooks
  BY DEF Drop
<1>6. ASSUME h.event # "active", NEW place \in {"plan", "status"}, Advance(h, place),
             NEW k \in hooks', k.event = "active"
      PROVE  k \in hooks
  <2>1. [h EXCEPT !.at = place].event # "active"
    BY <1>6, HookType
  <2>. QED BY <1>6, <2>1 DEF Advance
<1> DEFINE Kept == \A k \in hooks' : k.event = "active" => k \in hooks
<1>7. CASE HandleActive(h)
  <2>1. h.event = "active" /\ Drop(h)
    BY <1>7, Zenon DEF HandleActive
  <2>2. \/ org' = [plan |-> PlanOf(h.sub), sub |-> h.sub, status |-> "active"]
        \/ org' = org
    BY <1>7, Zenon DEF HandleActive, UpdateOrgBilling
  <2>3. PlanOf(h.sub) \in Bought
    BY <2>1 DEF PlanSeen, Bought, PlanOf
  <2>4. org'.plan \in Bought'
    BY <1>2, <1>4, <2>2, <2>3
  <2>. QED BY <1>1, <1>3, <1>5, <2>1, <2>4, SeenAfter
<1>8. ASSUME h.event # "active", NEW place \in {"plan", "status"}, Lookup(h, place) PROVE PlanSeen'
  <2>1. org' = org /\ (Drop(h) \/ Advance(h, place))
    BY <1>8, Zenon DEF Lookup
  <2>2. Kept
    BY <1>5, <1>6, <1>8, <2>1
  <2>. QED BY <1>1, <1>2, <1>3, <1>4, <2>1, <2>2, SeenAfter
<1>9. ASSUME h.event # "active", HandlePlan(h) PROVE PlanSeen'
  <2>1. UpdateOrgPlan /\ Advance(h, "status")
    BY <1>9, Zenon DEF HandlePlan
  <2>2. org'.plan \in {"free", org.plan}
    BY <2>1, PlanWritten
  <2>3. Kept
    BY <1>6, <1>9, <2>1
  <2>. QED BY <1>1, <1>2, <1>3, <1>4, <2>2, <2>3, SeenAfter
<1>10. ASSUME NEW status \in {"paused", "cancelled"}, HandleStatus(h, status) PROVE PlanSeen'
  <2>1. UpdateOrgSubscriptionStatus(status) /\ Drop(h)
    BY <1>10, Zenon DEF HandleStatus
  <2>2. org'.plan = org.plan
    BY <2>1, StatusWritten
  <2>. QED BY <1>1, <1>2, <1>3, <1>4, <1>5, <2>1, <2>2, SeenAfter
<1>. QED BY <1>7, <1>8, <1>9, <1>10 DEF Handle, HandleEnded, HandlePaused

LEMMA SeenStep == TypeOK /\ CallsHold /\ PlanSeen /\ [Next]_vars => PlanSeen'
<1> SUFFICES ASSUME TypeOK, CallsHold, PlanSeen, [Next]_vars PROVE PlanSeen'
    OBVIOUS
<1>1. CASE UNCHANGED vars
  BY <1>1 DEF vars, PlanSeen, Bought, At
<1>2. CASE Configure
  BY <1>2 DEF Configure, PlanSeen, Bought, At
<1>. QED BY <1>1, <1>2, SeenByRequest, SeenByRazorpay, SeenByHandler DEF Next

LEMMA SeenInit == Init => PlanSeen
BY DEF Init, PlanSeen, Bought, At, Quiet

\* The plan was always paid for or redeemed.
THEOREM PlanBought == Spec => []PlanWasBought
<1>1. PlanSeen => PlanWasBought
  BY DEF PlanSeen, PlanWasBought, Bought
<1>. QED BY <1>1, TypeInit, TypeStep, SeenInit, SeenStep, PTL DEF Spec

-----------------------------------------------------------------------------
(* A free organization is not shown as active.  With the types and the     *)
(* tiers that coupons hold, this is inductive as it stands.                *)

\* A step that neither makes the row free and active, nor hides a reason why it is.
LEMMA FreeKept ==
  ASSUME FreeIsNotActive,
         (org'.plan = "free" /\ org'.status = "active")
            => (org.plan = "free" /\ org.status = "active"),
         missed => missed',
         \A r \in Requests : At(r, "status") => At(r, "status")',
         \A h \in hooks : h.event = "ended" /\ h.at = "status" => h \in hooks'
  PROVE  FreeIsNotActive'
<1> SUFFICES ASSUME org'.plan = "free", org'.status = "active"
             PROVE  \/ missed'
                    \/ \E r \in Requests : At(r, "status")'
                    \/ \E h \in hooks' : h.event = "ended" /\ h.at = "status"
    BY DEF FreeIsNotActive
<1>1. \/ missed
      \/ \E r \in Requests : At(r, "status")
      \/ \E h \in hooks : h.event = "ended" /\ h.at = "status"
  BY DEF FreeIsNotActive
<1>2. CASE missed
  BY <1>2
<1>3. CASE \E r \in Requests : At(r, "status")
  BY <1>3
<1>4. CASE \E h \in hooks : h.event = "ended" /\ h.at = "status"
  BY <1>4
<1>. QED BY <1>1, <1>2, <1>3, <1>4

\* A move from another place hides nobody between the two UPDATEs.
LEMMA OthersStay ==
  ASSUME TypeOK, NEW r \in Requests, ~At(r, "status"),
         \/ Finish(r)
         \/ \E place \in Places, t \in Plan, s \in Sub : Moves(r, place, t, s)
  PROVE  \A q \in Requests : At(q, "status") => At(q, "status")'
<1>1. Finish(r) => Moves(r, "done", "free", NoSubscription)
  BY Ended
<1>2. PICK place \in Places, t \in Plan, s \in Sub : Moves(r, place, t, s)
  BY <1>1 DEF Places, Plan, Sub
<1>3. \A q \in Requests : q # r => call'[q] = call[q]
  BY <1>2, Moved
<1>. QED BY <1>3 DEF At

LEMMA FreeByRequest ==
  ASSUME TypeOK, CallsHold, FreeIsNotActive, NEW r \in Requests, Begin(r) \/ Continue(r)
  PROVE  FreeIsNotActive'
<1> DEFINE Stay == \A q \in Requests : At(q, "status") => At(q, "status")'
<1>0. ASSUME NEW place \in Places, NEW t \in Plan, NEW s \in Sub, Moves(r, place, t, s),
             ~At(r, "status")
      PROVE  Stay
  BY <1>0, OthersStay
<1>1. CASE Begin(r)
  <2>1. org' = org /\ hooks' = hooks /\ missed' = missed /\ At(r, "idle")
    BY <1>1, Zenon DEF Begin, Subscribe, BeginCancel, BeginRedeem
  <2>2. ~At(r, "status")
    BY <2>1 DEF At
  <2>3. CASE Subscribe(r)
    <3>1. ASSUME NEW s \in Subscriptions, Moves(r, "read", call[r].plan, s) PROVE Stay
      BY <3>1, <2>2, <1>0, Held, TierPaid DEF Places
    <3>2. "done" \in Places /\ "free" \in Plan /\ NoSubscription \in Sub
      BY DEF Places, Plan, Sub
    <3>3. ASSUME Moves(r, "done", "free", NoSubscription) PROVE Stay
      BY <3>2, <3>3, <2>2, <1>0
    <3>4. Stay
      BY <2>3, <3>1, <3>3, SubscribeMoves
    <3>. QED BY <2>1, <3>4, FreeKept
  <2>4. CASE BeginCancel(r)
    <3>1. CASE Moves(r, "done", "free", NoSubscription)
      BY <3>1, <2>1, <2>2, <1>0, FreeKept DEF Places, Plan, Sub
    <3>2. CASE Moves(r, "plan", call[r].plan, org.sub)
      BY <3>2, <2>1, <2>2, <1>0, Held, FreeKept DEF Places
    <3>3. CASE Moves(r, "cancel", call[r].plan, org.sub)
      BY <3>3, <2>1, <2>2, <1>0, Held, FreeKept DEF Places
    <3>. QED BY <2>4, <3>1, <3>2, <3>3, CancelMoves
  <2>5. ASSUME NEW t \in Paid, BeginRedeem(r, t) PROVE FreeIsNotActive'
    <3>1. CASE Moves(r, "done", "free", NoSubscription)
      BY <3>1, <2>1, <2>2, <1>0, FreeKept DEF Places, Plan, Sub
    <3>2. CASE Moves(r, "apply", t, call[r].sub)
      BY <3>2, <2>1, <2>2, <1>0, Held, FreeKept DEF Places, Plan
    <3>. QED BY <2>5, <3>1, <3>2, RedeemMoves
  <2>. QED BY <1>1, <2>3, <2>4, <2>5 DEF Begin
<1>2. CASE ReadOrganization(r)
  <2>1. org' = org /\ hooks' = hooks /\ missed' = missed /\ At(r, "read")
    BY <1>2, Zenon DEF ReadOrganization
  <2>2. ~At(r, "status")
    BY <2>1 DEF At
  <2>3. CASE Moves(r, "done", "free", NoSubscription)
    BY <2>3, <2>1, <2>2, <1>0, FreeKept DEF Places, Plan, Sub
  <2>4. CASE Moves(r, "store", org.plan, call[r].sub)
    BY <2>4, <2>1, <2>2, <1>0, Held, FreeKept DEF Places
  <2>. QED BY <1>2, <2>3, <2>4, ReadMoves
<1>3. CASE StoreSubscription(r)
  <2>1. hooks' = hooks /\ Finish(r) /\ At(r, "store")
    BY <1>3, Zenon DEF StoreSubscription
  <2>2. ~At(r, "status") /\ Stay
    BY <2>1, OthersStay DEF At
  <2>3. CASE org' = org /\ missed' = missed
    BY <2>1, <2>2, <2>3, FreeKept
  <2>4. CASE org' = [plan |-> call[r].plan, sub |-> call[r].sub, status |-> "created"]
    BY <2>4 DEF FreeIsNotActive
  <2>. QED BY <1>3, <2>3, <2>4, Zenon DEF StoreSubscription, UpdateOrgBilling
<1>4. CASE CancelAtRazorpay(r)
  <2>1. /\ org' = org /\ missed' = missed /\ At(r, "cancel")
        /\ Moves(r, "plan", "free", NoSubscription)
    BY <1>4, Zenon DEF CancelAtRazorpay, Quiet, Moves
  <2>2. ~At(r, "status")
    BY <2>1 DEF At
  <2>3. Stay
    BY <2>1, <2>2, <1>0 DEF Places, Plan, Sub
  <2>4. hooks \subseteq hooks'
    BY <1>4 DEF CancelAtRazorpay, Send
  <2>. QED BY <2>1, <2>3, <2>4, FreeKept
<1>5. CASE CancelPlan(r)
  <2>1. Moves(r, "status", call[r].plan, call[r].sub)
    BY <1>5, PlanMoves
  <2>2. call[r].plan \in Plan /\ call[r].sub \in Sub /\ "status" \in Places
    BY Held DEF Places
  <2>3. call'[r] = [at |-> "status", plan |-> call[r].plan, sub |-> call[r].sub]
    BY <2>1, <2>2, Moved
  <2>4. At(r, "status")'
    BY <2>3 DEF At
  <2>. QED BY <2>4 DEF FreeIsNotActive
<1>6. CASE CancelStatus(r)
  <2>1. org'.status # "active" \/ missed'
    BY <1>6, StatusWritten DEF CancelStatus
  <2>. QED BY <2>1 DEF FreeIsNotActive
<1>7. CASE ApplyCoupon(r)
  <2>1. hooks' = hooks /\ Finish(r) /\ At(r, "apply")
    BY <1>7, Zenon DEF ApplyCoupon
  <2>2. ~At(r, "status") /\ Stay
    BY <2>1, OthersStay DEF At
  <2>3. CASE org' = org /\ missed' = missed
    BY <2>1, <2>2, <2>3, FreeKept
  <2>4. CASE org' = [org EXCEPT !.plan = call[r].plan, !.status = "active"]
    <3>1. call[r].plan \in Paid
      BY <2>1 DEF CallsHold
    <3>2. org'.plan # "free"
      BY <2>4, <3>1, CouponWritten DEF Paid
    <3>. QED BY <3>2 DEF FreeIsNotActive
  <2>. QED BY <1>7, <2>3, <2>4, Zenon DEF ApplyCoupon
<1>. QED BY <1>1, <1>2, <1>3, <1>4, <1>5, <1>6, <1>7 DEF Continue

LEMMA FreeByRazorpay ==
  ASSUME TypeOK, FreeIsNotActive, NEW s \in Subscriptions, RazorpayStep(s)
  PROVE  FreeIsNotActive'
<1>1. org' = org /\ missed' = missed /\ call' = call
  BY RazorpayKeeps, Zenon
<1>2. hooks \subseteq hooks'
  BY DEF RazorpayStep, Activate, Charge, Pause, Halt, End, Repeat, Send
<1>. QED BY <1>1, <1>2, FreeKept DEF At

LEMMA FreeByHandler ==
  ASSUME TypeOK, FreeIsNotActive, NEW h \in hooks, Handle(h)
  PROVE  FreeIsNotActive'
<1>1. \A r \in Requests : At(r, "status") => At(r, "status")'
  <2>1. call' = call
    BY Zenon DEF Handle, HandleActive, HandleEnded, HandlePaused, Lookup, HandlePlan, HandleStatus
  <2>. QED BY <2>1 DEF At
<1>2. ASSUME ~(h.event = "ended" /\ h.at = "status"),
             \/ Drop(h)
             \/ \E place \in {"plan", "status"} : Advance(h, place)
      PROVE  \A k \in hooks : k.event = "ended" /\ k.at = "status" => k \in hooks'
  BY <1>2 DEF Drop, Advance
<1>3. CASE HandleActive(h)
  <2>1. h.event = "active" /\ Drop(h)
    BY <1>3, Zenon DEF HandleActive
  <2>2. CASE org' = org /\ missed' = missed
    BY <2>1, <2>2, <1>1, <1>2, FreeKept
  <2>3. CASE /\ org' = [plan |-> PlanOf(h.sub), sub |-> h.sub, status |-> "active"]
             /\ missed' = (h.sub \in retired)
    <3>1. CASE h.sub \in retired
      BY <2>3, <3>1, Zenon DEF FreeIsNotActive
    <3>2. CASE h.sub \notin retired
      <4>1. org'.plan # "free"
        BY <2>3, <3>2, HookType, TierPaid DEF Paid, PlanOf
      <4>. QED BY <4>1 DEF FreeIsNotActive
    <3>. QED BY <3>1, <3>2
  <2>. QED BY <1>3, <2>2, <2>3, Zenon DEF HandleActive, UpdateOrgBilling
<1>4. ASSUME NEW place \in {"plan", "status"}, Lookup(h, place) PROVE FreeIsNotActive'
  <2>1. org' = org /\ missed' = missed /\ h.at = "sent" /\ (Drop(h) \/ Advance(h, place))
    BY <1>4, Zenon DEF Lookup
  <2>. QED BY <2>1, <1>1, <1>2, FreeKept
<1>5. ASSUME h.event = "ended", HandlePlan(h) PROVE FreeIsNotActive'
  <2>1. Advance(h, "status")
    BY <1>5, Zenon DEF HandlePlan
  <2>2. [event |-> h.event, sub |-> h.sub, at |-> "status"] \in hooks'
    BY <2>1, HookType DEF Advance
  <2>. QED BY <1>5, <2>2 DEF FreeIsNotActive
<1>6. ASSUME NEW status \in {"paused", "cancelled"}, HandleStatus(h, status) PROVE FreeIsNotActive'
  <2>1. org'.status # "active" \/ missed'
    BY <1>6, StatusWritten DEF HandleStatus
  <2>. QED BY <2>1 DEF FreeIsNotActive
<1>. QED BY <1>3, <1>4, <1>5, <1>6 DEF Handle, HandleEnded, HandlePaused

LEMMA FreeStep == TypeOK /\ CallsHold /\ FreeIsNotActive /\ [Next]_vars => FreeIsNotActive'
<1> SUFFICES ASSUME TypeOK, CallsHold, FreeIsNotActive, [Next]_vars PROVE FreeIsNotActive'
    OBVIOUS
<1>1. CASE UNCHANGED vars
  BY <1>1, FreeKept DEF vars, At
<1>2. CASE Configure
  BY <1>2, FreeKept DEF Configure, At
<1>. QED BY <1>1, <1>2, FreeByRequest, FreeByRazorpay, FreeByHandler DEF Next

\* A free organization is shown as active only while its downgrade is between two
\* UPDATEs or after the second failed, or once it was charged for an unknown plan id.
THEOREM FreeNotActive == Spec => []FreeIsNotActive
<1>1. Init => FreeIsNotActive
  BY DEF Init, FreeIsNotActive
<1>. QED BY <1>1, TypeInit, TypeStep, FreeStep, PTL DEF Spec

-----------------------------------------------------------------------------
(* A paid plan is covered.                                                 *)

\* PaidPlanIsCovered is not inductive: the second UPDATE of a downgrade ends its
\* webhook, and the webhook must not have been all that covered the plan.  It is not
\* if only webhooks that have the downgrade still before them count.
EndToCome(h) == h.event = "ended" /\ h.at # "status" /\ Tier[h.sub] = org.plan

Covered ==
    org.plan # "free" =>
        \/ org.plan \in redeemed
        \/ \E s \in Live : Tier[s] = org.plan
        \/ \E h \in hooks : EndToCome(h)
        \/ slipped

LEMMA CoveredKept ==
  ASSUME Covered,
         org'.plan \in {"free", org.plan},
         redeemed \subseteq redeemed',
         \A s \in Live : Tier[s] = org.plan =>
             s \in Live' \/ \E h \in hooks' : EndToCome(h)',
         org'.plan = org.plan =>
            \A h \in hooks : EndToCome(h) => slipped' \/ \E k \in hooks' : EndToCome(k)',
         slipped => slipped'
  PROVE  Covered'
<1> SUFFICES ASSUME org'.plan # "free"
             PROVE  \/ org'.plan \in redeemed'
                    \/ \E s \in Live' : Tier[s] = org'.plan
                    \/ \E h \in hooks' : EndToCome(h)'
                    \/ slipped'
    BY DEF Covered
<1>0. org'.plan = org.plan
  OBVIOUS
<1>1. CASE org.plan \in redeemed
  BY <1>0, <1>1
<1>2. CASE \E s \in Live : Tier[s] = org.plan
  BY <1>0, <1>2
<1>3. CASE \E h \in hooks : EndToCome(h)
  BY <1>0, <1>3
<1>4. CASE slipped
  BY <1>4
<1>. QED BY <1>0, <1>1, <1>2, <1>3, <1>4 DEF Covered

\* The same for a step that keeps the row's plan and every webhook.
LEMMA CoveredStays ==
  ASSUME Covered, org'.plan = org.plan, redeemed' = redeemed, Live \subseteq Live',
         hooks \subseteq hooks', slipped => slipped'
  PROVE  Covered'
<1>1. \A h \in hooks : EndToCome(h) => h \in hooks' /\ EndToCome(h)'
  BY DEF EndToCome
<1>. QED BY <1>1, CoveredKept

\* A subscription that ends is followed by its webhook.
LEMMA CoveredByEnd ==
  ASSUME TypeOK, Covered, NEW s \in Subscriptions,
         rzp' = [rzp EXCEPT ![s] = "ended"], Send("ended", s),
         org' = org, redeemed' = redeemed, slipped' = slipped
  PROVE  Covered'
<1>1. hooks \subseteq hooks' /\ [event |-> "ended", sub |-> s, at |-> "sent"] \in hooks'
  BY DEF Send
<1>2. ASSUME NEW q \in Live, Tier[q] = org.plan
      PROVE  q \in Live' \/ \E h \in hooks' : EndToCome(h)'
  <2>1. CASE q = s
    BY <1>1, <1>2, <2>1 DEF EndToCome
  <2>2. CASE q # s
    BY <2>2 DEF Live, TypeOK
  <2>. QED BY <2>1, <2>2
<1>3. \A h \in hooks : EndToCome(h) => h \in hooks' /\ EndToCome(h)'
  BY <1>1 DEF EndToCome
<1>. QED BY <1>2, <1>3, CoveredKept

LEMMA CoveredByRequest ==
  ASSUME TypeOK, CallsHold, Covered, NEW r \in Requests, Begin(r) \/ Continue(r)
  PROVE  Covered'
<1>1. CASE Begin(r)
  <2>1. org' = org /\ hooks' = hooks /\ redeemed' = redeemed /\ slipped' = slipped
    BY <1>1, Zenon DEF Begin, Subscribe, BeginCancel, BeginRedeem
  <2>2. Live \subseteq Live'
    BY <1>1 DEF Begin, Subscribe, BeginCancel, BeginRedeem, Live, TypeOK
  <2>. QED BY <2>1, <2>2, CoveredStays
<1>2. CASE ReadOrganization(r)
  <2>1. /\ org' = org /\ hooks' = hooks /\ redeemed' = redeemed /\ slipped' = slipped
        /\ rzp' = rzp
    BY <1>2, Zenon DEF ReadOrganization
  <2>. QED BY <2>1, CoveredStays DEF Live
<1>3. CASE StoreSubscription(r)
  <2>1. hooks' = hooks /\ redeemed' = redeemed /\ rzp' = rzp
    BY <1>3, Zenon DEF StoreSubscription
  <2>2. CASE org' = org /\ slipped' = slipped
    BY <2>1, <2>2, CoveredStays DEF Live
  <2>3. CASE /\ org' = [plan |-> call[r].plan, sub |-> call[r].sub, status |-> "created"]
             /\ slipped' = (slipped \/ call[r].plan # org.plan)
    <3>1. CASE call[r].plan = org.plan
      <4>1. org'.plan = org.plan /\ (slipped => slipped')
        BY <2>3, <3>1
      <4>. QED BY <2>1, <4>1, CoveredStays DEF Live
    <3>2. CASE call[r].plan # org.plan
      BY <2>3, <3>2, Zenon DEF Covered
    <3>. QED BY <3>1, <3>2
  <2>. QED BY <1>3, <2>2, <2>3, Zenon DEF StoreSubscription, UpdateOrgBilling
<1>4. CASE CancelAtRazorpay(r)
  <2>1. /\ org' = org /\ redeemed' = redeemed /\ slipped' = slipped
        /\ \/ rzp' = [rzp EXCEPT ![call[r].sub] = "ended"] /\ Send("ended", call[r].sub)
           \/ rzp' = rzp /\ hooks' = hooks
    BY <1>4, Zenon DEF CancelAtRazorpay
  <2>2. call[r].sub \in Subscriptions
    BY <1>4 DEF CancelAtRazorpay, CallsHold
  <2>3. CASE rzp' = [rzp EXCEPT ![call[r].sub] = "ended"] /\ Send("ended", call[r].sub)
    BY <2>1, <2>2, <2>3, CoveredByEnd
  <2>4. CASE rzp' = rzp /\ hooks' = hooks
    BY <2>1, <2>4, CoveredStays DEF Live
  <2>. QED BY <2>1, <2>3, <2>4
<1>5. CASE CancelPlan(r)
  <2>1. hooks' = hooks /\ redeemed' = redeemed /\ rzp' = rzp /\ UpdateOrgPlan
    BY <1>5, Zenon DEF CancelPlan
  <2>. QED BY <2>1, PlanWritten DEF Covered
<1>6. CASE CancelStatus(r)
  <2>1. hooks' = hooks /\ redeemed' = redeemed /\ rzp' = rzp /\ slipped' = slipped
    BY <1>6, Zenon DEF CancelStatus
  <2>2. org'.plan = org.plan
    BY <1>6, StatusWritten DEF CancelStatus
  <2>. QED BY <2>1, <2>2, CoveredStays DEF Live
<1>7. CASE ApplyCoupon(r)
  <2>1. hooks' = hooks /\ rzp' = rzp /\ At(r, "apply")
    BY <1>7, Zenon DEF ApplyCoupon
  <2>2. CASE org' = org /\ redeemed' = redeemed /\ slipped' = slipped
    BY <2>1, <2>2, CoveredStays DEF Live
  <2>3. CASE /\ org' = [org EXCEPT !.plan = call[r].plan, !.status = "active"]
             /\ redeemed' = redeemed \cup {call[r].plan}
    <3>1. call[r].plan \in Paid
      BY <2>1 DEF CallsHold
    <3>2. org'.plan = call[r].plan
      BY <2>3, <3>1, CouponWritten
    <3>. QED BY <2>3, <3>2 DEF Covered
  <2>. QED BY <1>7, <2>2, <2>3, Zenon DEF ApplyCoupon
<1>. QED BY <1>1, <1>2, <1>3, <1>4, <1>5, <1>6, <1>7 DEF Continue

LEMMA CoveredByRazorpay ==
  ASSUME TypeOK, Covered, NEW s \in Subscriptions, RazorpayStep(s)
  PROVE  Covered'
<1>1. org' = org /\ redeemed' = redeemed /\ slipped' = slipped
  BY RazorpayKeeps, Zenon
<1>2. CASE End(s)
  BY <1>1, <1>2, CoveredByEnd DEF End
<1>3. CASE Activate(s) \/ Charge(s) \/ Pause(s) \/ Halt(s) \/ Repeat(s)
  <2>1. hooks \subseteq hooks'
    BY <1>3 DEF Activate, Charge, Pause, Halt, Repeat, Send
  <2>2. Live \subseteq Live'
    BY <1>3 DEF Activate, Charge, Pause, Halt, Repeat, Live, TypeOK
  <2>. QED BY <1>1, <2>1, <2>2, CoveredStays
<1>. QED BY <1>2, <1>3 DEF RazorpayStep

LEMMA CoveredByHandler ==
  ASSUME TypeOK, Covered, NEW h \in hooks, Handle(h)
  PROVE  Covered'
<1>1. redeemed' = redeemed /\ rzp' = rzp
  BY Zenon DEF Handle, HandleActive, HandleEnded, HandlePaused, Lookup, HandlePlan, HandleStatus
<1>2. Live' = Live
  BY <1>1 DEF Live
<1>3. ASSUME org'.plan = org.plan, slipped => slipped', Drop(h), EndToCome(h) => slipped'
      PROVE  Covered'
  <2>1. \A k \in hooks : k # h => k \in hooks'
    BY <1>3 DEF Drop
  <2>2. \A k \in hooks : EndToCome(k) => slipped' \/ (k \in hooks' /\ EndToCome(k)')
    BY <1>3, <2>1 DEF EndToCome
  <2>. QED BY <1>1, <1>2, <1>3, <2>2, CoveredKept
<1>4. CASE HandleActive(h)
  <2>1. h.event = "active" /\ Drop(h)
    BY <1>4, Zenon DEF HandleActive
  <2>2. CASE org' = org /\ slipped' = slipped
    BY <1>3, <2>1, <2>2 DEF EndToCome
  <2>3. CASE /\ org' = [plan |-> PlanOf(h.sub), sub |-> h.sub, status |-> "active"]
             /\ slipped' = (h.sub \notin Live)
    <3>1. CASE h.sub \in Live
      <4>1. org'.plan = "free" \/ Tier[h.sub] = org'.plan
        BY <2>3 DEF PlanOf
      <4>. QED BY <1>2, <3>1, <4>1 DEF Covered
    <3>2. CASE h.sub \notin Live
      BY <2>3, <3>2, Zenon DEF Covered
    <3>. QED BY <3>1, <3>2
  <2>. QED BY <1>4, <2>2, <2>3, Zenon DEF HandleActive, UpdateOrgBilling
<1>5. ASSUME NEW place \in {"plan", "status"}, Lookup(h, place), h.event = "ended" => place = "plan"
      PROVE  Covered'
  <2>1. /\ org' = org
        /\ \/ Advance(h, place) /\ slipped' = slipped
           \/ /\ Drop(h)
              /\ slipped' = (slipped \/ (h.event = "ended" /\ org.plan = Tier[h.sub]))
    BY <1>5, Zenon DEF Lookup
  <2>2. CASE Advance(h, place) /\ slipped' = slipped
    <3>1. [event |-> h.event, sub |-> h.sub, at |-> place] \in hooks'
      BY <2>2, HookType DEF Advance
    <3>2. \A k \in hooks : k # h => k \in hooks'
      BY <2>2 DEF Advance
    <3>3. EndToCome(h) => EndToCome([event |-> h.event, sub |-> h.sub, at |-> place])'
      BY <1>5, <2>1 DEF EndToCome
    <3>4. \A k \in hooks : EndToCome(k) => \E l \in hooks' : EndToCome(l)'
      <4> SUFFICES ASSUME NEW k \in hooks, EndToCome(k) PROVE \E l \in hooks' : EndToCome(l)'
          OBVIOUS
      <4>1. EndToCome(k)'
        BY <2>1 DEF EndToCome
      <4>. QED BY <3>1, <3>2, <3>3, <4>1
    <3>. QED BY <1>1, <1>2, <2>1, <2>2, <3>4, CoveredKept
  <2>3. CASE /\ Drop(h)
             /\ slipped' = (slipped \/ (h.event = "ended" /\ org.plan = Tier[h.sub]))
    <3>1. slipped => slipped'
      BY <2>3, Zenon
    <3>2. EndToCome(h) => slipped'
      BY <2>3, Zenon DEF EndToCome
    <3>. QED BY <1>3, <2>1, <2>3, <3>1, <3>2
  <2>. QED BY <2>1, <2>2, <2>3
<1>6. CASE HandlePlan(h)
  <2>1. UpdateOrgPlan
    BY <1>6, Zenon DEF HandlePlan
  <2>. QED BY <2>1, PlanWritten DEF Covered
<1>7. ASSUME NEW status \in {"paused", "cancelled"}, HandleStatus(h, status) PROVE Covered'
  <2>1. h.at = "status" /\ Drop(h) /\ slipped' = slipped
    BY <1>7, Zenon DEF HandleStatus
  <2>2. org'.plan = org.plan
    BY <1>7, StatusWritten DEF HandleStatus
  <2>. QED BY <1>3, <2>1, <2>2 DEF EndToCome
<1>. QED BY <1>4, <1>5, <1>6, <1>7 DEF Handle, HandleEnded, HandlePaused

LEMMA CoveredStep == TypeOK /\ CallsHold /\ Covered /\ [Next]_vars => Covered'
<1> SUFFICES ASSUME TypeOK, CallsHold, Covered, [Next]_vars PROVE Covered'
    OBVIOUS
<1>1. CASE UNCHANGED vars
  BY <1>1, CoveredStays DEF vars, Live
<1>2. CASE Configure
  BY <1>2, CoveredStays DEF Configure, Live
<1>. QED BY <1>1, <1>2, CoveredByRequest, CoveredByRazorpay, CoveredByHandler DEF Next

\* A paid plan has a subscription or a coupon behind it, or its end on the way, or one
\* of the five mishaps after it was last written rightly.
THEOREM PaidCovered == Spec => []PaidPlanIsCovered
<1>1. Init => Covered
  BY DEF Init, Covered
<1>2. Covered => PaidPlanIsCovered
  BY DEF Covered, PaidPlanIsCovered, EndToCome
<1>. QED BY <1>1, <1>2, TypeInit, TypeStep, CoveredStep, PTL DEF Spec

-----------------------------------------------------------------------------
(* The organization as a whole: Billing's steps and those of Projects,     *)
(* which reads the plan from Billing's row.  Projects lets the plan change *)
(* to any other at any time; here it changes as Billing changes it.        *)

CONSTANTS Calls, Slugs, NoSlug, Limit, Losses

VARIABLES project, env, rows, pcall, roof, unlimited, peak, disturbed, lost

Pr == INSTANCE ProjectsProofs WITH
    plan <- org.plan, Plans <- Plan, Requests <- Calls, call <- pcall,
    MaxFaults <- Losses, faults <- lost

projects == <<project, env, rows, pcall, roof, unlimited, peak, disturbed, lost>>

OrgInit == Init /\ Pr!Init

OrgNext == (Next /\ UNCHANGED projects) \/ (UNCHANGED vars /\ Pr!Next)

OrgSpec == OrgInit /\ [][OrgNext]_<<vars, projects>>

LEMMA BillingAdvances == [OrgNext]_<<vars, projects>> => [Next]_vars
BY DEF OrgNext

\* What Billing does to the plan is a change of plan, or nothing, to Projects.
LEMMA ProjectsAdvance ==
  TypeOK /\ TypeOK' /\ [OrgNext]_<<vars, projects>> => [Pr!Next]_(Pr!vars)
<1> SUFFICES ASSUME TypeOK', [OrgNext]_<<vars, projects>>, ~Pr!Next PROVE UNCHANGED Pr!vars
    OBVIOUS
<1>1. UNCHANGED projects
  BY Zenon DEF OrgNext
<1>2. org'.plan \in Plan
  BY DEF TypeOK, Org
<1>3. CASE org'.plan = org.plan
  BY <1>1, <1>3, Zenon DEF projects, Pr!vars, Pr!aux
<1>4. CASE org'.plan # org.plan
  <2>1. Pr!SetPlan(org'.plan)
    BY <1>1, <1>4, Zenon DEF projects, Pr!SetPlan, Pr!aux
  <2>. QED BY <1>2, <2>1, Zenon DEF Pr!Next
<1>. QED BY <1>3, <1>4

LEMMA OrgTypes == OrgSpec => [](TypeOK /\ CallsHold /\ PlanSeen)
<1>1. OrgInit => Init
  BY DEF OrgInit
<1>. QED
  BY <1>1, BillingAdvances, TypeInit, TypeStep, SeenInit, SeenStep, PTL DEF OrgSpec

\* With its plan changed by Billing's handlers the projects are still those of module
\* Projects: what holds there under changes of plan at any time holds here.
THEOREM ProjectsUnderBilling == OrgSpec => Pr!Spec
<1>1. OrgInit => Pr!Init
  BY DEF OrgInit
<1>. QED BY <1>1, OrgTypes, ProjectsAdvance, PTL DEF OrgSpec, Pr!Spec

\* The projects of an organization are within the limit of a plan it has paid for or
\* redeemed, or of the free one, but for the creates that overlapped, less one, and
\* the failures: no order of subscribes, webhooks, coupons and cancellations lets it
\* create one under a plan it never bought.  Counted are the live projects and the
\* creates between their COUNT and INSERT; one project may be there from the start.
ProjectsWereBought ==
    \/ \E t \in Bought : Limit[t].projects = 0
    \/ \E n \in {1} \cup {Limit[t].projects : t \in Bought} :
          Pr!Count <= n + peak - 1 + lost

LEMMA BoughtKept ==
  ASSUME TypeOK, [OrgNext]_<<vars, projects>>
  PROVE  Bought \subseteq Bought'
<1>1. redeemed \subseteq redeemed' /\ paid \subseteq paid'
  <2>1. CASE UNCHANGED vars
    BY <2>1 DEF vars
  <2>2. ASSUME NEW r \in Requests, Begin(r) \/ Continue(r)
        PROVE  redeemed \subseteq redeemed' /\ paid' = paid
    BY <2>2 DEF Begin, Subscribe, BeginCancel, BeginRedeem, Continue, ReadOrganization,
                StoreSubscription, CancelAtRazorpay, CancelPlan, CancelStatus, ApplyCoupon
  <2>3. ASSUME NEW s \in Subscriptions, RazorpayStep(s)
        PROVE  redeemed' = redeemed /\ paid \subseteq paid'
    BY <2>3 DEF RazorpayStep, Activate, Charge, Pause, Halt, End, Repeat
  <2>4. ASSUME NEW h \in hooks, Handle(h) PROVE redeemed' = redeemed /\ paid' = paid
    BY <2>4, Zenon DEF Handle, HandleActive, HandleEnded, HandlePaused, Lookup, HandlePlan,
                       HandleStatus
  <2>5. Next \/ UNCHANGED vars
    BY BillingAdvances
  <2>6. CASE Configure
    BY <2>6 DEF Configure
  <2>. QED BY <2>1, <2>2, <2>3, <2>4, <2>5, <2>6 DEF Next
<1>. QED BY <1>1, BoughtGrows

\* Of all the limits in use the plan was bought.
LEMMA UsesBought ==
  ASSUME Pr!ProjectsAssumption
  PROVE  OrgSpec => []Pr!UsesOnly(Bought)
<1>1. OrgInit => Pr!UsesOnly(Bought)
  <2> SUFFICES ASSUME OrgInit PROVE Pr!UsesOnly(Bought)
      OBVIOUS
  <2>1. PICK B : B = Bought
    OBVIOUS
  <2>2. Pr!UsesOnly(B)
    BY Pr!UsesInit DEF OrgInit
  <2>. QED BY <2>1, <2>2, Zenon
<1>2. /\ TypeOK /\ PlanSeen /\ Pr!TypeOK /\ Pr!CallsFit /\ Pr!UsesOnly(Bought)
      /\ [OrgNext]_<<vars, projects>> /\ [Pr!Next]_(Pr!vars)
      => Pr!UsesOnly(Bought)'
  <2> SUFFICES ASSUME TypeOK, PlanSeen, Pr!TypeOK, Pr!CallsFit, Pr!UsesOnly(Bought),
                      [OrgNext]_<<vars, projects>>, [Pr!Next]_(Pr!vars)
               PROVE  Pr!UsesOnly(Bought)'
      OBVIOUS
  <2>1. PICK B : B = Bought
    OBVIOUS
  <2>2. Pr!UsesOnly(B) /\ org.plan \in B
    BY <2>1, Zenon DEF PlanSeen
  <2>3. Pr!UsesOnly(B)'
    BY <2>2, Pr!UsesStep
  <2>4. B \subseteq Bought'
    BY <2>1, BoughtKept
  <2>. QED BY <2>3, <2>4 DEF Pr!UsesOnly, Pr!LimitsOf
<1>3. OrgInit => Pr!Init
  BY DEF OrgInit
<1>. QED
  BY <1>1, <1>2, <1>3, OrgTypes, ProjectsAdvance, Pr!TypeInit, Pr!TypeStep, PTL DEF OrgSpec

\* No plan's limit is used unless the plan was bought.
THEOREM LimitsWereBought ==
  ASSUME Pr!ProjectsAssumption
  PROVE  OrgSpec => []ProjectsWereBought
<1>1. ASSUME Pr!TypeOK, Pr!UsesOnly(Bought), Pr!ProjectLimit PROVE ProjectsWereBought
  <2>1. CASE unlimited
    BY <1>1, <2>1, Zenon DEF Pr!UsesOnly, Pr!LimitsOf, ProjectsWereBought
  <2>2. CASE ~unlimited
    <3>1. Pr!Count <= roof + peak - 1 + lost
      BY <1>1, <2>2, Zenon DEF Pr!ProjectLimit, Pr!Count
    <3>2. CASE roof \in {Limit[t].projects : t \in Bought} \cup {1}
      BY <3>1, <3>2 DEF ProjectsWereBought
    <3>3. CASE roof = 0
      <4>1. Pr!Count \in Nat /\ peak \in Nat /\ lost \in Nat
        BY <1>1, Pr!CountNat, Pr!Finite DEF Pr!TypeOK
      <4>2. Pr!Count <= 1 + peak - 1 + lost
        BY <3>1, <3>3, <4>1
      <4>. QED BY <4>2 DEF ProjectsWereBought
    <3>. QED BY <1>1, <3>2, <3>3 DEF Pr!UsesOnly, Pr!LimitsOf
  <2>. QED BY <2>1, <2>2
<1>. QED
  BY <1>1, UsesBought, ProjectsUnderBilling, Pr!TypeCorrect, Pr!LimitHolds, PTL
=============================================================================
