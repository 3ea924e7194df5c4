--------------------------- MODULE Subscriptions ---------------------------
(***************************************************************************)
(* What one user pays for: the Razorpay webhook (subscriptions/router.py   *)
(* and service.py), users.tier, and the tier cache in Redis that every     *)
(* request reads (auth/service.py, resolve_tier_with_db), with the admin's *)
(* tier override (billing/service.py, admin_set_user_plan).                *)
(*                                                                         *)
(* Razorpay is external: a subscription becomes active, then cancelled;    *)
(* each change is an event, delivered, in any order and by several         *)
(* handlers at once, until a delivery is answered with a 200 or Razorpay   *)
(* gives up.  The plan is one of EXACT_PLAN_TIERS, so that an active       *)
(* subscription is worth "pro".                                            *)
(***************************************************************************)
EXTENDS Integers

CONSTANTS
  Subs,        \* the user's subscriptions
  Handlers,    \* webhook deliveries the server handles at a time
  Readers,     \* requests that resolve the tier at a time
  MaxFaults,   \* bound: deliveries that fail or are repeated after a 200
  MaxPlans     \* bound: tiers an admin sets

ASSUME SubscriptionsAssumption == MaxFaults \in Nat /\ MaxPlans \in Nat

VARIABLES
  status,    \* per subscription, its status at Razorpay
  acked,     \* events answered with a 200
  marked,    \* events with a key auth:rzp_evt:{event}
  rows,      \* per subscription, the status in auth.subscriptions, "none" if no row
  tier,      \* users.tier
  cache,     \* auth:tier:{user}, "none" if there is no key
  handler,   \* per delivery: where it is and its event
  reader,    \* per request: where it is and the tier it has read
  faults,    \* faults so far
  plans,     \* tiers set by an admin so far
  applied,   \* ghost: per event, how often it was committed
  spoilt     \* ghost: events a delivery of which failed once it had marked them

vars == <<status, acked, marked, rows, tier, cache, handler, reader, faults, plans, applied, spoilt>>
gateway == <<status, acked>>
stored  == <<rows, tier, applied>>

Statuses == {"none", "active", "cancelled"}
Events == [sub : Subs, status : {"active", "cancelled"}]
Tiers == {"free", "pro"}

Sent == {e \in Events : \/ status[e.sub] = e.status
                        \/ status[e.sub] = "cancelled"}

\* _derive_tier
DerivedTier(s) == IF s = "active" THEN "pro" ELSE "free"

NoDelivery == [at |-> "idle"]
NoRead == [at |-> "idle"]

-----------------------------------------------------------------------------

Init ==
  /\ status = [s \in Subs |-> "none"] /\ acked = {}
  /\ marked = {}
  /\ rows = [s \in Subs |-> "none"] /\ tier = "free"
  /\ cache = "none"
  /\ handler = [h \in Handlers |-> NoDelivery]
  /\ reader = [r \in Readers |-> NoRead]
  /\ faults = 0 /\ plans = 0
  /\ applied = [e \in Events |-> 0]
  /\ spoilt = {}

\* The subscription the checkout created is paid for, or cancelled.
RazorpayChanges ==
  /\ \E s \in Subs :
       \/ status[s] = "none" /\ status' = [status EXCEPT ![s] = "active"]
       \/ status[s] = "active" /\ status' = [status EXCEPT ![s] = "cancelled"]
  /\ UNCHANGED <<acked, marked, stored, cache, handler, reader, faults, plans, spoilt>>

\* A delivery arrives; a repeated one, of an event already answered, is a fault.
Deliver(h, e) ==
  /\ handler[h].at = "idle"
  /\ e \in Sent
  /\ IF e \in acked THEN faults < MaxFaults /\ faults' = faults + 1 ELSE UNCHANGED faults
  /\ handler' = [handler EXCEPT ![h] = [at |-> "verified", event |-> e]]
  /\ UNCHANGED <<gateway, marked, stored, cache, reader, plans, spoilt>>

\* Mutant: EXISTS and SET, in two steps.
MarkByLookup(h) ==
  \/ /\ handler[h].at = "verified" /\ handler[h].event \notin marked
     /\ handler' = [handler EXCEPT ![h].at = "looked"]
     /\ UNCHANGED <<gateway, marked, stored, cache, reader, faults, plans, spoilt>>
  \/ /\ handler[h].at = "looked"
     /\ marked' = marked \cup {handler[h].event}
     /\ handler' = [handler EXCEPT ![h].at = "marked"]
     /\ UNCHANGED <<gateway, stored, cache, reader, faults, plans, spoilt>>

\* Mutant: the key is the subscription's, not the event's.
MarkSubscription(h) ==
  /\ handler[h].at = "verified" /\ handler[h].event \notin marked
  /\ marked' = marked \cup {e \in Events : e.sub = handler[h].event.sub}
  /\ handler' = [handler EXCEPT ![h].at = "marked"]
  /\ UNCHANGED <<gateway, stored, cache, reader, faults, plans, spoilt>>

\* SET NX of the event's key, whose life is longer than Razorpay's retries.
Mark(h) ==
  /\ handler[h].at = "verified" /\ handler[h].event \notin marked
  /\ marked' = marked \cup {handler[h].event}
  /\ handler' = [handler EXCEPT ![h].at = "marked"]
  /\ UNCHANGED <<gateway, stored, cache, reader, faults, plans, spoilt>>

\* The key is there: 200, duplicate_ignored.
Ignore(h) ==
  /\ handler[h].at = "verified" /\ handler[h].event \in marked
  /\ acked' = acked \cup {handler[h].event}
  /\ handler' = [handler EXCEPT ![h] = NoDelivery]
  /\ UNCHANGED <<status, marked, stored, cache, reader, faults, plans, spoilt>>

\* Mutant: the status is stored for the tier.
CommitStatus(h) ==
  /\ handler[h].at = "marked"
  /\ LET e == handler[h].event IN
       /\ rows' = [rows EXCEPT ![e.sub] = e.status]
       /\ tier' = e.status
       /\ applied' = [applied EXCEPT ![e] = @ + 1]
  /\ handler' = [handler EXCEPT ![h].at = "committed"]
  /\ UNCHANGED <<gateway, marked, cache, reader, faults, plans, spoilt>>

\* The subscription's row is upserted and users.tier set, in one transaction.
\* (SQLAlchemy writes no tier that equals the one it has read: as if the
\* transaction had committed it at that moment.)
Commit(h) ==
  /\ handler[h].at = "marked"
  /\ LET e == handler[h].event IN
       /\ rows' = [rows EXCEPT ![e.sub] = e.status]
       /\ tier' = DerivedTier(e.status)
       /\ applied' = [applied EXCEPT ![e] = @ + 1]
  /\ handler' = [handler EXCEPT ![h].at = "committed"]
  /\ UNCHANGED <<gateway, marked, cache, reader, faults, plans, spoilt>>

\* flush_tier_cache, and 200.
Flush(h) ==
  /\ handler[h].at = "committed"
  /\ cache' = "none"
  /\ acked' = acked \cup {handler[h].event}
  /\ handler' = [handler EXCEPT ![h] = NoDelivery]
  /\ UNCHANGED <<status, marked, stored, reader, faults, plans, spoilt>>

\* A delivery fails anywhere: Redis, Postgres or the server does, or the 200
\* is lost on its way (the flush may then have been made).
DeliveryFails(h) ==
  /\ handler[h].at # "idle"
  /\ faults < MaxFaults
  /\ faults' = faults + 1
  /\ spoilt' = IF handler[h].at = "marked" THEN spoilt \cup {handler[h].event} ELSE spoilt
  /\ handler' = [handler EXCEPT ![h] = NoDelivery]
  /\ \/ UNCHANGED cache
     \/ handler[h].at = "committed" /\ cache' = "none"
  /\ UNCHANGED <<gateway, marked, stored, reader, plans>>

\* admin_set_user_plan commits; it does not touch the cache.
SetPlan ==
  /\ plans < MaxPlans
  /\ plans' = plans + 1
  /\ tier' \in Tiers
  /\ UNCHANGED <<gateway, marked, rows, applied, cache, handler, reader, faults, spoilt>>

\* resolve_tier_with_db: a miss in the cache, and the tier is read.
ReadTier(r) ==
  /\ reader[r].at = "idle"
  /\ cache = "none"
  /\ reader' = [reader EXCEPT ![r] = [at |-> "read", tier |-> tier]]
  /\ UNCHANGED <<gateway, marked, stored, cache, handler, faults, plans, spoilt>>

\* The tier read is cached; or the request dies before.
FillCache(r) ==
  /\ reader[r].at = "read"
  /\ cache' = reader[r].tier
  /\ reader' = [reader EXCEPT ![r] = NoRead]
  /\ UNCHANGED <<gateway, marked, stored, handler, faults, plans, spoilt>>

ReadFails(r) ==
  /\ reader[r].at = "read"
  /\ reader' = [reader EXCEPT ![r] = NoRead]
  /\ UNCHANGED <<gateway, marked, stored, cache, handler, faults, plans, spoilt>>

\* Mutant: the key is set without TIER_TTL.
NeverExpire == FALSE /\ UNCHANGED vars

\* TIER_TTL runs out.
CacheExpires ==
  /\ cache # "none"
  /\ cache' = "none"
  /\ UNCHANGED <<gateway, marked, stored, handler, reader, faults, plans, spoilt>>

Next ==
  \/ RazorpayChanges \/ SetPlan \/ CacheExpires
  \/ \E h \in Handlers :
       \/ \E e \in Events : Deliver(h, e)
       \/ Mark(h) \/ Ignore(h) \/ Commit(h) \/ Flush(h) \/ DeliveryFails(h)
  \/ \E r \in Readers : ReadTier(r) \/ FillCache(r) \/ ReadFails(r)

\* What the server, Redis and Razorpay go on doing: a delivery and a read end,
\* a key with a TTL expires, and an event is delivered until it is answered.
Fairness ==
  /\ WF_vars(CacheExpires)
  /\ \A r \in Readers : WF_vars(FillCache(r) \/ ReadFails(r))
  /\ \A h \in Handlers : WF_vars(Mark(h) \/ Ignore(h) \/ Commit(h) \/ Flush(h))
  /\ \A e \in Events : WF_vars(e \notin acked /\ \E h \in Handlers : Deliver(h, e))

Spec == Init /\ [][Next]_vars /\ Fairness

-----------------------------------------------------------------------------

Deliveries ==
  [at : {"idle"}] \cup [at : {"verified", "looked", "marked", "committed"}, event : Events]

TypeOK ==
  /\ status \in [Subs -> Statuses] /\ rows \in [Subs -> Statuses]
  /\ acked \subseteq marked /\ marked \subseteq Sent /\ spoilt \subseteq marked
  /\ tier \in Tiers /\ cache \in Tiers \cup {"none"}
  /\ handler \in [Handlers -> Deliveries]
  /\ reader \in [Readers -> [at : {"idle"}] \cup [at : {"read"}, tier : Tiers]]
  /\ faults \in 0..MaxFaults /\ plans \in 0..MaxPlans
  /\ applied \in [Events -> 0..MaxFaults + 2]

\* "first delivery wins, replays are acknowledged 200 but not reprocessed",
\* router.py 38-39: however many handlers have deliveries of one event, and
\* whatever fails, the event is committed at most once.
AppliedOnce == \A e \in Events : applied[e] <= 1

\* Razorpay delivers an event until it gets a 200, so that every event is
\* committed in the end; but for one a delivery of which failed between its
\* mark and its commit: the retry is taken for a replay.
EveryEventApplied ==
  \A e \in Events : e \in Sent ~> applied[e] > 0 \/ e \in spoilt

\* A reader may put back the tier that a flush has just removed, and an admin's
\* override flushes nothing; still, once the tier rests, the cache agrees.
CacheCatchesUp == <>[](cache \in {"none", tier})

\* What EveryEventApplied rests on, without time: an event whose key is there, and so every
\* event that Razorpay has a 200 for, is committed, is about to be, or is one of those a
\* delivery of which failed between its mark and its commit.
MarkedAccounted ==
  \A e \in marked :
    \/ applied[e] = 1 \/ e \in spoilt
    \/ \E h \in Handlers : handler[h].at = "marked" /\ handler[h].event = e
=============================================================================
