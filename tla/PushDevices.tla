----------------------------- MODULE PushDevices -----------------------------
(***************************************************************************)
(* Notifications on a phone (features/push, sw.ts, services/push): the      *)
(* switch of the profile in each tab, the subscription of the browser, its  *)
(* renewal by the service worker, and the rows the worker sends to. The     *)
(* browser and the server each keep half of it, and every step between the  *)
(* halves may fail or lose its answer.                                      *)
(***************************************************************************)
EXTENDS Integers, FiniteSets, TLC

CONSTANTS
    None,
    Users,
    Tabs,           \* open tabs of the application
    ServiceWorker,  \* the other actor of the browser
    Endpoints,      \* what the push service may hand out
    MaxSteps        \* bound on what people do

VARIABLES
    user,       \* whose session the browser holds
    permission, \* Notification.permission
    local,      \* the subscription of the browser: its live endpoint
    used,       \* endpoints handed out so far
    shown,      \* what the switch of each tab shows
    op,         \* what each tab, and the service worker, is doing
    rows,       \* push_subscriptions: the user of each endpoint
    batch,      \* what the worker has read to send to
    granted,    \* history: for whom notifications were switched on here
    told,       \* history: notifications shown, with granted when read and now
    steps       \* history: steps of people so far, for the bound

vars == <<user, permission, local, used, shown, op, rows, batch, granted, told, steps>>

Actors == Tabs \cup {ServiceWorker}
Idle == [step |-> "idle"]

Init ==
    /\ user = None /\ permission = "default"
    /\ local = None /\ used = {}
    /\ shown = [t \in Tabs |-> FALSE] /\ op = [a \in Actors |-> Idle]
    /\ rows = [e \in Endpoints |-> None] /\ batch = {}
    /\ granted = None /\ told = {} /\ steps = 0

Step == steps < MaxSteps /\ steps' = steps + 1
Goes(a, o) == op' = [op EXCEPT ![a] = o]
server == <<rows, batch>>
history == <<granted, told>>

-----------------------------------------------------------------------------
\* The session of the browser. Leaving it clears the cache of queries, and
\* with it the switches; neither the subscription nor its row is touched.

Login(u) ==
    /\ user = None /\ Step /\ user' = u
    /\ UNCHANGED <<permission, local, used, shown, op, server, history>>

useLogout ==
    /\ user # None /\ Step /\ user' = None
    /\ shown' = [t \in Tabs |-> FALSE]
    /\ UNCHANGED <<permission, local, used, op, server, history>>

usePushSubscription(t) ==
    /\ user # None /\ shown[t] # (local # None)
    /\ shown' = [shown EXCEPT ![t] = local # None]
    /\ UNCHANGED <<user, permission, local, used, op, server, history, steps>>

-----------------------------------------------------------------------------
\* Switching on.

SubscribePressed(t) ==
    /\ user # None /\ op[t] = Idle /\ ~shown[t] /\ Step
    /\ permission # "denied"
    /\ permission' \in IF permission = "default" THEN {"granted", "denied"} ELSE {permission}
    /\ Goes(t, IF permission' = "granted" THEN [step |-> "subscribe"] ELSE Idle)
    /\ UNCHANGED <<user, local, used, shown, server, history>>

\* pushManager.subscribe answers with the subscription there is, or a new one.
Subscription == IF local # None THEN {local} ELSE Endpoints \ used

SubscribeLocally(a) ==
    /\ op[a].step = "subscribe" /\ permission = "granted"
    /\ \E e \in Subscription :
          local' = e /\ used' = used \cup {e} /\ Goes(a, [step |-> "post", endpoint |-> e])
    /\ UNCHANGED <<user, permission, shown, server, history, steps>>

upsert_subscription(e) == user

SubscribePosted(a) ==
    /\ op[a].step = "post" /\ user # None
    /\ rows' = [rows EXCEPT ![op[a].endpoint] = upsert_subscription(op[a].endpoint)]
    /\ granted' = IF op[a].endpoint = local THEN user ELSE granted
    /\ Goes(a, [step |-> "answer"])
    /\ UNCHANGED <<user, permission, local, used, shown, batch, told, steps>>

SubscribeAnswered(t) ==
    /\ op[t].step = "answer" /\ Goes(t, Idle)
    /\ shown' = [shown EXCEPT ![t] = TRUE]
    /\ UNCHANGED <<user, permission, local, used, server, history, steps>>

\* The key of the server, the browser, the network or the session refuses, or
\* the answer is lost: what was done so far stays. The service worker looks at
\* no answer.
SubscribeFails(a) ==
    /\ op[a].step \in {"subscribe", "post", "answer"} /\ Goes(a, Idle)
    /\ UNCHANGED <<user, permission, local, used, shown, server, history, steps>>

-----------------------------------------------------------------------------
\* Switching off: the row first, then the subscription, whether or not the
\* server could be asked.

UnsubscribePressed(t) ==
    /\ user # None /\ op[t] = Idle /\ shown[t] /\ Step
    /\ IF local = None
       THEN shown' = [shown EXCEPT ![t] = FALSE] /\ granted' = None /\ op' = op
       ELSE Goes(t, [step |-> "delete", endpoint |-> local]) /\ UNCHANGED <<shown, granted>>
    /\ UNCHANGED <<user, permission, local, used, server, told>>

delete_subscription(t) ==
    /\ op[t].step = "delete" /\ user # None
    /\ rows' = [rows EXCEPT ![op[t].endpoint] = IF @ = user THEN None ELSE @]
    /\ Goes(t, [step |-> "drop", endpoint |-> op[t].endpoint, ok |-> TRUE])
    /\ UNCHANGED <<user, permission, local, used, shown, batch, history, steps>>

DeleteFails(t) ==
    /\ op[t].step = "delete"
    /\ Goes(t, [step |-> "drop", endpoint |-> op[t].endpoint, ok |-> FALSE])
    /\ UNCHANGED <<user, permission, local, used, shown, server, history, steps>>

Unsubscribed_Answered(o) == IF o.ok /\ local = o.endpoint THEN None ELSE local
Unsubscribed(o) == IF local = o.endpoint THEN None ELSE local

UnsubscribeEnds(t) ==
    /\ op[t].step = "drop"
    /\ local' = Unsubscribed(op[t])
    /\ granted' = IF local = op[t].endpoint THEN None ELSE granted
    /\ shown' = [shown EXCEPT ![t] = IF op[t].ok THEN FALSE ELSE @]
    /\ Goes(t, Idle)
    /\ UNCHANGED <<user, permission, used, server, told, steps>>

-----------------------------------------------------------------------------
\* The browser takes the permission or the subscription away; the service
\* worker asks for another one and tells the server.

Revoke ==
    /\ permission = "granted" /\ Step /\ permission' = "denied"
    /\ local' = None /\ granted' = None
    /\ UNCHANGED <<user, used, shown, op, server, told>>

pushsubscriptionchange ==
    /\ local # None /\ op[ServiceWorker] = Idle /\ Step
    /\ local' = None /\ Goes(ServiceWorker, [step |-> "subscribe"])
    /\ UNCHANGED <<user, permission, used, shown, server, history>>

-----------------------------------------------------------------------------
\* The worker reads the rows of a user and sends; an endpoint that is gone
\* costs its row (NotificationQueue has the rest of it).

WorkerReads(u) ==
    /\ batch = {}
    /\ batch' = {[endpoint |-> e, user |-> u, granted |-> granted] : e \in {x \in Endpoints : rows[x] = u}}
    /\ batch' # {}
    /\ UNCHANGED <<user, permission, local, used, shown, op, rows, history, steps>>

send_web_push(m) ==
    /\ batch' = batch \ {m}
    /\ IF m.endpoint = local
       THEN told' = told \cup {[user |-> m.user, read |-> m.granted, now |-> granted]} /\ rows' = rows
       ELSE rows' = [rows EXCEPT ![m.endpoint] = None] /\ told' = told
    /\ UNCHANGED <<user, permission, local, used, shown, op, granted, steps>>

Next ==
    \/ \E u \in Users : Login(u) \/ WorkerReads(u)
    \/ useLogout
    \/ \E t \in Tabs :
          \/ usePushSubscription(t) \/ SubscribePressed(t) \/ SubscribeAnswered(t)
          \/ UnsubscribePressed(t) \/ delete_subscription(t) \/ DeleteFails(t) \/ UnsubscribeEnds(t)
    \/ \E a \in Actors : SubscribeLocally(a) \/ SubscribePosted(a) \/ SubscribeFails(a)
    \/ Revoke \/ pushsubscriptionchange
    \/ \E m \in batch : send_web_push(m)

Spec == Init /\ [][Next]_vars

-----------------------------------------------------------------------------
\* A phone shows the notifications of the user for whom they were last
\* switched on there, or renewed by the browser, and none once they are
\* switched off, also when the server could not be told so
\* (unsubscribeFromPushNotifications, upsert_subscription).
PhoneObeysItsSwitch == \A t \in told : t.user = t.read /\ t.now # None

\* What the code does not promise: that the user who holds the session of the
\* phone is the one whose notifications it shows. Logging out leaves the row.
ShownToItsUser == \A t \in told : t.user = t.now
=============================================================================
