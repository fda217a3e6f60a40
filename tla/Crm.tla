-------------------------------- MODULE Crm --------------------------------
(***************************************************************************)
(* The card of a player, broadcasts and the list of notifications (crm,     *)
(* notifications). Activity is no field: it is what the tables of sessions, *)
(* requests and dialogues still know of what the player did. A broadcast    *)
(* reads its segment, then who can be reached, then queues and commits.     *)
(***************************************************************************)
EXTENDS Integers, FiniteSets, Sequences, SequencesExt, FiniteSetsExt, Functions

CONSTANTS
    None,       \* no moment, no request
    Players,
    Managers,   \* requests of administrators
    Segments,   \* what a broadcast may be sent to
    Bodies,     \* what a save of a card names: some of its fields
    SleepingAfter,  \* SLEEPING_AFTER
    MaxTime, MaxEdits, MaxBroadcasts    \* bounds

VARIABLES
    now,
    player,     \* players: status, kind, tags and created_at
    sessions,   \* last_seen_at of each player's sessions
    asked, wrote,   \* latest chip request and latest message, or None
    devices,    \* players with a push subscription
    chats,      \* players with a linked chat
    inbox,      \* rows of the queue the broadcasts made
    request,    \* what each administrator's request has read
    sent,       \* history: broadcasts sent, with what was true when they read
    acted,      \* history: when each player last did anything
    left,       \* history: players who logged out of a session since
    edits       \* history: changes so far, for the bound

vars == <<now, player, sessions, asked, wrote, devices, chats, inbox, request, sent, acted, left, edits>>

acts == <<player, sessions, asked, wrote, acted, left>>
reach == <<devices, chats>>

Quiet == [step |-> "idle"]

Init ==
    /\ now = 0
    /\ player \in [Players -> {[status |-> "active", kind |-> "credit", tags |-> {}, created |-> 0]}]
    /\ sessions = [p \in Players |-> {0}]
    /\ asked = [p \in Players |-> None] /\ wrote = [p \in Players |-> None]
    /\ devices = Players /\ chats = {}
    /\ inbox = {} /\ request = [m \in Managers |-> Quiet]
    /\ sent = {} /\ acted = [p \in Players |-> 0] /\ left = {} /\ edits = 0

-----------------------------------------------------------------------------
\* What the players do.

Edit == edits < MaxEdits /\ edits' = edits + 1
Acts(p) == Edit /\ acted' = [acted EXCEPT ![p] = now]

\* A login, or a request of a session that is there.
Visit(p, old) ==
    /\ old = None \/ old \in sessions[p]
    /\ sessions' = [sessions EXCEPT ![p] = (@ \ {old}) \cup {now}]
    /\ sessions' # sessions
    /\ Acts(p) /\ left' = left \ {p}
    /\ UNCHANGED <<now, player, asked, wrote, devices, chats, inbox, request, sent>>

\* A request of chips or a message comes from a session, too.
create_request(p) ==
    /\ sessions[p] # {} /\ asked[p] # now
    /\ asked' = [asked EXCEPT ![p] = now]
    /\ Acts(p)
    /\ UNCHANGED <<now, player, sessions, wrote, devices, chats, inbox, request, sent, left>>

post_player_message(p) ==
    /\ sessions[p] # {} /\ wrote[p] # now
    /\ wrote' = [wrote EXCEPT ![p] = now]
    /\ Acts(p)
    /\ UNCHANGED <<now, player, sessions, asked, devices, chats, inbox, request, sent, left>>

\* The row of the session is deleted, and the visit with it.
logout_session(p, old) ==
    /\ old \in sessions[p] /\ Edit
    /\ sessions' = [sessions EXCEPT ![p] = @ \ {old}]
    /\ left' = left \cup {p}
    /\ UNCHANGED <<now, player, asked, wrote, devices, chats, inbox, request, sent, acted>>

SwitchPush(p) ==
    /\ Edit
    /\ \/ devices' = SymDiff(devices, {p}) /\ chats' = chats
       \/ chats' = SymDiff(chats, {p}) /\ devices' = devices
    /\ UNCHANGED <<now, acts, inbox, request, sent>>

-----------------------------------------------------------------------------
\* The card.

Seen(p) == IF sessions[p] = {} THEN None ELSE Max(sessions[p])

\* What the three tables say of a player, each None where it has nothing.
activity(p) == [last_seen_at |-> Seen(p), last_request_at |-> asked[p], last_message_at |-> wrote[p]]

last_activity_at_First(p) ==
    IF Seen(p) # None THEN Seen(p) ELSE IF asked[p] # None THEN asked[p] ELSE wrote[p]

last_activity_at(p) ==
    LET moments == Range(activity(p)) \ {None}
    IN  IF moments = {} THEN None ELSE Max(moments)

is_sleeping(p) ==
    LET last == last_activity_at(p)
        reference == IF last = None THEN player[p].created ELSE last
    IN  player[p].status = "active" /\ reference < now - SleepingAfter

UpdateRead(m, p, body) ==
    /\ request[m] = Quiet /\ Edit
    /\ request' = [request EXCEPT ![m] = [step |-> "update", player |-> p, body |-> body, was |-> player[p]]]
    /\ UNCHANGED <<now, acts, reach, inbox, sent>>

\* A field is written when the body names it and it differs from what was read.
UpdateCommit(m) ==
    /\ request[m].step = "update"
    /\ LET r == request[m]
           named == DOMAIN r.body
       IN  player' = [player EXCEPT ![r.player] =
               [f \in DOMAIN @ |-> IF f \in named /\ r.body[f] # r.was[f] THEN r.body[f] ELSE @[f]]]
    /\ request' = [request EXCEPT ![m] = Quiet]
    /\ UNCHANGED <<now, sessions, asked, wrote, acted, left, reach, inbox, sent, edits>>

-----------------------------------------------------------------------------
\* Broadcasts.

Active == {p \in Players : player[p].status = "active"}
segment_players(segment) ==
    {p \in Active :
        CASE segment.kind = "all"         -> TRUE
          [] segment.kind = "player_kind" -> player[p].kind = segment.of
          [] segment.kind = "tag"         -> segment.of \in player[p].tags
          [] segment.kind = "sleeping"    -> is_sleeping(p)}

users_with_push(S) == S \cap (devices \cup chats)

\* What is true of the players themselves, whatever the tables remember.
Truth == [active |-> Active, idle |-> {p \in Players : acted[p] < now - SleepingAfter},
          left |-> left, kind |-> [p \in Players |-> player[p].kind],
          tags |-> [p \in Players |-> player[p].tags]]

BroadcastRead(m, segment) ==
    /\ request[m] = Quiet /\ Cardinality(sent) < MaxBroadcasts
    /\ segment_players(segment) # {}
    /\ request' = [request EXCEPT ![m] = [step |-> "segment", segment |-> segment,
                       players |-> segment_players(segment), truth |-> Truth]]
    /\ UNCHANGED <<now, acts, reach, inbox, sent, edits>>

BroadcastReach(m) ==
    /\ request[m].step = "segment"
    /\ LET r == request[m]
       IN  request' = [request EXCEPT ![m] = [step |-> "reach", segment |-> r.segment, players |-> r.players,
               truth |-> r.truth, with_push |-> users_with_push(r.players)]]
    /\ UNCHANGED <<now, acts, reach, inbox, sent, edits>>

\* enqueue_push: a row for push even where only a chat is left, and one for
\* the chat if it is still linked.
Rows(m, b) ==
    {[broadcast |-> b, player |-> p, channel |-> c, status |-> "pending", read |-> FALSE] :
        p \in request[m].with_push, c \in {"push", "telegram"}}
Queued(m, b) == {r \in Rows(m, b) : r.channel = "push" \/ r.player \in chats}

BroadcastCommit(m) ==
    /\ request[m].step = "reach"
    /\ LET r == request[m]
           b == Cardinality(sent) + 1
       IN  /\ inbox' = inbox \cup Queued(m, b)
           /\ sent' = sent \cup {[id |-> b, segment |-> r.segment, recipients |-> r.players,
                                  pushes |-> Cardinality(r.with_push), truth |-> r.truth]}
    /\ request' = [request EXCEPT ![m] = Quiet]
    /\ UNCHANGED <<now, acts, reach, edits>>

-----------------------------------------------------------------------------
\* The list of notifications shows what the worker has sent by push.

Listed(p) == {r \in inbox : r.player = p /\ r.channel = "push" /\ r.status = "sent"}
Unread(p) == {r \in Listed(p) : ~r.read}

\* The worker sends a row to the devices it finds (NotificationQueue).
Deliver(row) ==
    /\ row \in inbox /\ row.status = "pending"
    /\ inbox' = (inbox \ {row}) \cup {[row EXCEPT !.status =
           IF (row.channel = "push" /\ row.player \in devices) \/ (row.channel = "telegram" /\ row.player \in chats)
           THEN "sent" ELSE "failed"]}
    /\ UNCHANGED <<now, acts, reach, request, sent, edits>>

mark_notifications_read(p) ==
    /\ Unread(p) # {}
    /\ inbox' = (inbox \ Unread(p)) \cup {[r EXCEPT !.read = TRUE] : r \in Unread(p)}
    /\ UNCHANGED <<now, acts, reach, request, sent, edits>>

Tick ==
    /\ now < MaxTime /\ now' = now + 1
    /\ UNCHANGED <<acts, reach, inbox, request, sent, edits>>

Next ==
    \/ \E p \in Players :
          \/ \E old \in sessions[p] \cup {None} : Visit(p, old)
          \/ create_request(p) \/ post_player_message(p)
          \/ \E old \in sessions[p] : logout_session(p, old)
          \/ SwitchPush(p) \/ mark_notifications_read(p)
    \/ \E m \in Managers :
          \/ \E p \in Players, body \in Bodies : UpdateRead(m, p, body)
          \/ \E segment \in Segments : BroadcastRead(m, segment)
          \/ UpdateCommit(m) \/ BroadcastReach(m) \/ BroadcastCommit(m)
    \/ \E row \in inbox : Deliver(row)
    \/ Tick

Spec == Init /\ [][Next]_vars

-----------------------------------------------------------------------------
\* A broadcast goes to the players its segment names and to nobody else: to
\* active players only, and, when it is for the sleeping, to nobody who did
\* anything for the last month, unless they logged out since, which deletes
\* the visit; whoever has slept so long is among them. The blocked get nothing
\* that was not under way when they were blocked (_segment_players).
Fits(s, p) ==
    /\ p \in s.truth.active
    /\ s.segment.kind = "sleeping" => p \in s.truth.idle \cup s.truth.left
    /\ s.segment.kind = "player_kind" => s.truth.kind[p] = s.segment.of
    /\ s.segment.kind = "tag" => s.segment.of \in s.truth.tags[p]
BroadcastFitsSegment ==
    \A s \in sent :
        /\ \A p \in s.recipients : Fits(s, p)
        /\ \A r \in inbox : r.broadcast = s.id => r.player \in s.recipients
        /\ s.segment.kind = "sleeping" => s.truth.idle \cap s.truth.active \subseteq s.recipients
        /\ s.segment.kind = "all" => s.recipients = s.truth.active

\* "Sleeping is a month without activity": the last visit, the last request
\* or the last message (crm, its docstring).
SleepingIsIdle == \A p \in Players : is_sleeping(p) => acted[p] < now - SleepingAfter
=============================================================================
