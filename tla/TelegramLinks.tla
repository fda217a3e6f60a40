--------------------------- MODULE TelegramLinks ---------------------------
(***************************************************************************)
(* Linking a Telegram chat (services/telegram and the worker's second       *)
(* channel): a user starts a link and gets a one-time token, the bot's      *)
(* webhook ties the chat that sends it, /stop, the profile or a chat that   *)
(* blocked the bot unties it. Each request reads a row and writes it when   *)
(* it commits; the row may have changed in between.                         *)
(***************************************************************************)
EXTENDS Naturals, FiniteSets

CONSTANTS
    None,       \* NULL
    Users, Chats,
    Requests,   \* requests, webhook calls and worker batches in flight
    TTL,        \* LINK_TTL
    MaxTime, MaxTokens, MaxRequests \* bounds

VARIABLES
    now,
    link,       \* telegram_links: the row of each user
    issued,     \* tokens given out so far: 1..issued
    request,    \* each request: its operation and the row it read
    begun,      \* history: requests so far, for the bound
    uses,       \* history: chats tied by each token
    raced       \* history: tokens two requests held at once

vars == <<now, link, issued, request, begun, uses, raced>>

NoLink == [row |-> FALSE, chat |-> None, token |-> 0, expires |-> 0]
Quiet == [op |-> "none"]
Busy == {r \in Requests : request[r] # Quiet}

Init ==
    /\ now = 0 /\ issued = 0 /\ begun = 0
    /\ link = [u \in Users |-> NoLink]
    /\ request = [r \in Requests |-> Quiet]
    /\ uses = [t \in 1..MaxTokens |-> 0] /\ raced = {}

Begin(r, record) ==
    /\ request[r] = Quiet /\ begun < MaxRequests
    /\ begun' = begun + 1
    /\ request' = [request EXCEPT ![r] = record]
    /\ UNCHANGED <<now, link, issued, uses>>

\* session.get of the user's own row.
ReadOwn(r, op, u) ==
    /\ op \in {"unlink", "worker"} => link[u].row
    /\ op = "worker" => link[u].chat # None
    /\ Begin(r, [op |-> op, user |-> u, chat |-> link[u].chat, token |-> 0, read |-> link[u],
                 previous |-> {}])
    /\ raced' = raced

\* A token works until it expires, is used or is replaced.
Linkable(t) == {u \in Users : link[u].token = t /\ link[u].expires >= now}

ReadToken(r, t, c) ==
    \E u \in Linkable(t) :
        /\ Begin(r, [op |-> "link", user |-> u, chat |-> c, token |-> t, read |-> link[u],
                     previous |-> {v \in Users \ {u} : link[v].chat = c}])
        /\ raced' = IF \E s \in Busy : request[s].token = t THEN raced \cup {t} ELSE raced

ReadChat_AnyChat(r, c) ==
    \E u \in Users :
        /\ link[u].chat # None
        /\ Begin(r, [op |-> "stop", user |-> u, chat |-> c, token |-> 0, read |-> link[u],
                     previous |-> {}])
        /\ raced' = raced

ReadChat(r, c) ==
    \E u \in Users :
        /\ link[u].chat = c
        /\ Begin(r, [op |-> "stop", user |-> u, chat |-> c, token |-> 0, read |-> link[u],
                     previous |-> {}])
        /\ raced' = raced

End(r) == request' = [request EXCEPT ![r] = Quiet]
Missing(r) == ~link[request[r].user].row

\* A new token replaces the one before it.
start_link(r) ==
    /\ request[r].op = "start" /\ issued < MaxTokens
    /\ request[r].read.row = link[request[r].user].row
    /\ issued' = issued + 1
    /\ link' = [link EXCEPT ![request[r].user] =
          [row |-> TRUE, chat |-> @.chat, token |-> issued + 1, expires |-> now + TTL]]
    /\ End(r) /\ UNCHANGED <<now, begun, uses, raced>>

\* unlink, /stop, and the worker told that the chat is gone: the row goes by
\* its user, whatever it holds by now.
Drop(r) ==
    /\ request[r].op \in {"unlink", "stop", "worker"}
    /\ link' = [link EXCEPT ![request[r].user] = NoLink]
    /\ End(r) /\ UNCHANGED <<now, issued, begun, uses, raced>>

\* A chat the row already held when it was read is not written again.
WrittenChat(r) ==
    IF request[r].read.chat = request[r].chat THEN link[request[r].user].chat ELSE request[r].chat

\* The chat moves to this user; the token is spent.
Tied(row, c) == [row |-> TRUE, chat |-> c, token |-> 0, expires |-> 0]

ChatFree(r) == \A v \in Users \ ({request[r].user} \cup request[r].previous) : link[v].chat # request[r].chat

link_chat(r) ==
    /\ request[r].op = "link" /\ ~Missing(r) /\ ChatFree(r)
    /\ link' = [u \in Users |->
          IF u = request[r].user THEN Tied(link[u], WrittenChat(r))
          ELSE IF u \in request[r].previous THEN NoLink ELSE link[u]]
    /\ uses' = [uses EXCEPT ![request[r].token] = @ + 1]
    /\ End(r) /\ UNCHANGED <<now, issued, begun, raced>>

\* The row is gone or there already, the chat belongs to another row by now,
\* the worker's chat answered after all, or the request broke off.
Fail(r) ==
    /\ request[r] # Quiet
    /\ End(r) /\ UNCHANGED <<now, link, issued, begun, uses, raced>>

Tick ==
    /\ now < MaxTime /\ now' = now + 1
    /\ UNCHANGED <<link, issued, request, begun, uses, raced>>

Next ==
    \/ \E r \in Requests, op \in {"start", "unlink", "worker"}, u \in Users : ReadOwn(r, op, u)
    \/ \E r \in Requests, c \in Chats : ReadChat(r, c) \/ \E t \in 1..issued : ReadToken(r, t, c)
    \/ \E r \in Requests : start_link(r) \/ Drop(r) \/ link_chat(r) \/ Fail(r)
    \/ Tick

Spec == Init /\ [][Next]_vars

-----------------------------------------------------------------------------
\* A token ties one chat, unless two messages with it were handled at once
\* ("by a one-time link").
TokenTiesOnce == \A t \in 1..MaxTokens : uses[t] > 1 => t \in raced

\* A user loses a chat only to a request about that chat: the user's own, a
\* /stop from it, its link to another user, or the worker's news that it is
\* gone; a request whose row changed after it was read may still take a newer
\* chat away.
AboutTheChat(r, u) ==
    \/ request[r].op \in {"unlink", "link"} /\ request[r].user = u
    \/ request[r].op \in {"stop", "worker", "link"} /\ request[r].chat = link[u].chat
    \/ request[r].read # link[request[r].user]
    \/ \E v \in request[r].previous : link[v].chat # request[r].chat

ChatLeavesForAReason ==
    [][\A u \in Users :
          link[u].chat # None /\ link'[u].chat # link[u].chat
            => \E r \in Busy : request'[r] = Quiet /\ AboutTheChat(r, u)]_vars
=============================================================================
