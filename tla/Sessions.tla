------------------------------ MODULE Sessions ------------------------------
(* Accounts of the team, their roles and the sessions people work in          *)
(* (services/auth.py, services/admin_users.py, core/deps.py).                 *)
(*                                                                            *)
(* Every request that needs a person is one transaction: get_current_user     *)
(* reads the session with its user (Authenticate), slides the session's term  *)
(* with an UPDATE (Touch), and from then on holds the row of the session      *)
(* until the handler's commit.  What the handler knows of the person is what  *)
(* was read before the UPDATE waited.                                         *)
EXTENDS Integers, FiniteSets

CONSTANTS
    Users,          \* accounts
    Superadmins,    \* those whose email is on the list of the settings
    InitRole,       \* role of each account at the start
    Nicks,          \* nicknames, up to case
    Passwords,      \* passwords somebody may type
    SessionIds,     \* identities of sessions, never reused
    Requests,       \* requests being served at the same time
    None,
    Ttl,            \* term of a session
    LoginMax,       \* wrong passwords an account is allowed
    MaxTime,        \* bound on the clock
    MaxRequests     \* bound on the requests begun

VARIABLES
    user,       \* users: role, nickname, password
    sessions,   \* auth_sessions: user and term, or None
    attempts,   \* committed rows LOGIN_ATTEMPT of each account
    requests,   \* what a request is doing and what it has read
    now,
    begun,      \* requests begun
    ended,      \* history: sessions somebody has logged out of
    staleActor  \* history: a role was changed by one who was no longer admin

vars == <<user, sessions, attempts, requests, now, begun, ended, staleActor>>

Roles == {"user", "editor", "admin"}
NoRequest == [at |-> "free", session |-> None, me |-> None, was |-> None]

Init ==
    /\ user = [u \in Users |-> [role |-> InitRole[u], nick |-> u, password |-> None]]
    /\ sessions = [s \in SessionIds |-> None]
    /\ attempts = [u \in Users |-> 0]
    /\ requests = [r \in Requests |-> NoRequest]
    /\ now = 0
    /\ begun = 0
    /\ ended = {}
    /\ staleActor = FALSE

\* A session row is locked from its UPDATE to the end of the transaction.
Locked(s) == \E r \in Requests : requests[r].at = "touched" /\ requests[r].session = s
Begin(r) == /\ requests[r].at = "free" /\ begun < MaxRequests
            /\ begun' = begun + 1
Working(r) == requests[r].at = "touched"
Leave(r) == requests' = [requests EXCEPT ![r] = NoRequest]

\* A person on the list of the settings becomes admin whenever seen.
Enforced(u, role) == IF u \in Superadmins THEN "admin" ELSE role

----------------------------------------------------------------------------
(* Coming in and going out *)

create_auth_session(u) ==
    \E s \in SessionIds :
        /\ sessions[s] = None /\ s \notin ended
        /\ sessions' = [sessions EXCEPT ![s] = [user |-> u, expires |-> now + Ttl]]
        /\ user' = [user EXCEPT ![u].role = Enforced(u, @)]

\* The code of the email was right (module Registration has the code itself).
verify_otp(u) ==
    /\ begun < MaxRequests /\ begun' = begun + 1
    /\ create_auth_session(u)
    /\ UNCHANGED <<attempts, requests, now, ended, staleActor>>

LockedOut(u) == attempts[u] >= LoginMax

login_with_password(u, password) ==
    /\ begun < MaxRequests /\ begun' = begun + 1
    /\ ~LockedOut(u)
    /\ password # None /\ user[u].password = password
    /\ create_auth_session(u)
    /\ UNCHANGED <<attempts, requests, now, ended, staleActor>>

\* A wrong password is written down as an attempt and reported by an error,
\* for which the transaction is rolled back: nothing is left of it.
WrongPassword(u, password) ==
    /\ begun < MaxRequests /\ begun' = begun + 1
    /\ ~LockedOut(u) /\ user[u].password # password
    /\ UNCHANGED <<user, sessions, attempts, requests, now, ended, staleActor>>

LogoutRead(r, s) ==
    /\ Begin(r)
    /\ sessions[s] # None
    /\ requests' = [requests EXCEPT ![r] = [NoRequest EXCEPT !.at = "logout", !.session = s]]
    /\ UNCHANGED <<user, sessions, attempts, now, ended, staleActor>>

\* The DELETE waits for whoever works in the session; a row that is already
\* gone is only worth a warning.
logout_session(r) ==
    LET s == requests[r].session IN
    /\ requests[r].at = "logout" /\ ~Locked(s)
    /\ sessions' = [sessions EXCEPT ![s] = None]
    /\ ended' = ended \cup {s}
    /\ Leave(r)
    /\ UNCHANGED <<user, attempts, now, begun, staleActor>>

----------------------------------------------------------------------------
(* A request of somebody who is logged in *)

Authenticate(r, s) ==
    /\ Begin(r)
    /\ sessions[s] # None /\ sessions[s].expires >= now
    /\ requests' = [requests EXCEPT ![r] = [at |-> "read", session |-> s,
                        me |-> sessions[s].user, was |-> user[sessions[s].user]]]
    /\ UNCHANGED <<user, sessions, attempts, now, ended, staleActor>>

\* The UPDATE of a row that has gone fails, and the request with it.
MayTouch_Blind(r) == TRUE
MayTouch(r) == sessions[requests[r].session] # None

Touch(r) ==
    LET s == requests[r].session
        u == requests[r].me IN
    /\ requests[r].at = "read" /\ ~Locked(s)
    /\ IF MayTouch(r)
       THEN requests' = [requests EXCEPT ![r].at = "touched", ![r].was.role = Enforced(u, @)]
       ELSE Leave(r)
    /\ UNCHANGED <<user, sessions, attempts, now, begun, ended, staleActor>>

\* The commit of a request: the slid term, the enforced role, its own change.
Commit(r, changed) ==
    LET s == requests[r].session
        u == requests[r].me IN
    /\ sessions' = [sessions EXCEPT ![s] = [user |-> u, expires |-> now + Ttl]]
    /\ user' = [changed EXCEPT ![u].role = Enforced(u, @)]
    /\ Leave(r)
    /\ UNCHANGED <<attempts, now, begun, ended>>

Rollback(r) ==
    /\ Working(r)
    /\ Leave(r)
    /\ UNCHANGED <<user, sessions, attempts, now, begun, ended, staleActor>>

\* Whatever changes nobody's account: the schedule, the own profile.
Visit(r) == Working(r) /\ Commit(r, user) /\ UNCHANGED staleActor

set_password(r, password) ==
    /\ Working(r)
    /\ Commit(r, [user EXCEPT ![requests[r].me].password = password])
    /\ UNCHANGED staleActor

\* The current password is compared with what was read on entry.
change_password(r, current, password) ==
    /\ Working(r)
    /\ requests[r].was.password # None /\ requests[r].was.password = current
    /\ Commit(r, [user EXCEPT ![requests[r].me].password = password])
    /\ UNCHANGED staleActor

nickname_taken(nick, by) == \E u \in Users \ {by} : user[u].nick = nick

\* A free nickname, or the own one in another case; lower(nickname) is unique.
update_profile(r, nick) ==
    /\ Working(r)
    /\ ~nickname_taken(nick, requests[r].me)
    /\ Commit(r, [user EXCEPT ![requests[r].me].nick = nick])
    /\ UNCHANGED staleActor

MayChangeRole_Own(r, target) == requests[r].was.role = "admin" /\ target \notin Superadmins
MayChangeRole(r, target) ==
    /\ requests[r].was.role = "admin"
    /\ target # requests[r].me
    /\ target \notin Superadmins

update_user_role(r, target, role) ==
    /\ Working(r)
    /\ MayChangeRole(r, target)
    /\ Commit(r, [user EXCEPT ![target].role = role])
    /\ staleActor' = (staleActor \/ Enforced(requests[r].me, user[requests[r].me].role) # "admin")

Tick == /\ now < MaxTime
        /\ now' = now + 1
        /\ UNCHANGED <<user, sessions, attempts, requests, begun, ended, staleActor>>

Next ==
    \/ \E u \in Users : verify_otp(u)
    \/ \E u \in Users, p \in Passwords : login_with_password(u, p) \/ WrongPassword(u, p)
    \/ \E r \in Requests, s \in SessionIds : LogoutRead(r, s) \/ Authenticate(r, s)
    \/ \E r \in Requests : logout_session(r) \/ Touch(r) \/ Visit(r) \/ Rollback(r)
    \/ \E r \in Requests, p \in Passwords : set_password(r, p)
    \/ \E r \in Requests, c, p \in Passwords : change_password(r, c, p)
    \/ \E r \in Requests, n \in Nicks : update_profile(r, n)
    \/ \E r \in Requests, u \in Users, role \in Roles : update_user_role(r, u, role)
    \/ Tick

Spec == Init /\ [][Next]_vars

----------------------------------------------------------------------------
(* Whoever has logged out of a session is out of it: no request brings the    *)
(* session back, however long it waited and whatever it had read (the touch   *)
(* of get_user_by_session_id against the delete of logout_session).           *)
LoggedOutStaysOut ==
    \A s \in ended : /\ sessions[s] = None
                     /\ \A r \in Requests : requests[r].at = "touched" => requests[r].session # s

(* A team that has an admin keeps one through any sequence of changes of      *)
(* roles (update_user_role refuses the own role and the superadmins), unless  *)
(* somebody who was no longer admin finished what had begun as admin.         *)
AdminRemains ==
    (\E u \in Users : InitRole[u] = "admin") /\ ~staleActor
        => \E u \in Users : user[u].role = "admin"
=============================================================================
