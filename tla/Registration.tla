---------------------------- MODULE Registration ----------------------------
(***************************************************************************)
(* How a person gets into the club: one-time codes sent by mail, the       *)
(* registration token, invites, personal links and the moderation of       *)
(* newcomers (backend/app/services/{auth,invites,referrals,signup}.py).    *)
(*                                                                         *)
(* A handler whose checks are separated from its writes is two actions:    *)
(* Load... remembers what it read, Commit... writes.  A handler that does  *)
(* everything under an advisory lock or FOR UPDATE is one action.          *)
(***************************************************************************)
EXTENDS Naturals, Sequences, FiniteSets, FiniteSetsExt, Functions, TLC

CONSTANTS
  Email,          \* normalised addresses; one account each
  Referrer,       \* players whose link is opened, and who are blocked and unblocked
  Mistaken,       \* addresses for which wrong codes are entered
  Root,           \* the seeded administrator, who is a player as well
  Ip,             \* addresses requests come from
  Invite,         \* one-time invites an administrator may make
  Handler,        \* requests in progress
  None,           \* no value
  Modes,          \* the values of registration_mode explored
  CodeTtl, MinInterval, DayLength, OtpDailyLimit, OtpIpHourlyLimit, Hour,
  OtpMaxAttempts, CaptchaAfter, LookupLimit, LookupCaptchaAfter, TokenTtl, InviteTtl,
  Window, ReferralDailyLimit,
  MaxTime, MaxCodes, MaxTokens, MaxLinks, MaxWrong,
  MaxRequests     \* bounds of the exploration

ASSUME RootAssumption == Root \in Email /\ Referrer \cup Mistaken \subseteq Email
ASSUME LimitsAssumption ==
  /\ {CodeTtl, MinInterval, Hour, TokenTtl, InviteTtl, Window} \subseteq Nat
  /\ {OtpDailyLimit, OtpIpHourlyLimit, OtpMaxAttempts, CaptchaAfter, LookupLimit,
      LookupCaptchaAfter, ReferralDailyLimit} \subseteq Nat
  /\ DayLength \in Nat \ {0}
  /\ {MaxTime, MaxCodes, MaxTokens, MaxLinks, MaxWrong, MaxRequests} \subseteq Nat
ASSUME ModesAssumption == Modes \subseteq {"invite", "moderated", "open"}
ASSUME NoneAssumption ==
  /\ None \notin Email \cup Invite
  /\ None \notin Email \X (1 .. MaxLinks)
  /\ Invite \cap (Email \X (1 .. MaxLinks)) = {}

VARIABLES
  mode,           \* registration_mode of this deployment
  clock,          \* the time, in ticks
  codes,          \* otp_codes in order of creation
  probes,         \* account_lookup rows of the last hour, per address
  tokens,         \* auth_tokens with purpose register, in order of creation
  users,          \* addresses with an account
  players,        \* player rows, one per account
  links,          \* number of the current personal link, 0 before the first
  invites,        \* invite rows
  told,           \* newcomers the managers were notified of
  welcomed,       \* number of "access is open" pushes per player
  op,             \* requests in progress
  started,        \* number of requests started so far, for the bound
  wrong,          \* history: wrong entries answered per code
  accepted,       \* history: entries accepted per code
  raced           \* history: rows on which a stale decision was committed

state == <<mode, clock, codes, probes, tokens, users, players, links, invites, told, welcomed>>
history == <<wrong, accepted, raced>>
vars == <<mode, clock, codes, probes, tokens, users, players, links, invites,
          told, welcomed, op, started, wrong, accepted, raced>>

\* The total of a counter kept per member, for the bounds.
SumOf(f) == FoldFunction(LAMBDA x, y : x + y, 0, f)
Links == Email \X (1 .. MaxLinks)
Kind == {"credit", "deposit"}
Status == {"active", "pending", "rejected", "blocked"}
Time == 0 .. MaxTime

Code == [email : Email, ip : Ip, at : Time, used : BOOLEAN, attempts : Nat]
Token == [email : Email, at : Time, used : BOOLEAN]
Player == [status : Status, kind : Kind, referrer : Email \cup {None}, since : Time,
           via : Invite \cup Links \cup {None}]
NoPlayer == [status |-> "none"]
InviteRow == [at : Time, kind : Kind, by : Email \cup {None}, revoked : BOOLEAN]
NoInvite == [at |-> None]
Idle == [kind |-> "idle"]
Request ==
  {Idle}
  \cup [kind : {"verify"}, email : Email]
  \cup [kind : {"complete"}, token : 1 .. MaxTokens, given : Invite \cup Links \cup {None}]
  \cup [kind : {"revoke"}, invite : Invite, row : InviteRow]
  \cup [kind : {"approve"}, email : Email, row : Player, grant : Kind \cup {None}]
  \cup [kind : {"reject"}, email : Email, row : Player]

TypeOK ==
  /\ mode \in Modes
  /\ clock \in Time
  /\ codes \in Seq(Code) /\ Len(codes) <= MaxCodes
  /\ probes \in [Ip -> Nat]
  /\ tokens \in Seq(Token) /\ Len(tokens) <= MaxTokens
  /\ users \subseteq Email
  /\ players \in [Email -> Player \cup {NoPlayer}]
  /\ links \in [Email -> 0 .. MaxLinks]
  /\ invites \in [Invite -> InviteRow \cup {NoInvite}]
  /\ told \subseteq Email
  /\ welcomed \in [Email -> Nat]
  /\ op \in [Handler -> Request]
  /\ started \in 0 .. MaxRequests
  /\ wrong \in [1 .. MaxCodes -> 0 .. MaxWrong]
  /\ accepted \in [1 .. MaxCodes -> Nat]
  /\ raced \subseteq Invite \cup Email

Init ==
  /\ mode \in Modes
  /\ clock = 0
  /\ codes = << >> /\ tokens = << >>
  /\ probes = [a \in Ip |-> 0]
  /\ users = {Root}
  /\ players = [e \in Email |->
       IF e = Root THEN [status |-> "active", kind |-> "credit", referrer |-> None,
                         since |-> 0, via |-> None]
                   ELSE NoPlayer]
  /\ links = [e \in Email |-> 0]
  /\ invites = [i \in Invite |-> NoInvite]
  /\ told = {}
  /\ welcomed = [e \in Email |-> 0]
  /\ op = [h \in Handler |-> Idle] /\ started = 0
  /\ wrong = [c \in 1 .. MaxCodes |-> 0]
  /\ accepted = [c \in 1 .. MaxCodes |-> 0]
  /\ raced = {}

-----------------------------------------------------------------------------
(* One-time codes *)

\* What a request leaves behind when it ends with an exception: get_db rolls back.
RolledBack(before, written) == before

CodesOf(e) == {c \in DOMAIN codes : codes[c].email = e}
Unused(e) == {c \in CodesOf(e) : ~codes[c].used}
\* The newest code not used yet, 0 when there is none.
Newest(e) == IF Unused(e) = {} THEN 0 ELSE Max(Unused(e))

DayStart == clock - (clock % DayLength)
SentToday(e) == Cardinality({c \in CodesOf(e) : codes[c].at >= DayStart})
SentFrom(a) == Cardinality({c \in DOMAIN codes : codes[c].ip = a /\ codes[c].at + Hour >= clock})

\* The three limits on sending: interval, address per day, network address per hour.
Throttled(e, a) ==
  \/ \E c \in CodesOf(e) : codes[c].at + MinInterval >= clock
  \/ SentToday(e) >= OtpDailyLimit
  \/ SentFrom(a) >= OtpIpHourlyLimit
CaptchaRequired(e) == SentToday(e) >= CaptchaAfter

\* The captcha service lets a required captcha through or not.
CaptchaPasses(required, solved) == required => solved

\* Lookups of the last hour from one network address.
count_auth_tokens(a) == probes[a]
LookupRefused(a) == count_auth_tokens(a) >= LookupLimit
LookupCaptcha(a) == count_auth_tokens(a) >= LookupCaptchaAfter
RecordLookup(a) == [probes EXCEPT ![a] = @ + 1]

\* The code is mailed, then stored.
IssueOtp(e, a, solved) ==
  /\ ~Throttled(e, a)
  /\ CaptchaPasses(CaptchaRequired(e), solved)
  /\ Len(codes) < MaxCodes
  /\ codes' = Append(codes, [email |-> e, ip |-> a, at |-> clock, used |-> FALSE, attempts |-> 0])
  /\ UNCHANGED <<mode, clock, probes, tokens, users, players, links, invites, told,
                 welcomed, op, started, history>>

\* Asking about an account that must (not) exist: the lookup is recorded and the request fails.
LookupFails(a, solved) ==
  /\ ~LookupRefused(a)
  /\ CaptchaPasses(LookupCaptcha(a), solved)
  /\ probes' = RolledBack(probes, RecordLookup(a))
  /\ UNCHANGED <<mode, clock, codes, tokens, users, players, links, invites, told,
                 welcomed, op, started, history>>

RequestLoginCode(e, a, solved) ==
  /\ ~LookupRefused(a)
  /\ CaptchaPasses(LookupCaptcha(a), solved)
  /\ e \in users
  /\ IssueOtp(e, a, solved)

LoginUnknown(e, a, solved) == e \notin users /\ LookupFails(a, solved)

\* The newest code is asked for, and only while it is fresh and has attempts left.
Checkable(e) ==
  /\ Newest(e) # 0
  /\ codes[Newest(e)].at + CodeTtl >= clock
  /\ codes[Newest(e)].attempts < OtpMaxAttempts

\* A right entry spends every unused code of the address.
SpendMatchedOnly(e) == [codes EXCEPT ![Newest(e)].used = TRUE]
Spend(e) ==
  [c \in DOMAIN codes |-> IF c \in Unused(e) THEN [codes[c] EXCEPT !.used = TRUE] ELSE codes[c]]

\* Entering code c for address e, when it is the one the row holds.
Consume(e, c) ==
  /\ Checkable(e)
  /\ c = Newest(e)
  /\ codes' = Spend(e)
  /\ accepted' = [accepted EXCEPT ![c] = @ + 1]

CountAttempt(e) == [codes EXCEPT ![Newest(e)].attempts = @ + 1]

\* Any other entry is counted, flushed and answered with an error.
WrongCode(e) ==
  /\ Checkable(e)
  /\ SumOf(wrong) < MaxWrong
  /\ codes' = RolledBack(codes, CountAttempt(e))
  /\ wrong' = [wrong EXCEPT ![Newest(e)] = @ + 1]
  /\ UNCHANGED <<mode, clock, probes, tokens, users, players, links, invites, told,
                 welcomed, op, started, accepted, raced>>

LoginByCode(e, c) ==
  /\ e \in users
  /\ Consume(e, c)
  /\ UNCHANGED <<mode, clock, probes, tokens, users, players, links, invites, told, welcomed,
                 op, started, wrong, raced>>

-----------------------------------------------------------------------------
(* Invites and personal links *)

\* What happened to an invite, in the order the code asks: revoked, used, expired.
Revoked(i) == invites[i].revoked
NeverUsed(i) == FALSE
Used(i) == invites[i].by # None
Expired(i) == invites[i].at + InviteTtl < clock

ActiveRow(i) == invites[i] # NoInvite /\ ~Revoked(i) /\ ~Used(i) /\ ~Expired(i)

\* Players whom e brought and whose row is not older than the window.
Recent(e) ==
  Cardinality({p \in Email : /\ players[p] # NoPlayer
                             /\ players[p].referrer = e
                             /\ players[p].since + Window >= clock})
PausedLate(e) == Recent(e) > ReferralDailyLimit
Paused(e) == Recent(e) >= ReferralDailyLimit

\* A link works while it is the current one of an active player who is below the limit.
LinkWorks(g) ==
  /\ links[g[1]] = g[2]
  /\ players[g[1]].status = "active"
  /\ ~Paused(g[1])

ActiveInvite(g) ==
  \/ g \in Invite /\ ActiveRow(g)
  \/ g \in Links /\ LinkWorks(g)

InviteRequired(g) == mode = "invite" \/ g # None

CreateInvite(i, k) ==
  /\ invites[i] = NoInvite
  /\ invites' = [invites EXCEPT ![i] = [at |-> clock, kind |-> k, by |-> None, revoked |-> FALSE]]
  /\ UNCHANGED <<mode, clock, codes, probes, tokens, users, players, links, told,
                 welcomed, op, started, history>>

\* A request remembers what it read.
Start(h, r) ==
  /\ op[h] = Idle
  /\ started < MaxRequests
  /\ op' = [op EXCEPT ![h] = r]
  /\ started' = started + 1
  /\ UNCHANGED <<state, history>>

\* A request that is over.
End(h) == op' = [op EXCEPT ![h] = Idle] /\ UNCHANGED started

\* Revoking reads the invite without a lock.
LoadRevoke(h, i) ==
  /\ invites[i] # NoInvite
  /\ ~Used(i) /\ ~Revoked(i)
  /\ Start(h, [kind |-> "revoke", invite |-> i, row |-> invites[i]])

CommitRevoke(h) ==
  /\ op[h].kind = "revoke"
  /\ invites' = [invites EXCEPT ![op[h].invite].revoked = TRUE]
  /\ raced' = IF invites[op[h].invite] = op[h].row THEN raced ELSE raced \cup {op[h].invite}
  /\ End(h)
  /\ UNCHANGED <<mode, clock, codes, probes, tokens, users, players, links, told,
                 welcomed, wrong, accepted>>

\* A new number for the link of e: the old one stops working.
AssignNewCode(e) ==
  /\ SumOf(links) < MaxLinks
  /\ links' = [links EXCEPT ![e] = @ + 1]
  /\ UNCHANGED <<mode, clock, codes, probes, tokens, users, players, invites, told, welcomed, op,
                 started, history>>

\* The page of the link makes the first one; "rotate" replaces it, for the player or a manager.
OpenLink(e) ==
  /\ players[e] # NoPlayer /\ players[e].status = "active"
  /\ links[e] = 0
  /\ AssignNewCode(e)
RotateLink(e) ==
  /\ players[e] # NoPlayer
  /\ links[e] > 0
  /\ AssignNewCode(e)

-----------------------------------------------------------------------------
(* Registration *)

\* In invite mode a code is only sent to the holder of a working invite.
RegisterStart(e, a, given, solved) ==
  /\ mode = "invite" => ActiveInvite(given)
  /\ ~LookupRefused(a)
  /\ CaptchaPasses(LookupCaptcha(a), solved)
  /\ e \notin users
  /\ IssueOtp(e, a, solved)

RegisterKnown(e, a, given, solved) ==
  /\ mode = "invite" => ActiveInvite(given)
  /\ e \in users
  /\ LookupFails(a, solved)

\* register_verify looks for the account before it takes the lock of the address.
LoadVerify(h, e) ==
  /\ e \notin users
  /\ Start(h, [kind |-> "verify", email |-> e])

\* Older unused tokens of the address are invalidated, a new one is issued.
CommitVerify(h, c) ==
  /\ op[h].kind = "verify"
  /\ LET e == op[h].email IN
     /\ Consume(e, c)
     /\ Len(tokens) < MaxTokens
     /\ tokens' = Append([t \in DOMAIN tokens |->
                            IF tokens[t].email = e THEN [tokens[t] EXCEPT !.used = TRUE]
                                                   ELSE tokens[t]],
                         [email |-> e, at |-> clock, used |-> FALSE])
  /\ End(h)
  /\ UNCHANGED <<mode, clock, probes, users, players, links, invites, told, welcomed,
                 wrong, raced>>

\* register_complete reads the token before it takes the lock of the address.
LoadComplete(h, t, given) ==
  /\ t \in DOMAIN tokens
  /\ ~tokens[t].used /\ tokens[t].at + TokenTtl >= clock
  /\ Start(h, [kind |-> "complete", token |-> t, given |-> given])

\* What consume_invite and create_self_registered put into the player row: the kind comes
\* with the invite, a friend who came by a link pays first and is remembered as brought.
Admitted(k, r, g) == [status |-> "active", kind |-> k, referrer |-> r, since |-> clock, via |-> g]
InvitedBy(g) == IF g \in Invite THEN Admitted(invites[g].kind, None, g) ELSE Admitted("deposit", g[1], g)
SelfRegistered ==
  [status |-> IF mode = "moderated" THEN "pending" ELSE "active",
   kind |-> "deposit", referrer |-> None, since |-> clock, via |-> None]

create_user(e) == users' = users \cup {e}

\* Every editor and admin gets a push about the newcomer.
notify_managers(e) == told \cup {e}

\* Under the lock of the address, of the invite or of the referrer's row: from here on
\* nothing else can move, and the account, the player and the session appear together.
CommitComplete(h) ==
  /\ op[h].kind = "complete"
  /\ LET t == op[h].token
         e == tokens[t].email
         g == op[h].given
     IN
     /\ e \notin users
     /\ InviteRequired(g) => ActiveInvite(g)
     /\ tokens' = [tokens EXCEPT ![t].used = TRUE]
     /\ create_user(e)
     /\ players' = [players EXCEPT ![e] = IF InviteRequired(g) THEN InvitedBy(g) ELSE SelfRegistered]
     /\ invites' = IF g \in Invite THEN [invites EXCEPT ![g].by = e] ELSE invites
     /\ told' = IF ~InviteRequired(g) /\ mode = "moderated" THEN notify_managers(e) ELSE told
     /\ End(h)
  /\ UNCHANGED <<mode, clock, codes, probes, links, welcomed, history>>

-----------------------------------------------------------------------------
(* Moderation *)

\* Both decisions check the status of a row they did not lock.
PendingAnyStatus(e) == players[e] # NoPlayer
Pending(e) == players[e] # NoPlayer /\ players[e].status = "pending"

LoadApprove(h, e, k) ==
  /\ Pending(e)
  /\ Start(h, [kind |-> "approve", email |-> e, row |-> players[e], grant |-> k])
LoadReject(h, e) ==
  /\ Pending(e)
  /\ Start(h, [kind |-> "reject", email |-> e, row |-> players[e]])

\* A decision written over a row that is not the one that was checked.
MarkStale(h) == IF players[op[h].email] = op[h].row THEN raced ELSE raced \cup {op[h].email}

CommitApprove(h) ==
  /\ op[h].kind = "approve"
  /\ LET e == op[h].email IN
     /\ players' = [players EXCEPT ![e].status = "active",
                       ![e].kind = IF op[h].grant # None THEN op[h].grant ELSE @]
     /\ welcomed' = [welcomed EXCEPT ![e] = @ + 1]
  /\ raced' = MarkStale(h)
  /\ End(h)
  /\ UNCHANGED <<mode, clock, codes, probes, tokens, users, links, invites, told,
                 wrong, accepted>>

CommitReject(h) ==
  /\ op[h].kind = "reject"
  /\ players' = [players EXCEPT ![op[h].email].status = "rejected"]
  /\ raced' = MarkStale(h)
  /\ End(h)
  /\ UNCHANGED <<mode, clock, codes, probes, tokens, users, links, invites, told,
                 welcomed, wrong, accepted>>

\* The card of a player who was let in: the administrator blocks and unblocks.
UpdatePlayer(e, s) ==
  /\ players[e] # NoPlayer
  /\ players[e].status \in {"active", "blocked"} /\ players[e].status # s
  /\ players' = [players EXCEPT ![e].status = s]
  /\ UNCHANGED <<mode, clock, codes, probes, tokens, users, links, invites, told, welcomed, op,
                 started, history>>

-----------------------------------------------------------------------------
\* A request that fails a later check, or whose process ends, leaves nothing behind.
Abandon(h) ==
  /\ op[h] # Idle
  /\ End(h)
  /\ UNCHANGED <<state, history>>

Tick ==
  /\ clock < MaxTime
  /\ clock' = clock + 1
  /\ UNCHANGED <<mode, codes, probes, tokens, users, players, links, invites, told,
                 welcomed, op, started, history>>

\* What a newcomer can be holding: nothing, an invite that was made, a link that was shown.
Given ==
  {None} \cup {i \in Invite : invites[i] # NoInvite}
         \cup {g \in Links : g[2] <= links[g[1]]}

Next ==
  \/ Tick
  \/ \E e \in Email, a \in Ip, solved \in BOOLEAN :
       \/ RequestLoginCode(e, a, solved)
       \/ LoginUnknown(e, a, solved)
       \/ \E g \in Given : RegisterStart(e, a, g, solved) \/ RegisterKnown(e, a, g, solved)
  \/ \E e \in Referrer : OpenLink(e) \/ RotateLink(e)
  \/ \E e \in Mistaken : WrongCode(e)
  \/ \E e \in Email, c \in DOMAIN codes : LoginByCode(e, c)
  \/ \E e \in Referrer, s \in {"active", "blocked"} : UpdatePlayer(e, s)
  \/ \E i \in Invite, k \in Kind : CreateInvite(i, k)
  \/ \E h \in Handler :
       \/ Abandon(h)
       \/ \E e \in Email : LoadVerify(h, e)
       \/ \E c \in DOMAIN codes : CommitVerify(h, c)
       \/ \E t \in DOMAIN tokens, g \in Given : LoadComplete(h, t, g)
       \/ CommitComplete(h)
       \/ \E i \in Invite : LoadRevoke(h, i)
       \/ CommitRevoke(h)
       \/ \E e \in Email : LoadReject(h, e) \/ \E k \in {None, "credit"} : LoadApprove(h, e, k)
       \/ CommitApprove(h)
       \/ CommitReject(h)

Spec == Init /\ [][Next]_vars

-----------------------------------------------------------------------------
(* Properties *)

\* An invite brings one player at most, whoever opens it first, and an invite that was used
\* and revoked both is one whose revocation was decided on an older row
\* (require_active_invite FOR UPDATE, consume_invite, revoke_invite).
InviteMakesOnePlayer ==
  \A i \in Invite : invites[i] # NoInvite =>
    /\ {e \in Email : players[e] # NoPlayer /\ players[e].via = i} = {invites[i].by} \ {None}
    /\ invites[i].by # None /\ invites[i].revoked => i \in raced

\* Whatever 24 hours one looks at, no more friends came by the links of a player than the
\* limit allows, although the limit is a count and not a constraint (find_referrer).
LinkLimitHolds ==
  \A e \in Email, t \in Time :
    Cardinality({p \in Email : /\ players[p] # NoPlayer /\ players[p].referrer = e
                               /\ players[p].since \in t .. (t + Window)})
      <= ReferralDailyLimit

\* A code opens the door once, and an older code of the same address no longer can
\* (_consume_otp under the lock of the address, shared by sign-in and registration).
CodeWorksOnce ==
  \A c \in DOMAIN codes : accepted[c] > 0 =>
    /\ accepted[c] = 1
    /\ \A b \in CodesOf(codes[c].email) : b <= c => codes[b].used

\* The first decision on a newcomer stands and is announced once, unless two decisions
\* overlapped (signup.approve, signup.reject).
DecisionHolds ==
  \A e \in Email \ raced :
    /\ welcomed[e] <= 1
    /\ e \in told =>
         <<players[e].status, welcomed[e]>> \in {<<"pending", 0>>, <<"rejected", 0>>, <<"active", 1>>,
                                                <<"blocked", 1>>}

\* A code that was answered with as many errors as it has attempts is not accepted any more
\* (backend/tests/test_auth_api.py, otp_max_attempts).
SpentAttemptsStay == \A c \in DOMAIN codes : wrong[c] >= OtpMaxAttempts => accepted[c] = 0
=============================================================================
