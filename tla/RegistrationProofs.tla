------------------------- MODULE RegistrationProofs -------------------------
(* Proofs about Registration for any people, invites and requests in          *)
(* progress: an invite makes one player, a code works once, the first         *)
(* decision on a newcomer stands and a link brings no more than its limit.    *)
EXTENDS Registration, SequenceTheorems, FiniteSetTheorems, WellFoundedInduction, TLAPS

-----------------------------------------------------------------------------
(* The inductive invariant.                                                   *)

\* The rows of players and invites, told from the places where there is none.
IsPlayer(p) == DOMAIN p = {"status", "kind", "referrer", "since", "via"}
IsInvite(i) == DOMAIN i = {"at", "kind", "by", "revoked"}

\* A request works on rows that are there; an invite it is about to revoke was
\* not used when it was read.
IsSound(r) ==
  /\ r.kind = "verify" => r.email \in Email
  /\ r.kind = "complete" => /\ r.token \in DOMAIN tokens
                            /\ r.given \in Invite \cup Links \cup {None}
  /\ r.kind = "revoke" => /\ r.invite \in Invite /\ invites[r.invite] # NoInvite
                          /\ r.row.by = None
  /\ r.kind \in {"approve", "reject"} => r.email \in Email /\ players[r.email] # NoPlayer

Shape ==
  /\ tokens \in Seq([email : Email, at : Nat, used : BOOLEAN])
  /\ clock \in Nat
  /\ DOMAIN players = Email
  /\ \A e \in Email : players[e] = NoPlayer \/ IsPlayer(players[e])
  /\ DOMAIN invites = Invite
  /\ \A i \in Invite : invites[i] = NoInvite \/ IsInvite(invites[i])
  /\ DOMAIN op = Handler
  /\ \A h \in Handler : IsSound(op[h])

\* Whoever has no account has no player row.
PlayersHaveAccounts == \A e \in Email \ users : players[e] = NoPlayer

\* Nobody came by an invite that was not made.
MadeBeforeUsed ==
  \A i \in Invite : invites[i] = NoInvite =>
    \A e \in Email : players[e] # NoPlayer => players[e].via # i

IInv == Shape /\ PlayersHaveAccounts /\ MadeBeforeUsed /\ InviteMakesOnePlayer

-----------------------------------------------------------------------------
(* Parts of the steps.                                                        *)

\* A row is told from the place where there is none.
LEMMA RowsAreTold ==
  /\ \A p : IsPlayer(p) => p # NoPlayer
  /\ \A i : IsInvite(i) => i # NoInvite
  <1>1. DOMAIN NoPlayer = {"status"} /\ DOMAIN NoInvite = {"at"}
    BY DEF NoPlayer, NoInvite
  <1> QED  BY <1>1 DEF IsPlayer, IsInvite

\* Steps that touch neither players nor invites, nor who has an account.
LEMMA QuietKeeps ==
  ASSUME IInv,
         UNCHANGED <<users, players, invites>>,
         tokens' \in Seq([email : Email, at : Nat, used : BOOLEAN]),
         DOMAIN tokens \subseteq DOMAIN tokens',
         clock' \in Nat, raced \subseteq raced',
         DOMAIN op' = Handler,
         \A h \in Handler : op'[h] = op[h] \/ op'[h] = Idle \/ IsSound(op'[h])
  PROVE  IInv'
  <1>1. ASSUME NEW h \in Handler PROVE IsSound(op[h])'
    <2>1. CASE op'[h] = Idle
      BY <2>1 DEF IsSound, Idle
    <2>2. CASE op'[h] = op[h] \/ IsSound(op'[h])
      BY <2>2 DEF IInv, Shape, IsSound
    <2> QED  BY <2>1, <2>2
  <1>2. Shape'
    BY <1>1 DEF IInv, Shape, IsPlayer, IsInvite
  <1>3. PlayersHaveAccounts' /\ MadeBeforeUsed'
    BY DEF IInv, PlayersHaveAccounts, MadeBeforeUsed
  <1>4. InviteMakesOnePlayer'
    BY DEF IInv, InviteMakesOnePlayer
  <1> QED  BY <1>2, <1>3, <1>4 DEF IInv

\* Steps that leave even the requests alone.
LEMMA StillKeeps ==
  ASSUME IInv, UNCHANGED <<users, players, invites, tokens, op, raced>>, clock' \in Nat
  PROVE  IInv'
  BY QuietKeeps DEF IInv, Shape

LEMMA StartKeeps ==
  ASSUME IInv, NEW h \in Handler, NEW r, IsSound(r), Start(h, r)
  PROVE  IInv'
  <1>1. op' = [op EXCEPT ![h] = r] /\ UNCHANGED <<users, players, invites, tokens, clock, raced>>
    BY DEF Start, state, history
  <1>2. DOMAIN op' = Handler /\ \A g \in Handler : op'[g] = op[g] \/ IsSound(op'[g])
    BY <1>1 DEF IInv, Shape
  <1> QED  BY <1>1, <1>2, QuietKeeps DEF IInv, Shape

\* A request that is over leaves the others as they were.
LEMMA EndLeaves ==
  ASSUME IInv, NEW h \in Handler, End(h)
  PROVE  DOMAIN op' = Handler /\ \A g \in Handler : op'[g] = op[g] \/ op'[g] = Idle
  BY DEF IInv, Shape, End

\* A change of the status or the kind of a player leaves who came by what.
LEMMA PlayerChangeKeeps ==
  ASSUME IInv, NEW e \in Email, players[e] # NoPlayer,
         DOMAIN players' = Email,
         \A x \in Email \ {e} : players'[x] = players[x],
         IsPlayer(players'[e]), players'[e].via = players[e].via,
         UNCHANGED <<users, invites, tokens, clock>>, raced \subseteq raced',
         DOMAIN op' = Handler,
         \A h \in Handler : op'[h] = op[h] \/ op'[h] = Idle
  PROVE  IInv'
  <1>1. \A x \in Email : /\ players'[x] = NoPlayer <=> players[x] = NoPlayer
                         /\ players[x] # NoPlayer => players'[x].via = players[x].via
    BY RowsAreTold
  <1>2. ASSUME NEW h \in Handler PROVE IsSound(op[h])'
    <2>1. CASE op'[h] = Idle
      BY <2>1 DEF IsSound, Idle
    <2>2. CASE op'[h] = op[h]
      BY <1>1, <2>2 DEF IInv, Shape, IsSound
    <2> QED  BY <2>1, <2>2
  <1>3. Shape'
    BY <1>2 DEF IInv, Shape, IsPlayer, IsInvite
  <1>4. PlayersHaveAccounts' /\ MadeBeforeUsed'
    BY <1>1 DEF IInv, PlayersHaveAccounts, MadeBeforeUsed
  <1>5. InviteMakesOnePlayer'
    <2>1. \A i \in Invite :
            {x \in Email : players'[x] # NoPlayer /\ players'[x].via = i}
              = {x \in Email : players[x] # NoPlayer /\ players[x].via = i}
      BY <1>1
    <2> QED  BY <2>1 DEF IInv, InviteMakesOnePlayer
  <1> QED  BY <1>3, <1>4, <1>5 DEF IInv

LEMMA FieldsKept ==
  ASSUME NEW p, IsPlayer(p), NEW s, NEW k
  PROVE  /\ IsPlayer([p EXCEPT !.status = s]) /\ [p EXCEPT !.status = s].via = p.via
         /\ IsPlayer([p EXCEPT !.status = s, !.kind = k])
         /\ [p EXCEPT !.status = s, !.kind = k].via = p.via
  BY DEF IsPlayer

-----------------------------------------------------------------------------
(* One action each.                                                           *)

LEMMA CreateInviteKeeps ==
  ASSUME IInv, NEW i \in Invite, NEW k \in Kind, CreateInvite(i, k)
  PROVE  IInv'
  <1>1. /\ UNCHANGED <<users, players, tokens, clock, op, raced>>
        /\ DOMAIN invites' = Invite
        /\ IsInvite(invites'[i]) /\ invites'[i].by = None /\ ~invites'[i].revoked
        /\ \A j \in Invite \ {i} : invites'[j] = invites[j]
    BY DEF CreateInvite, history, IInv, Shape, IsInvite
  <1>2. \A x \in Email : players[x] # NoPlayer => players[x].via # i
    BY DEF CreateInvite, IInv, MadeBeforeUsed
  <1>3. ASSUME NEW h \in Handler PROVE IsSound(op[h])'
    BY <1>1, RowsAreTold DEF IInv, Shape, IsSound
  <1>4. Shape'
    BY <1>1, <1>3 DEF IInv, Shape, IsPlayer, IsInvite
  <1>5. PlayersHaveAccounts'
    BY <1>1 DEF IInv, PlayersHaveAccounts
  <1>6. MadeBeforeUsed'
    BY <1>1, <1>2 DEF IInv, MadeBeforeUsed
  <1>7. InviteMakesOnePlayer'
    BY <1>1, <1>2 DEF IInv, InviteMakesOnePlayer
  <1> QED  BY <1>4, <1>5, <1>6, <1>7 DEF IInv

\* The row that was read had not been used; if it has been since, the decision is stale.
LEMMA CommitRevokeKeeps ==
  ASSUME IInv, NEW h \in Handler, CommitRevoke(h)
  PROVE  IInv'
  <1> DEFINE i == op[h].invite
  <1>1. i \in Invite /\ invites[i] # NoInvite /\ op[h].row.by = None /\ IsInvite(invites[i])
    BY DEF CommitRevoke, IInv, Shape, IsSound
  <1>2. /\ UNCHANGED <<users, players, tokens, clock>>
        /\ DOMAIN invites' = Invite
        /\ IsInvite(invites'[i]) /\ invites'[i].by = invites[i].by
        /\ \A j \in Invite \ {i} : invites'[j] = invites[j]
        /\ raced \subseteq raced' /\ (invites[i].by # None => i \in raced')
    BY <1>1 DEF CommitRevoke, IInv, Shape, IsInvite
  <1>3. DOMAIN op' = Handler /\ \A g \in Handler : op'[g] = op[g] \/ op'[g] = Idle
    BY EndLeaves DEF CommitRevoke
  <1>4. \A j \in Invite : invites'[j] = NoInvite <=> invites[j] = NoInvite
    BY <1>1, <1>2, RowsAreTold
  <1>5. ASSUME NEW g \in Handler PROVE IsSound(op[g])'
    <2>1. CASE op'[g] = Idle
      BY <2>1 DEF IsSound, Idle
    <2>2. CASE op'[g] = op[g]
      BY <1>2, <1>4, <2>2 DEF IInv, Shape, IsSound
    <2> QED  BY <1>3, <2>1, <2>2
  <1>6. Shape'
    BY <1>2, <1>3, <1>5 DEF IInv, Shape, IsPlayer, IsInvite
  <1>7. PlayersHaveAccounts' /\ MadeBeforeUsed'
    BY <1>2, <1>4 DEF IInv, PlayersHaveAccounts, MadeBeforeUsed
  <1>8. InviteMakesOnePlayer'
    BY <1>2, <1>4 DEF IInv, InviteMakesOnePlayer
  <1> QED  BY <1>6, <1>7, <1>8 DEF IInv

\* Spending a token changes nothing else about it.
LEMMA SpentIsToken ==
  ASSUME NEW k \in [email : Email, at : Nat, used : BOOLEAN]
  PROVE  [k EXCEPT !.used = TRUE] \in [email : Email, at : Nat, used : BOOLEAN]
  OBVIOUS

\* A function on an initial segment of the numbers is a sequence.
LEMMA SegmentIsSeq ==
  ASSUME NEW S, NEW n \in Nat, NEW f \in [1 .. n -> S]
  PROVE  f \in Seq(S) /\ Len(f) = n
  <1>1. [i \in 1 .. n |-> f[i]] \in Seq(S) /\ Len([i \in 1 .. n |-> f[i]]) = n
    OBVIOUS
  <1>2. f = [i \in 1 .. n |-> f[i]]
    OBVIOUS
  <1> QED  BY <1>1, <1>2, Zenon

\* A new token, and the older ones of the address spent.
LEMMA CommitVerifyKeeps ==
  ASSUME IInv, NEW h \in Handler, NEW c, CommitVerify(h, c)
  PROVE  IInv'
  <1> DEFINE T == [email : Email, at : Nat, used : BOOLEAN]
             e == op[h].email
             spent == [t \in DOMAIN tokens |->
                         IF tokens[t].email = e THEN [tokens[t] EXCEPT !.used = TRUE] ELSE tokens[t]]
             new == [email |-> e, at |-> clock, used |-> FALSE]
  <1>1. e \in Email /\ clock \in Nat /\ tokens \in Seq(T)
    BY DEF CommitVerify, IInv, Shape, IsSound
  <1>2. spent \in Seq(T) /\ Len(spent) = Len(tokens) /\ new \in T
    <2>1. Len(tokens) \in Nat /\ DOMAIN tokens = 1 .. Len(tokens)
      BY <1>1, LenProperties
    <2>2. \A t \in 1 .. Len(tokens) : tokens[t] \in T
      BY <1>1, ElementOfSeq
    <2>3. spent \in [1 .. Len(tokens) -> T]
      BY <2>1, <2>2, SpentIsToken
    <2> HIDE DEF spent
    <2>4. spent \in Seq(T) /\ Len(spent) = Len(tokens)
      BY <2>1, <2>3, SegmentIsSeq
    <2> QED  BY <1>1, <2>4
  <1>3. tokens' = Append(spent, new)
    BY DEF CommitVerify
  <1>4. tokens' \in Seq(T) /\ DOMAIN tokens \subseteq DOMAIN tokens'
    <2> HIDE DEF spent, new
    <2>1. tokens' \in Seq(T) /\ Len(tokens') = Len(tokens) + 1
      BY <1>1, <1>2, <1>3
    <2> QED  BY <1>1, <2>1
  <1>5. UNCHANGED <<users, players, invites, clock, raced>> /\ End(h)
    BY DEF CommitVerify, Consume
  <1>6. DOMAIN op' = Handler /\ \A g \in Handler : op'[g] = op[g] \/ op'[g] = Idle
    BY <1>5, EndLeaves
  <1> HIDE DEF e
  <1> QED  BY <1>1, <1>4, <1>5, <1>6, QuietKeeps

\* What the newcomer carries is what the player row remembers.
LEMMA NewcomerCarries ==
  ASSUME NEW g \in Invite \cup Links \cup {None}
  PROVE  LET p == IF InviteRequired(g) THEN InvitedBy(g) ELSE SelfRegistered
         IN  IsPlayer(p) /\ p.via = g
  BY DEF InviteRequired, InvitedBy, SelfRegistered, Admitted, IsPlayer

\* Under the lock of the invite: nobody came by it before, and it is neither used nor revoked.
LEMMA CommitCompleteKeeps ==
  ASSUME IInv, NEW h \in Handler, CommitComplete(h)
  PROVE  IInv'
  <1> DEFINE T == [email : Email, at : Nat, used : BOOLEAN]
             t == op[h].token
             e == tokens[t].email
             g == op[h].given
             p == IF InviteRequired(g) THEN InvitedBy(g) ELSE SelfRegistered
  <1>1. t \in DOMAIN tokens /\ g \in Invite \cup Links \cup {None} /\ tokens \in Seq(T)
    BY DEF CommitComplete, IInv, Shape, IsSound
  <1>2. tokens[t] \in T /\ e \in Email /\ t \in 1 .. Len(tokens)
    <2>1. t \in 1 .. Len(tokens)
      BY <1>1, LenProperties
    <2>2. tokens[t] \in T
      BY <1>1, <2>1, ElementOfSeq
    <2> QED  BY <2>1, <2>2
  <1>3. IsPlayer(p) /\ p.via = g
    BY <1>1, NewcomerCarries
  <1>4. /\ e \notin users
        /\ InviteRequired(g) => ActiveInvite(g)
        /\ tokens' = [tokens EXCEPT ![t].used = TRUE]
        /\ users' = users \cup {e}
        /\ players' = [players EXCEPT ![e] = p]
        /\ invites' = IF g \in Invite THEN [invites EXCEPT ![g].by = e] ELSE invites
        /\ UNCHANGED <<clock, raced>> /\ End(h)
    BY DEF CommitComplete, create_user, history
  <1>5. tokens' \in Seq(T) /\ DOMAIN tokens' = DOMAIN tokens
    <2> DEFINE k == [tokens[t] EXCEPT !.used = TRUE]
    <2>1. k \in T
      BY <1>2, SpentIsToken
    <2>2. tokens' = [tokens EXCEPT ![t] = k]
      BY <1>4
    <2> HIDE DEF k, t
    <2> QED  BY <1>1, <1>2, <2>1, <2>2, ExceptSeq, LenProperties
  <1>6. players[e] = NoPlayer
    BY <1>2, <1>4 DEF IInv, PlayersHaveAccounts
  <1>7. ASSUME g \in Invite
        PROVE  invites[g] # NoInvite /\ invites[g].by = None /\ ~invites[g].revoked
    <2>1. g # None /\ g \notin Links
      BY <1>7, NoneAssumption DEF Links
    <2>2. ActiveRow(g)
      BY <1>4, <2>1 DEF InviteRequired, ActiveInvite
    <2> QED  BY <2>2 DEF ActiveRow, Used, Revoked
  <1>8. /\ DOMAIN players' = Email /\ DOMAIN invites' = Invite
        /\ players'[e] = p /\ \A x \in Email \ {e} : players'[x] = players[x]
        /\ \A i \in Invite \ {g} : invites'[i] = invites[i]
        /\ g \in Invite => /\ IsInvite(invites'[g]) /\ invites'[g].by = e
                           /\ invites'[g].revoked = invites[g].revoked
    <2> HIDE DEF p, e, g, t
    <2>1. g \in Invite => IsInvite(invites[g])
      BY <1>7 DEF IInv, Shape
    <2> QED  BY <1>2, <1>4, <2>1 DEF IInv, Shape, IsInvite
  <1>9. DOMAIN op' = Handler /\ \A k \in Handler : op'[k] = op[k] \/ op'[k] = Idle
    BY <1>4, EndLeaves
  <1> HIDE DEF p, e, g, t
  <1>10. ASSUME NEW k \in Handler PROVE IsSound(op[k])'
    <2>1. CASE op'[k] = Idle
      BY <2>1 DEF IsSound, Idle
    <2>2. CASE op'[k] = op[k]
      <3>1. IsSound(op[k])
        BY DEF IInv, Shape
      <3>2. \A x \in Email : players[x] # NoPlayer => players'[x] # NoPlayer
        BY <1>3, <1>6, <1>8
      <3>3. \A i \in Invite : invites[i] # NoInvite => invites'[i] # NoInvite
        BY <1>8, RowsAreTold
      <3> QED  BY <1>5, <2>2, <3>1, <3>2, <3>3 DEF IsSound
    <2> QED  BY <1>9, <2>1, <2>2
  <1>11. Shape'
    <2>1. \A x \in Email : players'[x] = NoPlayer \/ IsPlayer(players'[x])
      BY <1>3, <1>8 DEF IInv, Shape
    <2>2. \A i \in Invite : invites'[i] = NoInvite \/ IsInvite(invites'[i])
      BY <1>8 DEF IInv, Shape
    <2> QED  BY <1>4, <1>5, <1>8, <1>9, <1>10, <2>1, <2>2 DEF IInv, Shape, IsPlayer, IsInvite
  <1>12. PlayersHaveAccounts'
    BY <1>4, <1>8 DEF IInv, PlayersHaveAccounts
  <1>13. MadeBeforeUsed'
    <2> SUFFICES ASSUME NEW i \in Invite, invites'[i] = NoInvite,
                        NEW x \in Email, players'[x] # NoPlayer
                 PROVE  players'[x].via # i
      BY DEF MadeBeforeUsed
    <2>1. i # g /\ invites[i] = NoInvite
      BY <1>8, RowsAreTold
    <2>2. CASE x = e
      BY <1>3, <1>8, <2>1, <2>2
    <2>3. CASE x # e
      BY <1>8, <2>1, <2>3 DEF IInv, MadeBeforeUsed
    <2> QED  BY <2>2, <2>3
  <1>14. InviteMakesOnePlayer'
    <2> SUFFICES ASSUME NEW i \in Invite, invites'[i] # NoInvite
                 PROVE  /\ {x \in Email : players'[x] # NoPlayer /\ players'[x].via = i}
                             = {invites'[i].by} \ {None}
                        /\ invites'[i].by # None /\ invites'[i].revoked => i \in raced'
      BY DEF InviteMakesOnePlayer
    <2>1. CASE i = g
      <3>1. {x \in Email : players[x] # NoPlayer /\ players[x].via = g} = {}
        BY <1>7, <2>1 DEF IInv, InviteMakesOnePlayer
      <3>2. {x \in Email : players'[x] # NoPlayer /\ players'[x].via = g} = {e}
        BY <1>2, <1>3, <1>8, <3>1, RowsAreTold
      <3>3. invites'[g].by = e /\ e # None /\ ~invites'[g].revoked
        BY <1>2, <1>7, <1>8, <2>1, NoneAssumption
      <3> QED  BY <2>1, <3>2, <3>3
    <2>2. CASE i # g
      <3>1. invites'[i] = invites[i]
        BY <1>8, <2>2
      <3>2. {x \in Email : players'[x] # NoPlayer /\ players'[x].via = i}
              = {x \in Email : players[x] # NoPlayer /\ players[x].via = i}
        BY <1>3, <1>6, <1>8, <2>2
      <3> QED  BY <1>4, <3>1, <3>2 DEF IInv, InviteMakesOnePlayer
    <2> QED  BY <2>1, <2>2
  <1> QED  BY <1>11, <1>12, <1>13, <1>14 DEF IInv

LEMMA CommitDecisionKeeps ==
  ASSUME IInv, NEW h \in Handler, CommitApprove(h) \/ CommitReject(h)
  PROVE  IInv'
  <1> DEFINE e == op[h].email
  <1>1. e \in Email /\ players[e] # NoPlayer /\ IsPlayer(players[e])
    BY DEF CommitApprove, CommitReject, IInv, Shape, IsSound
  <1>2. /\ DOMAIN players' = Email
        /\ \A x \in Email \ {e} : players'[x] = players[x]
        /\ IsPlayer(players'[e]) /\ players'[e].via = players[e].via
    <2>1. CASE CommitApprove(h)
      BY <1>1, <2>1 DEF CommitApprove, IInv, Shape, IsPlayer
    <2>2. CASE CommitReject(h)
      BY <1>1, <2>2 DEF CommitReject, IInv, Shape, IsPlayer
    <2> QED  BY <2>1, <2>2
  <1>3. UNCHANGED <<users, invites, tokens, clock>> /\ raced \subseteq raced' /\ End(h)
    BY DEF CommitApprove, CommitReject, MarkStale
  <1>4. DOMAIN op' = Handler /\ \A g \in Handler : op'[g] = op[g] \/ op'[g] = Idle
    BY <1>3, EndLeaves
  <1> HIDE DEF e
  <1> QED  BY <1>1, <1>2, <1>3, <1>4, PlayerChangeKeeps

LEMMA UpdatePlayerKeeps ==
  ASSUME IInv, NEW e \in Email, NEW s, UpdatePlayer(e, s)
  PROVE  IInv'
  <1>1. /\ players[e] # NoPlayer /\ IsPlayer(players[e])
        /\ players' = [players EXCEPT ![e].status = s]
        /\ UNCHANGED <<users, invites, tokens, clock, op, raced>>
    BY DEF UpdatePlayer, history, IInv, Shape
  <1>2. /\ DOMAIN players' = Email
        /\ \A x \in Email \ {e} : players'[x] = players[x]
        /\ IsPlayer(players'[e]) /\ players'[e].via = players[e].via
    BY <1>1 DEF IInv, Shape, IsPlayer
  <1>3. DOMAIN op' = Handler /\ \A g \in Handler : op'[g] = op[g] \/ op'[g] = Idle
    BY <1>1 DEF IInv, Shape
  <1> QED  BY <1>1, <1>2, <1>3, PlayerChangeKeeps

LEMMA AbandonKeeps ==
  ASSUME IInv, NEW h \in Handler, Abandon(h)
  PROVE  IInv'
  <1>1. UNCHANGED <<users, players, invites, tokens, clock, raced>> /\ End(h)
    BY DEF Abandon, state, history
  <1>2. DOMAIN op' = Handler /\ \A g \in Handler : op'[g] = op[g] \/ op'[g] = Idle
    BY <1>1, EndLeaves
  <1> QED  BY <1>1, <1>2, QuietKeeps DEF IInv, Shape

\* The requests that begin, with what they remember.
LEMMA LoadsKeep ==
  ASSUME IInv, NEW h \in Handler,
         \/ \E e \in Email : LoadVerify(h, e)
         \/ \E t \in DOMAIN tokens, g \in Given : LoadComplete(h, t, g)
         \/ \E i \in Invite : LoadRevoke(h, i)
         \/ \E e \in Email : LoadReject(h, e) \/ \E k \in {None, "credit"} : LoadApprove(h, e, k)
  PROVE  IInv'
  <1>1. ASSUME NEW e \in Email, LoadVerify(h, e) PROVE IInv'
    <2>1. IsSound([kind |-> "verify", email |-> e])
      BY DEF IsSound
    <2> QED  BY <1>1, <2>1, StartKeeps DEF LoadVerify
  <1>2. ASSUME NEW t \in DOMAIN tokens, NEW g \in Given, LoadComplete(h, t, g) PROVE IInv'
    <2>1. g \in Invite \cup Links \cup {None}
      BY DEF Given
    <2>2. IsSound([kind |-> "complete", token |-> t, given |-> g])
      BY <2>1 DEF IsSound
    <2> QED  BY <1>2, <2>2, StartKeeps DEF LoadComplete
  <1>3. ASSUME NEW i \in Invite, LoadRevoke(h, i) PROVE IInv'
    <2>1. IsSound([kind |-> "revoke", invite |-> i, row |-> invites[i]])
      BY <1>3 DEF LoadRevoke, Used, IsSound
    <2> QED  BY <1>3, <2>1, StartKeeps DEF LoadRevoke
  <1>4. ASSUME NEW e \in Email, LoadReject(h, e) PROVE IInv'
    <2>1. IsSound([kind |-> "reject", email |-> e, row |-> players[e]])
      BY <1>4 DEF LoadReject, Pending, IsSound
    <2> QED  BY <1>4, <2>1, StartKeeps DEF LoadReject
  <1>5. ASSUME NEW e \in Email, NEW k, LoadApprove(h, e, k) PROVE IInv'
    <2>1. IsSound([kind |-> "approve", email |-> e, row |-> players[e], grant |-> k])
      BY <1>5 DEF LoadApprove, Pending, IsSound
    <2> QED  BY <1>5, <2>1, StartKeeps DEF LoadApprove
  <1> QED  BY <1>1, <1>2, <1>3, <1>4, <1>5
-----------------------------------------------------------------------------
(* The theorem.                                                               *)

\* At the start there is the administrator, who came by no invite.
LEMMA Initial == Init => IInv
  <1> SUFFICES ASSUME Init PROVE IInv
    OBVIOUS
  <1> DEFINE root == [status |-> "active", kind |-> "credit", referrer |-> None, since |-> 0, via |-> None]
  <1>1. /\ users = {Root} /\ tokens = << >> /\ clock = 0
        /\ DOMAIN players = Email /\ DOMAIN invites = Invite /\ DOMAIN op = Handler
        /\ \A e \in Email : players[e] = IF e = Root THEN root ELSE NoPlayer
        /\ \A i \in Invite : invites[i] = NoInvite
        /\ \A h \in Handler : op[h] = Idle
    BY DEF Init
  <1>2. IsPlayer(root) /\ root.via = None
    BY DEF IsPlayer
  <1>3. \A h \in Handler : IsSound(op[h])
    BY <1>1 DEF IsSound, Idle
  <1> HIDE DEF root
  <1>4. Shape
    <2>1. \A e \in Email : players[e] = NoPlayer \/ IsPlayer(players[e])
      BY <1>1, <1>2
    <2>2. tokens \in Seq([email : Email, at : Nat, used : BOOLEAN])
      BY <1>1
    <2> QED  BY <1>1, <1>3, <2>1, <2>2 DEF Shape
  <1>5. PlayersHaveAccounts
    BY <1>1 DEF PlayersHaveAccounts
  <1>6. MadeBeforeUsed
    BY <1>1, <1>2, NoneAssumption DEF MadeBeforeUsed
  <1>7. InviteMakesOnePlayer
    BY <1>1 DEF InviteMakesOnePlayer
  <1> QED  BY <1>4, <1>5, <1>6, <1>7 DEF IInv

LEMMA Inductive == IInv /\ [Next]_vars => IInv'
  <1> SUFFICES ASSUME IInv, [Next]_vars PROVE IInv'
    OBVIOUS
  <1>0. clock \in Nat
    BY DEF IInv, Shape
  <1>1. ASSUME Tick PROVE IInv'
    BY <1>0, <1>1, StillKeeps DEF Tick, history
  <1>2. ASSUME NEW e, NEW a, NEW g, NEW solved,
               \/ RequestLoginCode(e, a, solved) \/ LoginUnknown(e, a, solved)
               \/ RegisterStart(e, a, g, solved) \/ RegisterKnown(e, a, g, solved)
        PROVE  IInv'
    BY <1>0, <1>2, StillKeeps
       DEF RequestLoginCode, LoginUnknown, RegisterStart, RegisterKnown, IssueOtp, LookupFails, history
  <1>3. ASSUME NEW e, OpenLink(e) \/ RotateLink(e) PROVE IInv'
    BY <1>0, <1>3, StillKeeps DEF OpenLink, RotateLink, AssignNewCode, history
  <1>4. ASSUME NEW e, NEW c, WrongCode(e) \/ LoginByCode(e, c) PROVE IInv'
    BY <1>0, <1>4, StillKeeps DEF WrongCode, LoginByCode, Consume
  <1>5. ASSUME NEW h \in Handler,
               \/ Abandon(h) \/ CommitComplete(h) \/ CommitRevoke(h)
               \/ CommitApprove(h) \/ CommitReject(h)
               \/ \E c \in DOMAIN codes : CommitVerify(h, c)
        PROVE  IInv'
    BY <1>5, AbandonKeeps, CommitCompleteKeeps, CommitRevokeKeeps, CommitDecisionKeeps, CommitVerifyKeeps
  <1>6. ASSUME UNCHANGED vars PROVE IInv'
    BY <1>0, <1>6, StillKeeps DEF vars
  <1>7. ASSUME Next PROVE IInv'
    <2>1. CASE \E h \in Handler :
                 \/ \E e \in Email : LoadVerify(h, e)
                 \/ \E t \in DOMAIN tokens, g \in Given : LoadComplete(h, t, g)
                 \/ \E i \in Invite : LoadRevoke(h, i)
                 \/ \E e \in Email : LoadReject(h, e) \/ \E k \in {None, "credit"} : LoadApprove(h, e, k)
      BY <2>1, LoadsKeep
    <2>2. CASE \E e \in Referrer, s \in {"active", "blocked"} : UpdatePlayer(e, s)
      BY <2>2, UpdatePlayerKeeps, RootAssumption
    <2>3. CASE \E i \in Invite, k \in Kind : CreateInvite(i, k)
      BY <2>3, CreateInviteKeeps
    <2> QED  BY <1>1, <1>2, <1>3, <1>4, <1>5, <1>7, <2>1, <2>2, <2>3 DEF Next
  <1> QED  BY <1>6, <1>7

\* Whoever opens an invite first, and however revocations, decisions and registrations
\* overlap, an invite brings one player at most, and one that is both used and revoked was
\* revoked on an older row (require_active_invite, consume_invite, revoke_invite).
THEOREM InviteIsForOne == Spec => []InviteMakesOnePlayer
  <1>1. IInv => InviteMakesOnePlayer
    BY DEF IInv
  <1> QED  BY Initial, Inductive, <1>1, PTL DEF Spec
-----------------------------------------------------------------------------
(* One-time codes: a code works once.                                         *)

CodeRow == [email : Email, ip : Ip, at : Nat, used : BOOLEAN, attempts : Nat]

\* Nothing was accepted of a code that was not sent.
SentBeforeAccepted == \A c \in 1 .. MaxCodes : accepted[c] > 0 => c \in DOMAIN codes

CInv ==
  /\ codes \in Seq(CodeRow) /\ Len(codes) <= MaxCodes
  /\ accepted \in [1 .. MaxCodes -> Nat]
  /\ SentBeforeAccepted
  /\ CodeWorksOnce

\* Among the first n numbers the largest of a set that is not empty.
LEMMA MaxIsThere ==
  ASSUME NEW n \in Nat, NEW T, T \subseteq 1 .. n, T # {}
  PROVE  Max(T) \in T /\ \A y \in T : Max(T) >= y
  <1> DEFINE D == {n - x : x \in T}
  <1>0. \A x \in T : n - x \in Nat
    OBVIOUS
  <1>1. D \subseteq Nat /\ D # {}
    BY <1>0
  <1> DEFINE R == OpToRel(<, Nat)
  <1>2. IsWellFoundedOn(R, Nat)
    BY NatLessThanWellFounded
  <1>3. PICK d \in D : \A y \in D : ~(<<y, d>> \in R)
    <2> HIDE DEF D, R
    <2> QED  BY <1>1, <1>2, WFMin
  <1>4. \A y \in D : ~(y < d)
    BY <1>1, <1>3 DEF OpToRel
  <1>5. PICK x \in T : d = n - x
    OBVIOUS
  <1>7. \A y \in T : x >= y
    <2> SUFFICES ASSUME NEW y \in T PROVE x >= y
      OBVIOUS
    <2>1. n - y \in D /\ x \in 1 .. n /\ y \in 1 .. n
      OBVIOUS
    <2>2. ~(n - y < n - x)
      BY <1>4, <1>5, <2>1
    <2> QED  BY <2>1, <2>2
  <1>8. \E z \in T : \A y \in T : z >= y
    BY <1>7
  <1> QED  BY <1>8 DEF Max

\* The newest code of an address is one of its unused codes.
LEMMA NewestIsUnused ==
  ASSUME CInv, NEW e, Newest(e) # 0
  PROVE  Newest(e) \in Unused(e) /\ Newest(e) \in DOMAIN codes
  <1>1. Unused(e) # {} /\ Newest(e) = Max(Unused(e))
    BY DEF Newest
  <1>2. DOMAIN codes = 1 .. Len(codes) /\ Len(codes) \in Nat
    BY LenProperties DEF CInv
  <1>3. Unused(e) \subseteq 1 .. Len(codes)
    BY <1>2 DEF Unused, CodesOf
  <1>4. Newest(e) \in Unused(e)
    BY <1>1, <1>2, <1>3, MaxIsThere
  <1> QED  BY <1>2, <1>3, <1>4

LEMMA CodesAreRows ==
  ASSUME CInv
  PROVE  /\ Len(codes) \in Nat /\ DOMAIN codes = 1 .. Len(codes)
         /\ \A c \in DOMAIN codes : codes[c] \in CodeRow
         /\ DOMAIN codes \subseteq 1 .. MaxCodes
  <1>1. Len(codes) \in Nat /\ DOMAIN codes = 1 .. Len(codes) /\ Len(codes) <= MaxCodes
    BY LenProperties DEF CInv
  <1>2. MaxCodes \in Nat
    BY LimitsAssumption
  <1>3. DOMAIN codes \subseteq 1 .. MaxCodes
    BY <1>1, <1>2
  <1> QED  BY <1>1, <1>3, ElementOfSeq DEF CInv

\* A right entry: nothing was accepted of the newest code before, and none of the codes of
\* the address stays unused.
LEMMA ConsumeKeeps ==
  ASSUME CInv, NEW e, NEW c, Consume(e, c)
  PROVE  CInv'
  <1>1. /\ c \in Unused(e) /\ c \in DOMAIN codes
        /\ codes' = Spend(e)
        /\ accepted' = [accepted EXCEPT ![c] = @ + 1]
    BY NewestIsUnused DEF Consume, Checkable
  <1>2. /\ Len(codes) \in Nat /\ DOMAIN codes = 1 .. Len(codes)
        /\ \A b \in DOMAIN codes : codes[b] \in CodeRow
        /\ DOMAIN codes \subseteq 1 .. MaxCodes
    BY CodesAreRows
  <1>3. c \in CodesOf(e) /\ ~codes[c].used /\ codes[c].email = e /\ c \in 1 .. MaxCodes
    BY <1>1, <1>2 DEF Unused, CodesOf
  <1>4. accepted[c] = 0
    <2>1. accepted[c] \in Nat /\ c <= c /\ c \in CodesOf(codes[c].email)
      BY <1>2, <1>3 DEF CInv
    <2>2. ~(accepted[c] > 0)
      BY <1>1, <1>3, <2>1 DEF CInv, CodeWorksOnce
    <2> QED  BY <2>1, <2>2
  <1>5. /\ accepted' \in [1 .. MaxCodes -> Nat] /\ accepted'[c] = 1
        /\ \A b \in 1 .. MaxCodes : b # c => accepted'[b] = accepted[b]
    BY <1>1, <1>3, <1>4 DEF CInv
  <1>6. /\ DOMAIN codes' = DOMAIN codes
        /\ \A b \in DOMAIN codes :
             /\ codes'[b] \in CodeRow /\ codes'[b].email = codes[b].email
             /\ codes[b].used => codes'[b].used
             /\ codes[b].email = e => codes'[b].used
    <2>1. DOMAIN codes' = DOMAIN codes
      BY <1>1 DEF Spend
    <2>2. ASSUME NEW b \in DOMAIN codes
          PROVE  /\ codes'[b] \in CodeRow /\ codes'[b].email = codes[b].email
                 /\ codes[b].used => codes'[b].used
                 /\ codes[b].email = e => codes'[b].used
      <3>1. codes[b] \in CodeRow
        BY <1>2
      <3>2. b \in Unused(e) <=> codes[b].email = e /\ ~codes[b].used
        BY DEF Unused, CodesOf
      <3>3. CASE b \in Unused(e)
        <4>1. codes'[b] = [codes[b] EXCEPT !.used = TRUE]
          BY <1>1, <3>3 DEF Spend
        <4> QED  BY <3>1, <4>1 DEF CodeRow
      <3>4. CASE b \notin Unused(e)
        <4>1. codes'[b] = codes[b]
          BY <1>1, <3>4 DEF Spend
        <4> QED  BY <3>1, <3>2, <3>4, <4>1
      <3> QED  BY <3>3, <3>4
    <2> QED  BY <2>1, <2>2
  <1>7. codes' \in Seq(CodeRow) /\ Len(codes') = Len(codes)
    <2>1. codes' \in [1 .. Len(codes) -> CodeRow]
      <3>1. codes' = [b \in DOMAIN codes' |-> codes'[b]]
        BY <1>1 DEF Spend
      <3> QED  BY <1>2, <1>6, <3>1
    <2> QED  BY <1>2, <2>1, SegmentIsSeq
  <1>8. SentBeforeAccepted'
    BY <1>1, <1>5, <1>6 DEF CInv, SentBeforeAccepted
  <1>9. CodeWorksOnce'
    <2> SUFFICES ASSUME NEW b \in DOMAIN codes, accepted'[b] > 0
                 PROVE  /\ accepted'[b] = 1
                        /\ \A a \in DOMAIN codes :
                             codes'[a].email = codes'[b].email /\ a <= b => codes'[a].used
      BY <1>6 DEF CodeWorksOnce, CodesOf
    <2>1. CASE b = c
      BY <1>3, <1>5, <1>6, <2>1
    <2>2. CASE b # c
      <3>1. b \in 1 .. MaxCodes /\ accepted'[b] = accepted[b]
        BY <1>2, <1>5, <2>2
      <3>2. /\ accepted[b] = 1
            /\ \A a \in CodesOf(codes[b].email) : a <= b => codes[a].used
        BY <3>1 DEF CInv, CodeWorksOnce
      <3> QED  BY <1>6, <3>1, <3>2 DEF CodesOf
    <2> QED  BY <2>1, <2>2
  <1> QED  BY <1>5, <1>7, <1>8, <1>9 DEF CInv

\* A new code comes after all the others; nothing was accepted of it.
LEMMA IssueKeeps ==
  ASSUME CInv, clock \in Nat, NEW e \in Email, NEW a \in Ip, NEW solved, IssueOtp(e, a, solved)
  PROVE  CInv'
  <1> DEFINE new == [email |-> e, ip |-> a, at |-> clock, used |-> FALSE, attempts |-> 0]
  <1>1. codes' = Append(codes, new) /\ accepted' = accepted /\ Len(codes) < MaxCodes
    BY DEF IssueOtp, history
  <1>2. new \in CodeRow
    BY DEF CodeRow
  <1> HIDE DEF new
  <1>3. /\ Len(codes) \in Nat /\ DOMAIN codes = 1 .. Len(codes)
        /\ codes \in Seq(CodeRow)
    BY CodesAreRows DEF CInv
  <1>4. /\ codes' \in Seq(CodeRow) /\ Len(codes') = Len(codes) + 1
        /\ DOMAIN codes' = 1 .. (Len(codes) + 1)
        /\ \A b \in DOMAIN codes : codes'[b] = codes[b]
    BY <1>1, <1>2, <1>3
  <1>5. Len(codes') <= MaxCodes
    BY <1>1, <1>3, <1>4, LimitsAssumption
  <1>6. Len(codes) + 1 \in 1 .. MaxCodes /\ Len(codes) + 1 \notin DOMAIN codes
    BY <1>1, <1>3, LimitsAssumption
  <1>7. ~(accepted[Len(codes) + 1] > 0)
    BY <1>6 DEF CInv, SentBeforeAccepted
  <1>8. SentBeforeAccepted'
    BY <1>1, <1>3, <1>4 DEF CInv, SentBeforeAccepted
  <1>9. CodeWorksOnce'
    <2> SUFFICES ASSUME NEW b \in DOMAIN codes', accepted[b] > 0
                 PROVE  /\ accepted[b] = 1
                        /\ \A x \in DOMAIN codes' :
                             codes'[x].email = codes'[b].email /\ x <= b => codes'[x].used
      BY <1>1 DEF CodeWorksOnce, CodesOf
    <2>1. b \in DOMAIN codes /\ codes'[b] = codes[b]
      <3>1. b # Len(codes) + 1
        BY <1>7
      <3> QED  BY <1>3, <1>4, <3>1
    <2>2. /\ accepted[b] = 1
          /\ \A x \in CodesOf(codes[b].email) : x <= b => codes[x].used
      BY <2>1 DEF CInv, CodeWorksOnce
    <2>3. \A x \in DOMAIN codes' : x <= b => x \in DOMAIN codes /\ codes'[x] = codes[x]
      BY <1>3, <1>4, <2>1
    <2> QED  BY <2>1, <2>2, <2>3 DEF CodesOf
  <1> QED  BY <1>1, <1>4, <1>5, <1>8, <1>9 DEF CInv

LEMMA CodesRest ==
  ASSUME CInv, UNCHANGED <<codes, accepted>>
  PROVE  CInv'
  BY DEF CInv, SentBeforeAccepted, CodeWorksOnce, CodesOf

LEMMA CodesStep ==
  ASSUME CInv, IInv, [Next]_vars
  PROVE  CInv'
  <1>1. ASSUME NEW e \in Email, NEW a \in Ip, NEW g, NEW solved,
               RequestLoginCode(e, a, solved) \/ RegisterStart(e, a, g, solved)
        PROVE  CInv'
    BY <1>1, IssueKeeps DEF RequestLoginCode, RegisterStart, IInv, Shape
  <1>2. ASSUME NEW e, NEW a, NEW g, NEW solved,
               LoginUnknown(e, a, solved) \/ RegisterKnown(e, a, g, solved)
        PROVE  CInv'
    BY <1>2, CodesRest DEF LoginUnknown, RegisterKnown, LookupFails, history
  <1>3. ASSUME NEW e, NEW c, LoginByCode(e, c) PROVE CInv'
    BY <1>3, ConsumeKeeps DEF LoginByCode
  <1>4. ASSUME NEW h, NEW c, CommitVerify(h, c) PROVE CInv'
    BY <1>4, ConsumeKeeps DEF CommitVerify
  <1>5. ASSUME NEW e, WrongCode(e) PROVE CInv'
    BY <1>5, CodesRest DEF WrongCode, RolledBack
  <1>6. ASSUME NEW e, NEW s, OpenLink(e) \/ RotateLink(e) \/ UpdatePlayer(e, s) PROVE CInv'
    BY <1>6, CodesRest DEF OpenLink, RotateLink, AssignNewCode, UpdatePlayer, history
  <1>7. ASSUME NEW i, NEW k, CreateInvite(i, k) PROVE CInv'
    BY <1>7, CodesRest DEF CreateInvite, history
  <1>8. ASSUME NEW h, NEW r, Start(h, r) PROVE CInv'
    BY <1>8, CodesRest DEF Start, state, history
  <1>9. ASSUME NEW h, Abandon(h) \/ CommitComplete(h) \/ CommitRevoke(h)
                      \/ CommitApprove(h) \/ CommitReject(h)
        PROVE  CInv'
    BY <1>9, CodesRest DEF Abandon, CommitComplete, CommitRevoke, CommitApprove, CommitReject,
                           state, history
  <1>10. ASSUME NEW h, NEW e, NEW t, NEW g, NEW i, NEW k,
                \/ LoadVerify(h, e) \/ LoadComplete(h, t, g) \/ LoadRevoke(h, i)
                \/ LoadReject(h, e) \/ LoadApprove(h, e, k)
         PROVE  CInv'
    BY <1>8, <1>10 DEF LoadVerify, LoadComplete, LoadRevoke, LoadReject, LoadApprove
  <1>11. CASE Tick
    BY <1>11, CodesRest DEF Tick, history
  <1>12. CASE UNCHANGED vars
    BY <1>12, CodesRest DEF vars
  <1> QED  BY <1>1, <1>2, <1>3, <1>4, <1>5, <1>6, <1>7, <1>9, <1>10, <1>11, <1>12 DEF Next

\* A code opens the door once, and from then on no older code of the address does, however
\* many codes were sent, entered and forgotten (_consume_otp, sign-in and registration).
THEOREM CodeOpensOnce == Spec => []CodeWorksOnce
  <1>1. Init => CInv
    <2>1. Init => codes \in Seq(CodeRow) /\ Len(codes) = 0 /\ DOMAIN codes = {}
      BY DEF Init
    <2>2. Init => accepted \in [1 .. MaxCodes -> Nat] /\ \A c \in 1 .. MaxCodes : accepted[c] = 0
      BY DEF Init
    <2> QED  BY <2>1, <2>2, LimitsAssumption DEF CInv, SentBeforeAccepted, CodeWorksOnce
  <1>2. CInv /\ IInv /\ [Next]_vars => CInv'
    BY CodesStep
  <1>3. CInv => CodeWorksOnce
    BY DEF CInv
  <1> QED  BY Initial, Inductive, <1>1, <1>2, <1>3, PTL DEF Spec

-----------------------------------------------------------------------------
(* Moderation: the first decision stands.                                     *)

\* A decision in progress was begun for a player who was waiting.
DecisionsAreOnPending ==
  \A h \in Handler : op[h].kind \in {"approve", "reject"} => op[h].row.status = "pending"

\* The managers know of everybody who waits.
WaitingIsTold ==
  \A e \in Email : players[e] # NoPlayer /\ players[e].status = "pending" => e \in told

\* Nothing was said about somebody who is not there.
UnknownIsSilent ==
  \A e \in Email : players[e] = NoPlayer => welcomed[e] = 0 /\ e \notin told

DInv ==
  /\ welcomed \in [Email -> Nat]
  /\ DecisionsAreOnPending
  /\ WaitingIsTold
  /\ UnknownIsSilent
  /\ DecisionHolds

Decided ==
  {<<"pending", 0>>, <<"rejected", 0>>, <<"active", 1>>, <<"blocked", 1>>}

LEMMA DecidedPairs ==
  ASSUME NEW s, NEW w
  PROVE  <<s, w>> \in Decided <=> \/ s \in {"pending", "rejected"} /\ w = 0
                                  \/ s \in {"active", "blocked"} /\ w = 1
  BY DEF Decided

\* A request that is over, or one begun for a player who waits.
LEMMA DecisionsRest ==
  ASSUME DInv, UNCHANGED <<players, told, welcomed>>, raced \subseteq raced',
         \A h \in Handler : \/ op'[h] = op[h]
                            \/ op'[h].kind \notin {"approve", "reject"}
                            \/ op'[h].row.status = "pending"
  PROVE  DInv'
  <1>1. DecisionsAreOnPending'
    BY DEF DInv, DecisionsAreOnPending
  <1>2. WaitingIsTold' /\ UnknownIsSilent'
    BY DEF DInv, WaitingIsTold, UnknownIsSilent
  <1>3. DecisionHolds'
    BY DEF DInv, DecisionHolds
  <1> QED  BY <1>1, <1>2, <1>3 DEF DInv

\* One player is changed or comes; nothing is remembered of the others.
LEMMA OneDecision ==
  ASSUME DInv, NEW e \in Email,
         DOMAIN players' = Email, players'[e] # NoPlayer,
         \A x \in Email \ {e} : /\ players'[x] = players[x]
                                /\ welcomed'[x] = welcomed[x]
                                /\ x \in told' <=> x \in told,
         welcomed' \in [Email -> Nat], raced \subseteq raced',
         players'[e].status = "pending" => e \in told',
         e \in raced' \/ welcomed'[e] <= 1,
         e \in raced' \/ e \notin told' \/ <<players'[e].status, welcomed'[e]>> \in Decided,
         \A h \in Handler : \/ op'[h] = op[h]
                            \/ op'[h].kind \notin {"approve", "reject"}
                            \/ op'[h].row.status = "pending"
  PROVE  DInv'
  <1>1. DecisionsAreOnPending'
    BY DEF DInv, DecisionsAreOnPending
  <1>2. WaitingIsTold' /\ UnknownIsSilent'
    BY DEF DInv, WaitingIsTold, UnknownIsSilent
  <1>3. DecisionHolds'
    <2> SUFFICES ASSUME NEW x \in Email, x \notin raced'
                 PROVE  /\ welcomed'[x] <= 1
                        /\ x \in told' => <<players'[x].status, welcomed'[x]>> \in Decided
      BY DEF DecisionHolds, Decided
    <2>1. CASE x = e
      BY <2>1
    <2>2. CASE x # e
      <3>1. x \notin raced
        OBVIOUS
      <3> QED  BY <2>2, <3>1 DEF DInv, DecisionHolds, Decided
    <2> QED  BY <2>1, <2>2
  <1> QED  BY <1>1, <1>2, <1>3 DEF DInv

\* A request that ends is none of the two decisions any more.
LEMMA EndDecides ==
  ASSUME DOMAIN op = Handler, NEW h \in Handler, End(h)
  PROVE  \A g \in Handler : op'[g] = op[g] \/ op'[g].kind \notin {"approve", "reject"}
  <1>1. op' = [op EXCEPT ![h] = Idle] /\ Idle.kind = "idle"
    BY DEF End, Idle
  <1> QED  BY <1>1

LEMMA StartDecides ==
  ASSUME DInv, DOMAIN op = Handler, NEW h \in Handler, NEW r,
         r.kind \notin {"approve", "reject"} \/ r.row.status = "pending", Start(h, r)
  PROVE  DInv'
  <1>1. op' = [op EXCEPT ![h] = r] /\ UNCHANGED <<players, told, welcomed, raced>>
    BY DEF Start, state, history
  <1>2. \A g \in Handler : op'[g] = op[g] \/ op'[g] = r
    BY <1>1
  <1> QED  BY <1>1, <1>2, DecisionsRest

\* Letting in: not stale only when the player still waits, and then nobody let him in before.
LEMMA ApproveDecides ==
  ASSUME DInv, IInv, NEW h \in Handler, CommitApprove(h)
  PROVE  DInv'
  <1> DEFINE e == op[h].email
             p == [players[e] EXCEPT !.status = "active",
                                     !.kind = IF op[h].grant # None THEN op[h].grant ELSE @]
  <1>1. /\ op[h].kind = "approve" /\ op[h].row.status = "pending"
        /\ players[e] # NoPlayer /\ IsPlayer(players[e]) /\ DOMAIN players = Email /\ e \in Email
    BY DEF CommitApprove, IInv, Shape, IsSound, DInv, DecisionsAreOnPending
  <1>2. /\ players' = [players EXCEPT ![e] = p]
        /\ welcomed' = [welcomed EXCEPT ![e] = @ + 1]
        /\ raced' = IF players[e] = op[h].row THEN raced ELSE raced \cup {e}
        /\ UNCHANGED told /\ End(h)
    BY DEF CommitApprove, MarkStale
  <1>3. p.status = "active" /\ IsPlayer(p)
    BY <1>1 DEF IsPlayer
  <1>4. \A g \in Handler : op'[g] = op[g] \/ op'[g].kind \notin {"approve", "reject"}
    BY <1>2, EndDecides DEF IInv, Shape
  <1> HIDE DEF e, p
  <1>5. /\ DOMAIN players' = Email /\ players'[e] = p /\ p # NoPlayer
        /\ \A x \in Email \ {e} : players'[x] = players[x]
        /\ welcomed' \in [Email -> Nat] /\ welcomed'[e] = welcomed[e] + 1
        /\ \A x \in Email \ {e} : welcomed'[x] = welcomed[x]
    BY <1>1, <1>2, <1>3, RowsAreTold DEF DInv
  <1>6. CASE players[e] # op[h].row
    BY <1>1, <1>2, <1>3, <1>4, <1>5, <1>6, OneDecision
  <1>7. CASE players[e] = op[h].row /\ e \notin raced
    <2>1. e \in told
      BY <1>1, <1>7 DEF DInv, WaitingIsTold
    <2>2. <<players[e].status, welcomed[e]>> \in Decided
      BY <1>1, <1>7, <2>1 DEF DInv, DecisionHolds, Decided
    <2>3. welcomed[e] = 0
      BY <1>1, <1>7, <2>2, DecidedPairs
    <2>4. <<players'[e].status, welcomed'[e]>> \in Decided /\ welcomed'[e] <= 1
      BY <1>3, <1>5, <2>3, DecidedPairs
    <2> QED  BY <1>1, <1>2, <1>3, <1>4, <1>5, <2>4, OneDecision
  <1>8. CASE e \in raced
    <2>1. e \in raced' /\ raced \subseteq raced'
      BY <1>2, <1>8
    <2> QED  BY <1>1, <1>2, <1>3, <1>4, <1>5, <2>1, OneDecision
  <1> QED  BY <1>6, <1>7, <1>8

LEMMA RejectDecides ==
  ASSUME DInv, IInv, NEW h \in Handler, CommitReject(h)
  PROVE  DInv'
  <1> DEFINE e == op[h].email
             p == [players[e] EXCEPT !.status = "rejected"]
  <1>1. /\ op[h].kind = "reject" /\ op[h].row.status = "pending"
        /\ players[e] # NoPlayer /\ IsPlayer(players[e]) /\ DOMAIN players = Email /\ e \in Email
    BY DEF CommitReject, IInv, Shape, IsSound, DInv, DecisionsAreOnPending
  <1>2. /\ players' = [players EXCEPT ![e] = p]
        /\ raced' = IF players[e] = op[h].row THEN raced ELSE raced \cup {e}
        /\ UNCHANGED <<told, welcomed>> /\ End(h)
    BY DEF CommitReject, MarkStale
  <1>3. p.status = "rejected" /\ IsPlayer(p)
    BY <1>1 DEF IsPlayer
  <1>4. \A g \in Handler : op'[g] = op[g] \/ op'[g].kind \notin {"approve", "reject"}
    BY <1>2, EndDecides DEF IInv, Shape
  <1> HIDE DEF e, p
  <1>5. /\ DOMAIN players' = Email /\ players'[e] = p /\ p # NoPlayer
        /\ \A x \in Email \ {e} : players'[x] = players[x]
        /\ welcomed' \in [Email -> Nat]
    BY <1>1, <1>2, <1>3, RowsAreTold DEF DInv
  <1>6. CASE players[e] # op[h].row \/ e \in raced
    <2>1. e \in raced' /\ raced \subseteq raced'
      BY <1>2, <1>6
    <2> QED  BY <1>1, <1>2, <1>3, <1>4, <1>5, <2>1, OneDecision
  <1>7. CASE players[e] = op[h].row /\ e \notin raced
    <2>1. e \in told
      BY <1>1, <1>7 DEF DInv, WaitingIsTold
    <2>2. <<players[e].status, welcomed[e]>> \in Decided
      BY <1>1, <1>7, <2>1 DEF DInv, DecisionHolds, Decided
    <2>3. welcomed[e] = 0 /\ welcomed' = welcomed
      BY <1>1, <1>2, <1>7, <2>2, DecidedPairs
    <2>4. <<players'[e].status, welcomed'[e]>> \in Decided /\ welcomed'[e] <= 1
      BY <1>3, <1>5, <2>3, DecidedPairs
    <2> QED  BY <1>1, <1>2, <1>3, <1>4, <1>5, <2>4, OneDecision
  <1> QED  BY <1>6, <1>7

\* Blocking and unblocking move between the two statuses of somebody who was let in.
LEMMA UpdateDecides ==
  ASSUME DInv, IInv, NEW e \in Email, NEW s \in {"active", "blocked"}, UpdatePlayer(e, s)
  PROVE  DInv'
  <1> DEFINE p == [players[e] EXCEPT !.status = s]
  <1>1. /\ players[e] # NoPlayer /\ IsPlayer(players[e]) /\ DOMAIN players = Email
        /\ players[e].status \in {"active", "blocked"}
        /\ players' = [players EXCEPT ![e] = p]
        /\ UNCHANGED <<told, welcomed, op, raced>>
    BY DEF UpdatePlayer, history, IInv, Shape
  <1>2. p.status = s /\ IsPlayer(p)
    BY <1>1 DEF IsPlayer
  <1> HIDE DEF p
  <1>3. /\ DOMAIN players' = Email /\ players'[e] = p /\ p # NoPlayer
        /\ \A x \in Email \ {e} : players'[x] = players[x]
        /\ welcomed' \in [Email -> Nat]
    BY <1>1, <1>2, RowsAreTold DEF DInv
  <1>4. e \notin raced => /\ welcomed[e] <= 1
                          /\ e \in told => <<players[e].status, welcomed[e]>> \in Decided
    BY DEF DInv, DecisionHolds, Decided
  <1>5. e \notin raced /\ e \in told => <<p.status, welcomed[e]>> \in Decided
    BY <1>1, <1>2, <1>4, DecidedPairs
  <1> QED  BY <1>1, <1>2, <1>3, <1>4, <1>5, OneDecision

\* The rows a newcomer may get.
LEMMA NewcomerStatus ==
  ASSUME NEW g
  PROVE  /\ InvitedBy(g).status = "active"
         /\ SelfRegistered.status = IF mode = "moderated" THEN "pending" ELSE "active"
  BY DEF InvitedBy, SelfRegistered, Admitted

\* A newcomer waits and the managers are told, or is in and they are not.
LEMMA CompleteDecides ==
  ASSUME DInv, IInv, NEW h \in Handler, CommitComplete(h)
  PROVE  DInv'
  <1> DEFINE T == [email : Email, at : Nat, used : BOOLEAN]
             t == op[h].token
             e == tokens[t].email
             g == op[h].given
             p == IF InviteRequired(g) THEN InvitedBy(g) ELSE SelfRegistered
  <1>1. t \in DOMAIN tokens /\ g \in Invite \cup Links \cup {None} /\ tokens \in Seq(T)
    BY DEF CommitComplete, IInv, Shape, IsSound
  <1>2. e \in Email
    <2>1. t \in 1 .. Len(tokens)
      BY <1>1, LenProperties
    <2>2. tokens[t] \in T
      BY <1>1, <2>1, ElementOfSeq
    <2> QED  BY <2>2
  <1>3. IsPlayer(p)
    BY <1>1, NewcomerCarries
  <1>4. /\ e \notin users
        /\ players' = [players EXCEPT ![e] = p]
        /\ told' = IF ~InviteRequired(g) /\ mode = "moderated" THEN told \cup {e} ELSE told
        /\ UNCHANGED <<welcomed, raced>> /\ End(h)
    BY DEF CommitComplete, create_user, history, notify_managers
  <1>5. p.status = IF ~InviteRequired(g) /\ mode = "moderated" THEN "pending" ELSE "active"
    BY NewcomerStatus
  <1>6. \A k \in Handler : op'[k] = op[k] \/ op'[k].kind \notin {"approve", "reject"}
    BY <1>4, EndDecides DEF IInv, Shape
  <1> HIDE DEF p, e, g, t
  <1>7. players[e] = NoPlayer /\ DOMAIN players = Email
    BY <1>2, <1>4 DEF IInv, PlayersHaveAccounts, Shape
  <1>8. welcomed[e] = 0 /\ e \notin told /\ welcomed \in [Email -> Nat]
    BY <1>2, <1>7 DEF DInv, UnknownIsSilent
  <1>9. /\ DOMAIN players' = Email /\ players'[e] = p /\ p # NoPlayer
        /\ \A x \in Email \ {e} : players'[x] = players[x]
    BY <1>2, <1>3, <1>4, <1>7, RowsAreTold
  <1>10. e \in told' => <<p.status, welcomed'[e]>> \in Decided
    BY <1>4, <1>5, <1>8, DecidedPairs
  <1>11. p.status = "pending" => e \in told'
    BY <1>4, <1>5
  <1>12. welcomed'[e] <= 1 /\ \A x \in Email \ {e} : x \in told' <=> x \in told
    BY <1>4, <1>8
  <1> QED  BY <1>2, <1>4, <1>6, <1>8, <1>9, <1>10, <1>11, <1>12, OneDecision

LEMMA DecisionStep ==
  ASSUME DInv, IInv, [Next]_vars
  PROVE  DInv'
  <1>0. DOMAIN op = Handler
    BY DEF IInv, Shape
  <1>1. ASSUME NEW e, NEW a, NEW g, NEW solved,
               \/ RequestLoginCode(e, a, solved) \/ LoginUnknown(e, a, solved)
               \/ RegisterStart(e, a, g, solved) \/ RegisterKnown(e, a, g, solved)
        PROVE  DInv'
    BY <1>1, DecisionsRest
       DEF RequestLoginCode, LoginUnknown, RegisterStart, RegisterKnown, IssueOtp, LookupFails, history
  <1>2. ASSUME NEW e, OpenLink(e) \/ RotateLink(e) PROVE DInv'
    BY <1>2, DecisionsRest DEF OpenLink, RotateLink, AssignNewCode, history
  <1>3. ASSUME NEW e, NEW c, WrongCode(e) \/ LoginByCode(e, c) PROVE DInv'
    BY <1>3, DecisionsRest DEF WrongCode, LoginByCode, Consume
  <1>4. ASSUME NEW i, NEW k, CreateInvite(i, k) PROVE DInv'
    BY <1>4, DecisionsRest DEF CreateInvite, history
  <1>5. CASE Tick
    BY <1>5, DecisionsRest DEF Tick, history
  <1>6. CASE UNCHANGED vars
    BY <1>6, DecisionsRest DEF vars
  <1>7. ASSUME NEW h \in Handler, NEW c, Abandon(h) \/ CommitVerify(h, c) \/ CommitRevoke(h)
        PROVE  DInv'
    <2>1. UNCHANGED <<players, told, welcomed>> /\ raced \subseteq raced' /\ End(h)
      BY <1>7 DEF Abandon, CommitVerify, CommitRevoke, Consume, state, history
    <2> QED  BY <1>0, <2>1, EndDecides, DecisionsRest
  <1>8. ASSUME NEW h \in Handler, NEW e, NEW t, NEW g, NEW i,
               LoadVerify(h, e) \/ LoadComplete(h, t, g) \/ LoadRevoke(h, i)
        PROVE  DInv'
    <2>1. PICK r : r.kind \in {"verify", "complete", "revoke"} /\ Start(h, r)
      BY <1>8 DEF LoadVerify, LoadComplete, LoadRevoke
    <2> QED  BY <1>0, <2>1, StartDecides
  <1>9. ASSUME NEW h \in Handler, NEW e, NEW k, LoadReject(h, e) \/ LoadApprove(h, e, k)
        PROVE  DInv'
    <2>1. PICK r : r.row.status = "pending" /\ Start(h, r)
      <3>1. CASE LoadReject(h, e)
        BY <3>1 DEF LoadReject, Pending
      <3>2. CASE LoadApprove(h, e, k)
        BY <3>2 DEF LoadApprove, Pending
      <3> QED  BY <1>9, <3>1, <3>2
    <2> QED  BY <1>0, <2>1, StartDecides
  <1>10. ASSUME NEW e \in Referrer, NEW s \in {"active", "blocked"}, UpdatePlayer(e, s)
         PROVE  DInv'
    BY <1>10, UpdateDecides, RootAssumption
  <1>11. ASSUME NEW h \in Handler, CommitComplete(h) \/ CommitApprove(h) \/ CommitReject(h)
         PROVE  DInv'
    BY <1>11, CompleteDecides, ApproveDecides, RejectDecides
  <1> QED  BY <1>1, <1>2, <1>3, <1>4, <1>5, <1>6, <1>7, <1>8, <1>9, <1>10, <1>11 DEF Next

\* Letting a newcomer in or turning him away: whatever two moderators do at once, the
\* decision a player can see is the first one and is announced once, and a row on which it
\* is not is a row where a decision was written over another (signup.approve, signup.reject).
THEOREM FirstDecisionStands == Spec => []DecisionHolds
  <1>1. Init => DInv
    <2> SUFFICES ASSUME Init PROVE DInv
      OBVIOUS
    <2> DEFINE root == [status |-> "active", kind |-> "credit", referrer |-> None,
                        since |-> 0, via |-> None]
    <2>1. /\ \A e \in Email : players[e] = IF e = Root THEN root ELSE NoPlayer
          /\ welcomed \in [Email -> Nat] /\ \A e \in Email : welcomed[e] = 0
          /\ told = {} /\ \A h \in Handler : op[h] = Idle
      BY DEF Init
    <2>2. root.status = "active" /\ IsPlayer(root) /\ Idle.kind = "idle"
      BY DEF IsPlayer, Idle
    <2> HIDE DEF root
    <2>3. DecisionsAreOnPending /\ WaitingIsTold
      BY <2>1, <2>2 DEF DecisionsAreOnPending, WaitingIsTold
    <2>4. UnknownIsSilent /\ DecisionHolds
      BY <2>1 DEF UnknownIsSilent, DecisionHolds
    <2> QED  BY <2>1, <2>3, <2>4 DEF DInv
  <1>2. DInv /\ IInv /\ [Next]_vars => DInv'
    BY DecisionStep
  <1>3. DInv => DecisionHolds
    BY DEF DInv
  <1> QED  BY Initial, Inductive, <1>1, <1>2, <1>3, PTL DEF Spec

-----------------------------------------------------------------------------
(* Personal links: the limit holds in every window.                           *)

\* Nobody came in the future.
CameBefore ==
  \A p \in Email : players[p] # NoPlayer => players[p].since \in Nat /\ players[p].since <= clock

LInv == IsFiniteSet(users) /\ CameBefore /\ LinkLimitHolds

\* The friends of e who came in the window that begins at t.
Came(e, t) ==
  {p \in Email : /\ players[p] # NoPlayer /\ players[p].referrer = e
                 /\ players[p].since \in t .. (t + Window)}

\* Limits are numbers.
LEMMA LimitNumbers == Window \in Nat /\ ReferralDailyLimit \in Nat /\ Time \subseteq Nat
  BY LimitsAssumption DEF Time

\* Whoever has a row has an account, and there are finitely many of those.
LEMMA CameIsFinite ==
  ASSUME LInv, IInv, NEW e, NEW t
  PROVE  IsFiniteSet(Came(e, t)) /\ Cardinality(Came(e, t)) \in Nat
  <1>1. Came(e, t) \subseteq users
    BY DEF Came, IInv, PlayersHaveAccounts
  <1> QED  BY <1>1, FS_Subset, FS_CardinalityType DEF LInv

\* Steps after which the same people have come, at the same times, by the same links.
LEMMA LinksRest ==
  ASSUME LInv, UNCHANGED users, clock \in Nat, clock' \in Nat, clock <= clock',
         \A p \in Email : /\ players'[p] = NoPlayer <=> players[p] = NoPlayer
                          /\ players[p] # NoPlayer =>
                               /\ players'[p].referrer = players[p].referrer
                               /\ players'[p].since = players[p].since
  PROVE  LInv'
  <1>1. CameBefore'
    BY DEF LInv, CameBefore
  <1>2. LinkLimitHolds'
    <2>1. \A e \in Email, t \in Time : Came(e, t)' = Came(e, t)
      BY DEF Came
    <2>2. \A e \in Email, t \in Time : Cardinality(Came(e, t)) <= ReferralDailyLimit
      BY DEF LInv, LinkLimitHolds, Came
    <2>3. \A e \in Email, t \in Time : Cardinality(Came(e, t)') <= ReferralDailyLimit
      BY <2>1, <2>2
    <2> QED  BY <2>3 DEF LinkLimitHolds, Came
  <1> QED  BY <1>1, <1>2 DEF LInv

\* Who brought a newcomer, and when he came.
LEMMA NewcomerComes ==
  ASSUME NEW g \in Invite \cup Links \cup {None}, InviteRequired(g) => ActiveInvite(g)
  PROVE  LET p == IF InviteRequired(g) THEN InvitedBy(g) ELSE SelfRegistered
         IN  /\ p.since = clock
             /\ p.referrer # None => g \in Links /\ LinkWorks(g) /\ p.referrer = g[1]
  <1> DEFINE p == IF InviteRequired(g) THEN InvitedBy(g) ELSE SelfRegistered
  <1>1. CASE ~InviteRequired(g)
    BY <1>1 DEF SelfRegistered
  <1>2. CASE InviteRequired(g)
    <2>1. g # None
      BY <1>2, NoneAssumption DEF ActiveInvite, Links
    <2>2. CASE g \in Invite
      BY <1>2, <2>2 DEF InvitedBy, Admitted
    <2>3. CASE g \in Links
      <3>1. g \notin Invite
        BY <2>3, NoneAssumption DEF Links
      <3> QED  BY <1>2, <2>3, <3>1 DEF InvitedBy, Admitted, ActiveInvite
    <2> QED  BY <2>1, <2>2, <2>3
  <1> QED  BY <1>1, <1>2

\* Every window that holds the present is part of the last Window ticks.
LEMMA RecentCovers ==
  ASSUME LInv, IInv, NEW e, NEW t \in Time, clock \in t .. (t + Window)
  PROVE  Cardinality(Came(e, t)) <= Recent(e)
  <1> DEFINE R == {p \in Email : /\ players[p] # NoPlayer /\ players[p].referrer = e
                                 /\ players[p].since + Window >= clock}
  <1>1. R \subseteq users
    BY DEF IInv, PlayersHaveAccounts
  <1>2. Came(e, t) \subseteq R
    <2> SUFFICES ASSUME NEW p \in Email, players[p] # NoPlayer, players[p].referrer = e,
                        players[p].since \in t .. (t + Window)
                 PROVE  players[p].since + Window >= clock
      BY DEF Came
    <2> DEFINE s == players[p].since
    <2>1. s \in Nat /\ t <= s /\ clock <= t + Window
      BY LimitNumbers DEF LInv, CameBefore
    <2>2. t \in Nat /\ Window \in Nat /\ clock \in Nat
      BY LimitNumbers DEF IInv, Shape
    <2> HIDE DEF s
    <2>3. s + Window >= clock
      BY <2>1, <2>2
    <2> QED  BY <2>3 DEF s
  <1>3. IsFiniteSet(R)
    BY <1>1, FS_Subset DEF LInv
  <1>4. Recent(e) = Cardinality(R)
    BY DEF Recent
  <1> HIDE DEF R
  <1> QED  BY <1>2, <1>3, <1>4, FS_Subset

\* A friend comes by a link only while its player is below the limit.
LEMMA CompleteLinks ==
  ASSUME LInv, IInv, NEW h \in Handler, CommitComplete(h)
  PROVE  LInv'
  <1> DEFINE T == [email : Email, at : Nat, used : BOOLEAN]
             t == op[h].token
             n == tokens[t].email
             g == op[h].given
             p == IF InviteRequired(g) THEN InvitedBy(g) ELSE SelfRegistered
  <1>1. t \in DOMAIN tokens /\ g \in Invite \cup Links \cup {None} /\ tokens \in Seq(T)
    BY DEF CommitComplete, IInv, Shape, IsSound
  <1>2. n \in Email
    <2>1. t \in 1 .. Len(tokens)
      BY <1>1, LenProperties
    <2>2. tokens[t] \in T
      BY <1>1, <2>1, ElementOfSeq
    <2> QED  BY <2>2
  <1>3. /\ n \notin users
        /\ InviteRequired(g) => ActiveInvite(g)
        /\ users' = users \cup {n}
        /\ players' = [players EXCEPT ![n] = p]
        /\ UNCHANGED clock
    BY DEF CommitComplete, create_user
  <1>4. /\ p.since = clock /\ IsPlayer(p)
        /\ p.referrer # None => g \in Links /\ LinkWorks(g) /\ p.referrer = g[1]
    BY <1>1, <1>3, NewcomerCarries, NewcomerComes
  <1> HIDE DEF n, p, g, t
  <1>5. players[n] = NoPlayer /\ DOMAIN players = Email /\ clock \in Nat
    BY <1>2, <1>3 DEF IInv, PlayersHaveAccounts, Shape
  <1>6. /\ players'[n] = p /\ p # NoPlayer
        /\ \A x \in Email \ {n} : players'[x] = players[x]
    BY <1>2, <1>3, <1>4, <1>5, RowsAreTold
  <1>7. IsFiniteSet(users')
    BY <1>3, FS_AddElement DEF LInv
  <1>8. CameBefore'
    BY <1>3, <1>4, <1>5, <1>6 DEF LInv, CameBefore
  <1>9. ASSUME NEW e \in Email, NEW w \in Time PROVE Cardinality(Came(e, w)') <= ReferralDailyLimit
    <2> DEFINE A == Came(e, w)
               B == Came(e, w)'
    <2>1. IsFiniteSet(A) /\ Cardinality(A) \in Nat /\ ReferralDailyLimit \in Nat
      BY CameIsFinite, LimitNumbers
    <2>2. Cardinality(A) <= ReferralDailyLimit
      BY DEF LInv, LinkLimitHolds, Came
    <2>3. B = IF p.referrer = e /\ clock \in w .. (w + Window) THEN A \cup {n} ELSE A
      <3>1. \A x \in Email \ {n} : x \in B <=> x \in A
        BY <1>6 DEF Came
      <3>2. n \in B <=> p.referrer = e /\ clock \in w .. (w + Window)
        BY <1>2, <1>4, <1>6 DEF Came
      <3>3. n \notin A /\ A \subseteq Email /\ B \subseteq Email
        BY <1>5 DEF Came
      <3> HIDE DEF A, B
      <3> QED  BY <1>2, <3>1, <3>2, <3>3
    <2>4. CASE p.referrer = e /\ clock \in w .. (w + Window)
      <3>1. g \in Links /\ LinkWorks(g) /\ e = g[1]
        BY <1>4, <2>4, NoneAssumption
      <3>2. Cardinality(A) <= Recent(e)
        BY <2>4, RecentCovers
      <3>3. ~(Recent(e) >= ReferralDailyLimit)
        BY <3>1 DEF LinkWorks, Paused
      <3>4. Recent(e) \in Nat
        <4> DEFINE R == {x \in Email : /\ players[x] # NoPlayer /\ players[x].referrer = e
                                       /\ players[x].since + Window >= clock}
        <4>1. R \subseteq users /\ Recent(e) = Cardinality(R)
          BY DEF IInv, PlayersHaveAccounts, Recent
        <4> HIDE DEF R
        <4> QED  BY <4>1, FS_Subset, FS_CardinalityType DEF LInv
      <3>5. Cardinality(A \cup {n}) <= Cardinality(A) + 1
        BY <2>1, FS_AddElement
      <3>6. Cardinality(A \cup {n}) \in Nat
        BY <2>1, FS_AddElement, FS_CardinalityType
      <3>7. B = A \cup {n}
        BY <2>3, <2>4
      <3> HIDE DEF A, B
      <3> DEFINE k == Cardinality(A)
                   l == Cardinality(A \cup {n})
                   r == Recent(e)
      <3>9. k \in Nat /\ l \in Nat /\ r \in Nat /\ k <= r /\ ~(r >= ReferralDailyLimit) /\ l <= k + 1
        BY <2>1, <3>2, <3>3, <3>4, <3>5, <3>6
      <3> HIDE DEF k, l, r
      <3>10. l <= ReferralDailyLimit
        BY <2>1, <3>9
      <3> QED  BY <3>7, <3>10 DEF l, B
    <2>5. CASE ~(p.referrer = e /\ clock \in w .. (w + Window))
      BY <2>2, <2>3, <2>5
    <2> QED  BY <2>4, <2>5
  <1>10. LinkLimitHolds'
    BY <1>9 DEF LinkLimitHolds, Came
  <1> QED  BY <1>7, <1>8, <1>10 DEF LInv

\* Decisions and blocks leave who came by whom.
LEMMA StatusLinks ==
  ASSUME LInv, IInv, NEW h, NEW e, NEW s,
         \/ h \in Handler /\ (CommitApprove(h) \/ CommitReject(h))
         \/ e \in Email /\ UpdatePlayer(e, s)
  PROVE  LInv'
  <1> DEFINE same(x) == /\ players'[x] = NoPlayer <=> players[x] = NoPlayer
                        /\ players[x] # NoPlayer =>
                             /\ players'[x].referrer = players[x].referrer
                             /\ players'[x].since = players[x].since
  <1>0. \/ h \in Handler /\ (CommitApprove(h) \/ CommitReject(h))
        \/ e \in Email /\ UpdatePlayer(e, s)
    OBVIOUS
  <1>1. clock \in Nat /\ UNCHANGED <<users, clock>> /\ DOMAIN players = Email
    BY DEF CommitApprove, CommitReject, UpdatePlayer, history, IInv, Shape
  <1>w. \E y \in Email : \E p :
          /\ IsPlayer(players[y]) /\ IsPlayer(p)
          /\ p.referrer = players[y].referrer /\ p.since = players[y].since
          /\ players' = [players EXCEPT ![y] = p]
    <2>1. CASE h \in Handler /\ CommitApprove(h)
      <3> DEFINE x == op[h].email
                 q == [players[x] EXCEPT !.status = "active",
                                 !.kind = IF op[h].grant # None THEN op[h].grant ELSE @]
      <3>1. x \in Email /\ IsPlayer(players[x]) /\ players' = [players EXCEPT ![x] = q]
        BY <2>1 DEF CommitApprove, IInv, Shape, IsSound
      <3>2. IsPlayer(q) /\ q.referrer = players[x].referrer /\ q.since = players[x].since
        BY <3>1 DEF IsPlayer
      <3> HIDE DEF x, q
      <3> QED  BY <3>1, <3>2
    <2>2. CASE h \in Handler /\ CommitReject(h)
      <3> DEFINE x == op[h].email
                 q == [players[x] EXCEPT !.status = "rejected"]
      <3>1. x \in Email /\ IsPlayer(players[x]) /\ players' = [players EXCEPT ![x] = q]
        BY <2>2 DEF CommitReject, IInv, Shape, IsSound
      <3>2. IsPlayer(q) /\ q.referrer = players[x].referrer /\ q.since = players[x].since
        BY <3>1 DEF IsPlayer
      <3> HIDE DEF x, q
      <3> QED  BY <3>1, <3>2
    <2>3. CASE e \in Email /\ UpdatePlayer(e, s)
      <3> DEFINE q == [players[e] EXCEPT !.status = s]
      <3>1. IsPlayer(players[e]) /\ players' = [players EXCEPT ![e] = q]
        BY <2>3 DEF UpdatePlayer, IInv, Shape
      <3>2. IsPlayer(q) /\ q.referrer = players[e].referrer /\ q.since = players[e].since
        BY <3>1 DEF IsPlayer
      <3> HIDE DEF q
      <3> QED  BY <2>3, <3>1, <3>2
    <2> QED  BY <1>0, <2>1, <2>2, <2>3
  <1>y. PICK y \in Email : \E p :
          /\ IsPlayer(players[y]) /\ IsPlayer(p)
          /\ p.referrer = players[y].referrer /\ p.since = players[y].since
          /\ players' = [players EXCEPT ![y] = p]
    BY <1>w
  <1>2. PICK p :
          /\ IsPlayer(players[y]) /\ IsPlayer(p)
          /\ p.referrer = players[y].referrer /\ p.since = players[y].since
          /\ players' = [players EXCEPT ![y] = p]
    BY <1>y
  <1>3. \A x \in Email : same(x)
    BY <1>1, <1>2, RowsAreTold
  <1> QED  BY <1>1, <1>3, LinksRest

LEMMA LinkStep ==
  ASSUME LInv, IInv, [Next]_vars
  PROVE  LInv'
  <1>0. clock \in Nat
    BY DEF IInv, Shape
  <1>r. ASSUME UNCHANGED <<users, players>>, clock' \in {clock, clock + 1} PROVE LInv'
    BY <1>0, <1>r, LinksRest
  <1>1. ASSUME NEW e, NEW a, NEW g, NEW solved,
               \/ RequestLoginCode(e, a, solved) \/ LoginUnknown(e, a, solved)
               \/ RegisterStart(e, a, g, solved) \/ RegisterKnown(e, a, g, solved)
        PROVE  LInv'
    BY <1>1, <1>r
       DEF RequestLoginCode, LoginUnknown, RegisterStart, RegisterKnown, IssueOtp, LookupFails, history
  <1>2. ASSUME NEW e, OpenLink(e) \/ RotateLink(e) PROVE LInv'
    BY <1>2, <1>r DEF OpenLink, RotateLink, AssignNewCode, history
  <1>3. ASSUME NEW e, NEW c, WrongCode(e) \/ LoginByCode(e, c) PROVE LInv'
    BY <1>3, <1>r DEF WrongCode, LoginByCode, Consume
  <1>4. ASSUME NEW i, NEW k, CreateInvite(i, k) PROVE LInv'
    BY <1>4, <1>r DEF CreateInvite, history
  <1>5. CASE Tick
    BY <1>5, <1>r DEF Tick, history
  <1>6. CASE UNCHANGED vars
    BY <1>6, <1>r DEF vars
  <1>7. ASSUME NEW h, NEW c, Abandon(h) \/ CommitVerify(h, c) \/ CommitRevoke(h) PROVE LInv'
    BY <1>7, <1>r DEF Abandon, CommitVerify, CommitRevoke, Consume, state, history
  <1>8. ASSUME NEW h, NEW e, NEW t, NEW g, NEW i, NEW k,
               \/ LoadVerify(h, e) \/ LoadComplete(h, t, g) \/ LoadRevoke(h, i)
               \/ LoadReject(h, e) \/ LoadApprove(h, e, k)
        PROVE  LInv'
    BY <1>8, <1>r
       DEF LoadVerify, LoadComplete, LoadRevoke, LoadReject, LoadApprove, Start, state, history
  <1>9. ASSUME NEW e \in Referrer, NEW s, UpdatePlayer(e, s) PROVE LInv'
    BY <1>9, StatusLinks, RootAssumption
  <1>10. ASSUME NEW h \in Handler, CommitApprove(h) \/ CommitReject(h) PROVE LInv'
    BY <1>10, StatusLinks
  <1>11. ASSUME NEW h \in Handler, CommitComplete(h) PROVE LInv'
    BY <1>11, CompleteLinks
  <1> QED  BY <1>1, <1>2, <1>3, <1>4, <1>5, <1>6, <1>7, <1>8, <1>9, <1>10, <1>11 DEF Next

\* However the requests of newcomers overlap, in no window of a day did more friends come by
\* the links of one player than the limit allows, with any number of addresses, links and
\* requests in progress (find_referrer locks the row of the player, then counts).
THEOREM LinkStaysBelow == Spec => []LinkLimitHolds
  <1>1. Init => LInv
    <2> SUFFICES ASSUME Init PROVE LInv
      OBVIOUS
    <2> DEFINE root == [status |-> "active", kind |-> "credit", referrer |-> None,
                        since |-> 0, via |-> None]
    <2>1. /\ \A e \in Email : players[e] = IF e = Root THEN root ELSE NoPlayer
          /\ users = {Root} /\ clock = 0
      BY DEF Init
    <2>2. root.referrer = None /\ root.since = 0
      OBVIOUS
    <2> HIDE DEF root
    <2>3. CameBefore /\ IsFiniteSet(users)
      BY <2>1, <2>2, FS_Singleton DEF CameBefore
    <2>4. ASSUME NEW e \in Email, NEW t \in Time PROVE Cardinality(Came(e, t)) <= ReferralDailyLimit
      <3>1. Came(e, t) = {}
        BY <2>1, <2>2, NoneAssumption DEF Came
      <3> QED  BY <3>1, FS_EmptySet, LimitNumbers
    <2>5. LinkLimitHolds
      BY <2>4 DEF LinkLimitHolds, Came
    <2> QED  BY <2>3, <2>5 DEF LInv
  <1>2. LInv /\ IInv /\ [Next]_vars => LInv'
    BY LinkStep
  <1>3. LInv => LinkLimitHolds
    BY DEF LInv
  <1> QED  BY Initial, Inductive, <1>1, <1>2, <1>3, PTL DEF Spec
==============================================================================
