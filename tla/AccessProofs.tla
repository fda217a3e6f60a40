---------------------------- MODULE AccessProofs ----------------------------
(* Proofs about what comes in and whom it reaches: the limiter of requests,   *)
(* sessions and roles, the chats of the bot, the notifications of a phone and *)
(* the rows of a sheet.                                                       *)
(* Each part is proved on its instance in Office; the theorems are of Office. *)
EXTENDS Office, FiniteSetTheorems, TLAPS, SequenceTheorems, WellFoundedInduction

-----------------------------------------------------------------------------
(* RateLimiter: a ban lasts its term and a window holds its limit, whatever *)
(* counters are thrown away.                                               *)

\* The one thing they ask of the settings: BAN_SECONDS is a number.
RateBanIsANumber == rl_Ban \in Int

-----------------------------------------------------------------------------
(* The inductive invariant.                                                   *)

\* _Track: its fields, the end of the ban a moment of the clock.
RateField == {"hits", "strikes", "days", "until"}
RateIsTrack(track) ==
    /\ track = [f \in RateField |-> track[f]]
    /\ track.until \in Int

RateShape ==
    /\ rl_now \in Int
    /\ rl_bans \in [Rate!Keys -> Int]
    /\ DOMAIN rl_tracks \subseteq Rate!Keys
    /\ \A k \in DOMAIN rl_tracks : RateIsTrack(rl_tracks[k])

\* A ban that is not over is in the counter of its key: a counter is thrown
\* away only when its ban is over.
RateBanIsKept ==
    \A k \in Rate!Keys :
        rl_bans[k] <= rl_now \/ (k \in DOMAIN rl_tracks /\ rl_tracks[k].until >= rl_bans[k])

RateIInv == rl_now > 0 /\ RateShape /\ RateBanIsKept

-----------------------------------------------------------------------------
(* Parts of the steps.                                                        *)

\* The counter a request finds, or begins.
LEMMA RateTrackIsTrack ==
    ASSUME RateShape, NEW k \in Rate!Keys
    PROVE  RateIsTrack(Rate!Track(k)) /\ (k \in DOMAIN rl_tracks => Rate!Track(k) = rl_tracks[k])
                                      /\ (k \notin DOMAIN rl_tracks => Rate!Track(k).until = 0)
    BY DEF RateShape, Rate!Track, RateIsTrack, Rate!NoTrack, RateField

\* Storing the counter of one key costs another key its counter only when its
\* ban is over.
LEMMA RateStoreKeeps ==
    ASSUME RateIInv, NEW k \in Rate!Keys, NEW track, RateIsTrack(track), Rate!Store(k, track),
           rl_now' = rl_now, rl_bans' \in [Rate!Keys -> Int],
           \A q \in Rate!Keys \ {k} : rl_bans'[q] = rl_bans[q],
           rl_bans'[k] <= rl_now \/ track.until >= rl_bans'[k]
    PROVE  RateIInv'
    <1>1. /\ rl_tracks' = [q \in (DOMAIN rl_tracks \ Rate!Evicted(k)) \cup {k} |->
                              IF q = k THEN track ELSE rl_tracks[q]]
        BY DEF Rate!Store
    <1>2. RateShape'
        BY <1>1 DEF RateIInv, RateShape
    <1>3. \A q \in Rate!Evicted(k) : q \in DOMAIN rl_tracks /\ rl_tracks[q].until < rl_now
        BY DEF Rate!Evicted, Rate!Stale
    <1>4. ASSUME NEW q \in Rate!Keys
          PROVE  rl_bans'[q] <= rl_now' \/ (q \in DOMAIN rl_tracks' /\ rl_tracks'[q].until >= rl_bans'[q])
        <2>1. CASE q = k
            BY <1>1, <2>1
        <2>2. CASE q # k /\ q \in Rate!Evicted(k)
            BY <1>3, <2>2 DEF RateIInv, RateShape, RateBanIsKept, RateIsTrack
        <2>3. CASE q # k /\ q \notin Rate!Evicted(k)
            BY <1>1, <2>3 DEF RateIInv, RateBanIsKept
        <2> QED  BY <2>1, <2>2, <2>3
    <1> QED  BY <1>2, <1>4 DEF RateIInv, RateBanIsKept

LEMMA RateStruckIsTrack ==
    ASSUME RateBanIsANumber, RateShape, NEW track, RateIsTrack(track)
    PROVE  RateIsTrack(Rate!Struck(track))
    <1> DEFINE strikes == Rate!Recent(Append(track.strikes, rl_now), rl_StrikeWindow)
               freed == [track EXCEPT !.strikes = <<>>, !.until = rl_now + rl_Ban]
               struck == [track EXCEPT !.strikes = strikes]
    <1>1. Rate!Struck(track) = IF Len(strikes) >= rl_StrikesToBan THEN freed ELSE struck
        BY DEF Rate!Struck
    <1> HIDE DEF strikes
    <1>2. RateIsTrack(struck)
        BY DEF RateIsTrack, RateField
    <1>3. RateIsTrack(freed)
        <2> DEFINE quiet == [track EXCEPT !.strikes = <<>>]
        <2>1. RateIsTrack(quiet)
            BY DEF RateIsTrack, RateField
        <2>2. freed = [quiet EXCEPT !.until = rl_now + rl_Ban]
            OBVIOUS
        <2>3. rl_now + rl_Ban \in Int
            BY DEF RateBanIsANumber, RateShape
        <2> HIDE DEF quiet, freed
        <2> QED  BY <2>1, <2>2, <2>3 DEF RateIsTrack, RateField
    <1> HIDE DEF freed, struck
    <1>4. CASE Len(strikes) >= rl_StrikesToBan
        BY <1>1, <1>3, <1>4
    <1>5. CASE ~(Len(strikes) >= rl_StrikesToBan)
        BY <1>1, <1>2, <1>5
    <1> QED  BY <1>4, <1>5

\* A strike leaves a counter whose ban, if any, is the one on record.
LEMMA RateStrikeKeeps ==
    ASSUME RateBanIsANumber, RateIInv, NEW k \in Rate!Keys, NEW track, RateIsTrack(track),
           track.until <= rl_now, rl_bans[k] <= rl_now, Rate!Strike(k, track)
    PROVE  RateIInv'
    <1> DEFINE struck == Rate!Struck(track)
    <1>1. RateIsTrack(struck)
        BY RateStruckIsTrack DEF RateIInv
    <1>2. /\ Rate!Store(k, struck) /\ rl_now' = rl_now
          /\ rl_bans' = [rl_bans EXCEPT ![k] = IF struck.until > @ THEN struck.until ELSE @]
        BY DEF Rate!Strike
    <1>3. /\ rl_bans' \in [Rate!Keys -> Int]
          /\ \A q \in Rate!Keys \ {k} : rl_bans'[q] = rl_bans[q]
          /\ rl_bans'[k] <= rl_now \/ struck.until >= rl_bans'[k]
        BY <1>1, <1>2 DEF RateIInv, RateShape, RateIsTrack
    <1> HIDE DEF struck
    <1> QED  BY <1>1, <1>2, <1>3, RateStoreKeeps

\* Whoever is not answered at once has no ban.
LEMMA RateNotBanned ==
    ASSUME RateIInv, NEW k \in Rate!Keys, Rate!Track(k).until <= rl_now
    PROVE  rl_bans[k] <= rl_now
    BY RateTrackIsTrack DEF RateIInv, RateShape, RateBanIsKept, RateIsTrack

LEMMA RateCountedIsTrack ==
    ASSUME RateShape, NEW k \in Rate!Keys, NEW day
    PROVE  RateIsTrack(Rate!Counted(k, day)) /\ Rate!Counted(k, day).until = Rate!Track(k).until
    <1>1. RateIsTrack(Rate!Track(k))
        BY RateTrackIsTrack
    <1> QED  BY <1>1 DEF Rate!Counted, RateIsTrack, RateField

-----------------------------------------------------------------------------
(* The theorem.                                                               *)

LEMMA RateInitial == Rate!Init => RateIInv
    BY DEF Rate!Init, RateIInv, RateShape, RateBanIsKept

LEMMA RateHitKeeps ==
    ASSUME RateBanIsANumber, RateIInv, NEW k \in Rate!Keys, NEW day,
           Rate!HitSweeping(k, day) \/ Rate!HitAbove(k, day) \/ Rate!HitPasses(k, day)
    PROVE  RateIInv' /\ rl_bans[k] <= rl_now /\ (\A q \in Rate!Keys \ {k} : rl_passed'[q] = rl_passed[q])
    <1> DEFINE counted == Rate!Counted(k, day)
    <1>1. RateIsTrack(counted) /\ counted.until = Rate!Track(k).until
        BY RateCountedIsTrack DEF RateIInv
    <1>2. Rate!Track(k).until <= rl_now /\ rl_bans[k] <= rl_now
        BY RateNotBanned DEF Rate!HitSweeping, Rate!HitAbove, Rate!HitPasses
    <1> HIDE DEF counted
    <1>3. CASE Rate!HitSweeping(k, day)
        <2>1. Rate!Strike(k, [counted EXCEPT !.days = {}])
            BY <1>3 DEF Rate!HitSweeping, counted
        <2>2. RateIsTrack([counted EXCEPT !.days = {}]) /\ [counted EXCEPT !.days = {}].until <= rl_now
            BY <1>1, <1>2 DEF RateIsTrack, RateField
        <2>3. rl_passed' = rl_passed
            BY <2>1 DEF Rate!Strike
        <2> QED  BY <1>2, <2>1, <2>2, <2>3, RateStrikeKeeps
    <1>4. CASE Rate!HitAbove(k, day)
        <2>1. Rate!Strike(k, counted)
            BY <1>4 DEF Rate!HitAbove, counted
        <2>2. rl_passed' = rl_passed
            BY <2>1 DEF Rate!Strike
        <2> QED  BY <1>1, <1>2, <2>1, <2>2, RateStrikeKeeps
    <1>5. CASE Rate!HitPasses(k, day)
        <2> DEFINE track == [counted EXCEPT !.hits = Append(@, rl_now)]
        <2>1. /\ Rate!Store(k, track) /\ UNCHANGED <<rl_now, rl_bans>>
              /\ rl_passed' = [rl_passed EXCEPT ![k] = Append(@, rl_now)]
            BY <1>5 DEF Rate!HitPasses, counted
        <2>2. RateIsTrack(track)
            BY <1>1 DEF RateIsTrack, RateField
        <2>3. rl_bans' \in [Rate!Keys -> Int] /\ rl_bans'[k] <= rl_now
            BY <1>2, <2>1 DEF RateIInv, RateShape
        <2> HIDE DEF track
        <2>4. RateIInv'
            BY <2>1, <2>2, <2>3, RateStoreKeeps
        <2> QED  BY <1>2, <2>1, <2>4
    <1> QED  BY <1>3, <1>4, <1>5

\* One step keeps the invariant and lets nobody through who is banned.
LEMMA RateStep ==
    ASSUME RateBanIsANumber, RateIInv, [Rate!Next]_(Rate!vars)
    PROVE  RateIInv' /\ (\A k \in Rate!Keys : rl_passed'[k] # rl_passed[k] => rl_bans[k] <= rl_now)
    <1>1. ASSUME NEW k \in Rate!Keys, Rate!HitBanned(k)
          PROVE  RateIInv' /\ rl_passed' = rl_passed
        <2>1. Rate!Store(k, Rate!Track(k)) /\ UNCHANGED <<rl_now, rl_passed, rl_bans>> /\ Rate!Track(k).until > rl_now
            BY <1>1 DEF Rate!HitBanned
        <2>2. RateIsTrack(Rate!Track(k))
            BY RateTrackIsTrack DEF RateIInv
        <2>3. rl_bans[k] <= rl_now \/ Rate!Track(k).until >= rl_bans[k]
            BY RateTrackIsTrack DEF RateIInv, RateBanIsKept
        <2> QED  BY <2>1, <2>2, <2>3, RateStoreKeeps DEF RateIInv, RateShape
    <1>2. ASSUME NEW k \in Rate!Keys, Rate!Hit(k)
          PROVE  RateIInv' /\ rl_bans[k] <= rl_now /\ (\A q \in Rate!Keys \ {k} : rl_passed'[q] = rl_passed[q])
        BY <1>2, RateHitKeeps DEF Rate!Hit
    <1>3. CASE Rate!Tick
        BY <1>3 DEF Rate!Tick, RateIInv, RateShape, RateBanIsKept
    <1>4. CASE UNCHANGED Rate!vars
        BY <1>4 DEF Rate!vars, RateIInv, RateShape, RateBanIsKept
    <1>5. CASE Rate!Next
        BY <1>1, <1>2, <1>3, <1>5 DEF Rate!Next, Rate!Tick
    <1> QED  BY <1>4, <1>5 DEF Rate!vars

\* Nothing passes for a banned key before its ban is over (hit), whatever the
\* limits, and although _track throws counters away.
LEMMA RateBanLasts == ASSUME RateBanIsANumber PROVE Rate!Spec => Rate!BannedStaysOut
    <1>1. RateIInv /\ [Rate!Next]_(Rate!vars) => RateIInv'
        BY RateStep
    <1>2. RateIInv /\ [Rate!Next]_(Rate!vars) => [\A k \in Rate!Keys : rl_passed'[k] # rl_passed[k] => rl_bans[k] <= rl_now]_(Rate!vars)
        BY RateStep
    <1> QED  BY RateInitial, <1>1, <1>2, PTL DEF Rate!Spec, Rate!BannedStaysOut

-----------------------------------------------------------------------------
(* The windows.                                                               *)

\* The settings are numbers, and a strike is remembered at least as long as a
\* request is counted (WINDOW_SECONDS, STRIKE_WINDOW_SECONDS).
RateSettingsAreNumbers ==
    /\ rl_Ban \in Int /\ rl_Window \in Int /\ rl_StrikeWindow \in Int
    /\ rl_Window <= rl_StrikeWindow
    /\ rl_GuestLimit \in Nat /\ rl_UserLimit \in Nat

\* times is a history up to the moment t.
RateTimely(times, t) ==
    /\ times \in Seq(Int)
    /\ \A i \in 1..Len(times) : times[i] <= t /\ \A j \in i..Len(times) : times[i] <= times[j]

\* hits are the last of the requests let through, and the others are old at t.
RateHolds(hits, times, t) ==
    /\ hits \in Seq(Int)
    /\ \E n \in 0..Len(times) :
          /\ Len(hits) = Len(times) - n
          /\ \A i \in 1..n : t - times[i] > rl_Window
          /\ \A i \in 1..Len(hits) : hits[i] = times[n + i]

\* No window has more than l of them.
RateApart(times, l) ==
    \A i \in 1..Len(times) : i + l \in 1..Len(times) => times[i + l] - times[i] > rl_Window

RateFits ==
    /\ rl_passed = [k \in Rate!Keys |-> rl_passed[k]]
    /\ \A k \in Rate!Keys : /\ RateTimely(rl_passed[k], rl_now)
                            /\ RateHolds(Rate!Track(k).hits, rl_passed[k], rl_now)
                            /\ RateApart(rl_passed[k], Rate!limit(k))

LEMMA RateLeastOf ==
    ASSUME NEW T \in SUBSET Nat, T # {}
    PROVE  \E m \in T : \A n \in T : m <= n
    <1>1. T \subseteq Nat
        OBVIOUS
    <1>2. PICK m \in T : \A n \in T : ~(<<n, m>> \in OpToRel(<, Nat))
        BY <1>1, NatLessThanWellFounded, WFMin
    <1>3. \A n \in T : ~(n < m)
        BY <1>2 DEF OpToRel
    <1> QED  BY <1>1, <1>3

\* popleft takes the old ones off and leaves the others in their order.
LEMMA RateRecentIsTail ==
    ASSUME NEW times \in Seq(Int), NEW width \in Int, rl_now \in Int
    PROVE  /\ Rate!Recent(times, width) \in Seq(Int)
           /\ \E n \in 0..Len(times) :
                 /\ Len(Rate!Recent(times, width)) = Len(times) - n
                 /\ \A i \in 1..n : rl_now - times[i] > width
                 /\ \A i \in 1..(Len(times) - n) : Rate!Recent(times, width)[i] = times[n + i]
    <1> DEFINE Fresh == {i \in 1..(Len(times) + 1) : i \in DOMAIN times => rl_now - times[i] <= width}
               First(i) == /\ i \in DOMAIN times => rl_now - times[i] <= width
                           /\ \A j \in 1..(i - 1) : rl_now - times[j] > width
    <1>1. Len(times) + 1 \in Fresh /\ Fresh \in SUBSET Nat /\ DOMAIN times = 1..Len(times)
        OBVIOUS
    <1>2. PICK m \in Fresh : \A i \in Fresh : m <= i
        <2> HIDE DEF Fresh
        <2> QED  BY <1>1, RateLeastOf
    <1>3. \A j \in 1..(m - 1) : rl_now - times[j] > width
        BY <1>1, <1>2
    <1>4. \E i \in 1..(Len(times) + 1) : First(i)
        BY <1>2, <1>3
    <1> DEFINE first == CHOOSE i \in 1..(Len(times) + 1) : First(i)
    <1>5. first \in 1..(Len(times) + 1) /\ First(first)
        BY <1>4
    <1>6. Rate!Recent(times, width) = SubSeq(times, first, Len(times))
        BY DEF Rate!Recent
    <1> HIDE DEF first, First
    <1>7. /\ SubSeq(times, first, Len(times)) \in Seq(Int)
          /\ Len(SubSeq(times, first, Len(times))) = Len(times) - (first - 1)
          /\ \A i \in 1..(Len(times) - first + 1) :
                SubSeq(times, first, Len(times))[i] = times[first + i - 1]
        <2>1. first \in Int /\ Len(times) \in Int /\ \A i \in first..Len(times) : times[i] \in Int
            BY <1>5
        <2> QED  BY <1>5, <2>1, SubSeqProperties
    <1>8. first - 1 \in 0..Len(times) /\ \A i \in 1..(first - 1) : rl_now - times[i] > width
        BY <1>5 DEF First
    <1>9. PICK n : n = first - 1
        OBVIOUS
    <1>10. PICK tail : tail = SubSeq(times, first, Len(times))
        OBVIOUS
    <1>11. /\ n \in 0..Len(times) /\ Len(tail) = Len(times) - n /\ tail \in Seq(Int)
           /\ \A i \in 1..n : rl_now - times[i] > width
           /\ \A i \in 1..(Len(times) - n) : tail[i] = times[n + i]
        BY <1>5, <1>7, <1>8, <1>9, <1>10
    <1> QED  BY <1>6, <1>10, <1>11

LEMMA RateRecentHolds ==
    ASSUME NEW times, RateTimely(times, rl_now), NEW hits, RateHolds(hits, times, rl_now),
           rl_Window \in Int, rl_now \in Int
    PROVE  RateHolds(Rate!Recent(hits, rl_Window), times, rl_now)
    <1>1. PICK n \in 0..Len(times) :
            /\ Len(hits) = Len(times) - n
            /\ \A i \in 1..n : rl_now - times[i] > rl_Window
            /\ \A i \in 1..Len(hits) : hits[i] = times[n + i]
        BY DEF RateHolds
    <1>2. hits \in Seq(Int) /\ Len(hits) \in Nat /\ Len(times) \in Nat
        BY DEF RateHolds, RateTimely
    <1>3. PICK recent : recent = Rate!Recent(hits, rl_Window)
        OBVIOUS
    <1>4. PICK m \in 0..Len(hits) :
            /\ recent \in Seq(Int)
            /\ Len(recent) = Len(hits) - m
            /\ \A i \in 1..m : rl_now - hits[i] > rl_Window
            /\ \A i \in 1..(Len(hits) - m) : recent[i] = hits[m + i]
        BY <1>2, <1>3, RateRecentIsTail
    <1>5. n + m \in 0..Len(times) /\ Len(recent) = Len(times) - (n + m)
        BY <1>1, <1>2, <1>4
    <1>6. \A i \in 1..(n + m) : rl_now - times[i] > rl_Window
        <2>1. ASSUME NEW i \in 1..(n + m), i > n
              PROVE  rl_now - times[i] > rl_Window
            <3>1. PICK j \in Int : j = i - n
                BY <1>1, <2>1
            <3>2. j \in 1..m /\ j \in 1..Len(hits) /\ n + j = i
                BY <1>1, <1>2, <1>4, <2>1, <3>1
            <3>3. hits[j] = times[n + j] /\ rl_now - hits[j] > rl_Window
                BY <1>1, <1>4, <3>2
            <3> QED  BY <3>2, <3>3
        <2> QED  BY <1>1, <2>1
    <1>7. \A i \in 1..Len(recent) : recent[i] = times[(n + m) + i]
        <2>1. ASSUME NEW i \in 1..Len(recent)
              PROVE  recent[i] = times[(n + m) + i]
            <3>1. recent[i] = hits[m + i] /\ m + i \in 1..Len(hits)
                BY <1>2, <1>4
            <3>2. hits[m + i] = times[n + (m + i)] /\ n + (m + i) = (n + m) + i
                BY <1>1, <3>1
            <3> QED  BY <3>1, <3>2
        <2> QED  BY <2>1
    <1> QED  BY <1>3, <1>4, <1>5, <1>6, <1>7 DEF RateHolds

\* One more is let through while fewer than the limit are counted.
LEMMA RateOneMore ==
    ASSUME NEW times, RateTimely(times, rl_now), NEW hits, RateHolds(hits, times, rl_now), NEW l \in Nat,
           RateApart(times, l), Len(hits) < l, rl_Window \in Int, rl_now \in Int
    PROVE  /\ RateTimely(Append(times, rl_now), rl_now)
           /\ RateHolds(Append(hits, rl_now), Append(times, rl_now), rl_now)
           /\ RateApart(Append(times, rl_now), l)
    <1>1. PICK n \in 0..Len(times) :
            /\ Len(hits) = Len(times) - n
            /\ \A i \in 1..n : rl_now - times[i] > rl_Window
            /\ \A i \in 1..Len(hits) : hits[i] = times[n + i]
        BY DEF RateHolds
    <1>2. hits \in Seq(Int) /\ times \in Seq(Int) /\ Len(hits) \in Nat /\ Len(times) \in Nat
        BY DEF RateHolds, RateTimely
    <1>3. PICK more, counted : more = Append(times, rl_now) /\ counted = Append(hits, rl_now)
        OBVIOUS
    <1>4. /\ more \in Seq(Int) /\ Len(more) = Len(times) + 1 /\ more[Len(times) + 1] = rl_now
          /\ \A i \in 1..Len(times) : more[i] = times[i]
        BY <1>2, <1>3
    <1>5. /\ counted \in Seq(Int) /\ Len(counted) = Len(hits) + 1 /\ counted[Len(hits) + 1] = rl_now
          /\ \A i \in 1..Len(hits) : counted[i] = hits[i]
        BY <1>2, <1>3
    <1>6. RateTimely(more, rl_now)
        <2>1. ASSUME NEW i \in 1..Len(more), NEW j \in i..Len(more)
              PROVE  more[i] <= rl_now /\ more[i] <= more[j]
            <3>1. i = Len(times) + 1 => more[i] = rl_now /\ j = i
                BY <1>2, <1>4, <2>1
            <3>2. i # Len(times) + 1 => i \in 1..Len(times) /\ more[i] = times[i]
                BY <1>2, <1>4, <2>1
            <3>3. j = Len(times) + 1 \/ (j \in 1..Len(times) /\ more[j] = times[j])
                BY <1>2, <1>4, <2>1
            <3>4. \A a \in 1..Len(times) : times[a] <= rl_now /\ \A b \in a..Len(times) : times[a] <= times[b]
                BY DEF RateTimely
            <3> QED  BY <1>2, <1>4, <3>1, <3>2, <3>3, <3>4
        <2> QED  BY <1>2, <1>4, <2>1 DEF RateTimely
    <1>7. RateHolds(counted, more, rl_now)
        <2>1. n \in 0..Len(more) /\ Len(counted) = Len(more) - n
            BY <1>1, <1>2, <1>4, <1>5
        <2>2. ASSUME NEW i \in 1..n
              PROVE  rl_now - more[i] > rl_Window
            <3>1. i \in 1..Len(times) /\ rl_now - times[i] > rl_Window
                BY <1>1, <1>2
            <3> QED  BY <1>4, <3>1
        <2>3. ASSUME NEW i \in 1..Len(counted)
              PROVE  counted[i] = more[n + i]
            <3>1. CASE i = Len(hits) + 1
                <4>1. n + i = Len(times) + 1
                    BY <1>1, <1>2, <3>1
                <4> QED  BY <1>4, <1>5, <3>1, <4>1
            <3>2. CASE i # Len(hits) + 1
                <4>1. i \in 1..Len(hits) /\ n + i \in 1..Len(times)
                    BY <1>1, <1>2, <1>5, <3>2
                <4> QED  BY <1>1, <1>4, <1>5, <4>1
            <3> QED  BY <3>1, <3>2
        <2> QED  BY <1>5, <2>1, <2>2, <2>3 DEF RateHolds
    <1>8. RateApart(more, l)
        <2>1. ASSUME NEW i \in 1..Len(more), i + l \in 1..Len(more)
              PROVE  more[i + l] - more[i] > rl_Window
            <3>1. CASE i + l = Len(more)
                <4>1. i <= n /\ i \in 1..Len(times)
                    BY <1>1, <1>2, <1>4, <3>1
                <4>2. more[i] = times[i] /\ more[i + l] = rl_now
                    BY <1>4, <3>1, <4>1
                <4>3. i \in 1..n
                    BY <4>1
                <4> QED  BY <1>1, <4>2, <4>3
            <3>2. CASE i + l # Len(more)
                <4>1. i \in 1..Len(times) /\ i + l \in 1..Len(times)
                    <5>1. i \in Nat /\ 1 <= i /\ l >= 0 /\ i + l <= Len(times) + 1 /\ i + l # Len(times) + 1
                        BY <1>2, <1>4, <2>1, <3>2
                    <5> QED  BY <1>2, <5>1
                <4>2. more[i] = times[i] /\ more[i + l] = times[i + l]
                    BY <1>4, <4>1
                <4>3. times[i + l] - times[i] > rl_Window
                    BY <4>1 DEF RateApart
                <4> QED  BY <4>2, <4>3
            <3> QED  BY <3>1, <3>2
        <2> QED  BY <2>1 DEF RateApart
    <1> QED  BY <1>3, <1>6, <1>7, <1>8

\* The counter of a key that is thrown away held nothing recent.
LEMMA RateStaleIsOld ==
    ASSUME RateSettingsAreNumbers, RateShape, RateFits, NEW q \in Rate!Keys, q \in Rate!Stale
    PROVE  RateHolds(<<>>, rl_passed[q], rl_now)
    <1>1. PICK hits, times : hits = Rate!Track(q).hits /\ times = rl_passed[q]
        OBVIOUS
    <1>2. /\ RateTimely(times, rl_now) /\ RateHolds(hits, times, rl_now)
          /\ hits = <<>> \/ rl_now - Rate!Last(hits) > rl_StrikeWindow
        BY <1>1 DEF RateFits, Rate!Stale, Rate!Track
    <1>3. PICK n \in 0..Len(times) :
            /\ Len(hits) = Len(times) - n
            /\ \A i \in 1..n : rl_now - times[i] > rl_Window
            /\ \A i \in 1..Len(hits) : hits[i] = times[n + i]
        BY <1>2 DEF RateHolds
    <1>4. hits \in Seq(Int) /\ Len(hits) \in Nat /\ times \in Seq(Int) /\ Len(times) \in Nat
        BY <1>2 DEF RateHolds, RateTimely
    <1>5. \A i \in 1..Len(times) : rl_now - times[i] > rl_Window
        <2>1. CASE hits = <<>>
            <3>1. n = Len(times)
                BY <1>3, <1>4, <2>1
            <3> QED  BY <1>3, <3>1
        <2>2. CASE hits # <<>>
            <3>1. Len(hits) > 0 /\ Rate!Last(hits) = hits[Len(hits)]
                BY <1>4, <2>2, EmptySeq DEF Rate!Last
            <3>2. hits[Len(hits)] = times[Len(times)]
                <4>1. Len(hits) \in 1..Len(hits) /\ n + Len(hits) = Len(times)
                    BY <1>3, <1>4, <3>1
                <4> QED  BY <1>3, <4>1
            <3>3. \A i \in 1..Len(times) : times[i] <= times[Len(times)] /\ times[i] \in Int
                BY <1>2, <1>4 DEF RateTimely
            <3>4. rl_now - times[Len(times)] > rl_Window /\ rl_now \in Int
                  /\ times[Len(times)] \in Int
                BY <1>2, <1>3, <1>4, <2>2, <3>1, <3>2 DEF RateSettingsAreNumbers, RateShape
            <3> QED  BY <3>3, <3>4 DEF RateSettingsAreNumbers
        <2> QED  BY <2>1, <2>2
    <1>6. <<>> \in Seq(Int) /\ Len(<<>>) = Len(times) - Len(times)
          /\ Len(times) \in 0..Len(times)
          /\ \A i \in 1..Len(<<>>) : <<>>[i] = times[Len(times) + i]
        BY <1>4
    <1> QED  BY <1>1, <1>5, <1>6 DEF RateHolds

LEMMA RateStoreFits ==
    ASSUME RateSettingsAreNumbers, RateShape, RateFits, NEW k \in Rate!Keys, NEW track, Rate!Store(k, track), rl_now' = rl_now,
           rl_passed' = [q \in Rate!Keys |-> rl_passed'[q]],
           \A q \in Rate!Keys \ {k} : rl_passed'[q] = rl_passed[q],
           NEW times, rl_passed'[k] = times, RateTimely(times, rl_now), RateHolds(track.hits, times, rl_now),
           RateApart(times, Rate!limit(k))
    PROVE  RateFits'
    <1>1. /\ rl_tracks' = [q \in (DOMAIN rl_tracks \ Rate!Evicted(k)) \cup {k} |->
                              IF q = k THEN track ELSE rl_tracks[q]]
        BY DEF Rate!Store
    <1>2. ASSUME NEW q \in Rate!Keys
          PROVE  RateTimely(rl_passed'[q], rl_now) /\ RateHolds(Rate!Track(q)'.hits, rl_passed'[q], rl_now)
                 /\ RateApart(rl_passed'[q], Rate!limit(q))
        <2>1. CASE q = k
            <3>1. Rate!Track(q)' = track
                BY <1>1, <2>1 DEF Rate!Track
            <3> QED  BY <2>1, <3>1
        <2>2. CASE q # k /\ q \in Rate!Evicted(k)
            <3>1. Rate!Track(q)' = Rate!NoTrack /\ q \in Rate!Stale
                BY <1>1, <2>2 DEF Rate!Track, Rate!Evicted
            <3>2. RateHolds(<<>>, rl_passed[q], rl_now)
                BY <3>1, RateStaleIsOld
            <3>3. Rate!Track(q)'.hits = <<>>
                BY <3>1 DEF Rate!NoTrack
            <3> QED  BY <2>2, <3>2, <3>3 DEF RateFits
        <2>3. CASE q # k /\ q \notin Rate!Evicted(k)
            <3>1. Rate!Track(q)' = Rate!Track(q)
                BY <1>1, <2>3 DEF Rate!Track, Rate!NoTrack
            <3> QED  BY <2>3, <3>1 DEF RateFits
        <2> QED  BY <2>1, <2>2, <2>3
    <1> QED  BY <1>2 DEF RateFits, Rate!limit

\* A strike leaves the requests that are counted as they are.
LEMMA RateStruckKeepsHits ==
    ASSUME NEW track, RateIsTrack(track)
    PROVE  Rate!Struck(track).hits = track.hits
    BY DEF Rate!Struck, RateIsTrack, RateField

LEMMA RateCountedHits ==
    ASSUME RateShape, RateFits, RateSettingsAreNumbers, NEW k \in Rate!Keys, NEW day
    PROVE  /\ Rate!Counted(k, day).hits = Rate!Recent(Rate!Track(k).hits, rl_Window)
           /\ RateHolds(Rate!Counted(k, day).hits, rl_passed[k], rl_now)
    <1>1. RateIsTrack(Rate!Track(k))
        BY RateTrackIsTrack
    <1>2. Rate!Counted(k, day).hits = Rate!Recent(Rate!Track(k).hits, rl_Window)
        BY <1>1 DEF Rate!Counted, RateIsTrack, RateField
    <1>3. RateHolds(Rate!Recent(Rate!Track(k).hits, rl_Window), rl_passed[k], rl_now)
        BY RateRecentHolds DEF RateFits, RateSettingsAreNumbers, RateShape
    <1> QED  BY <1>2, <1>3

LEMMA RateHitFits ==
    ASSUME RateSettingsAreNumbers, RateIInv, RateFits, NEW k \in Rate!Keys, NEW day,
           Rate!HitSweeping(k, day) \/ Rate!HitAbove(k, day) \/ Rate!HitPasses(k, day)
    PROVE  RateFits'
    <1> DEFINE counted == Rate!Counted(k, day)
    <1>1. RateIsTrack(counted) /\ RateHolds(counted.hits, rl_passed[k], rl_now)
        BY RateCountedIsTrack, RateCountedHits DEF RateIInv
    <1>2. RateTimely(rl_passed[k], rl_now) /\ RateApart(rl_passed[k], Rate!limit(k)) /\ rl_passed = [q \in Rate!Keys |-> rl_passed[q]]
        BY DEF RateFits
    <1>3. Rate!limit(k) \in Nat
        BY DEF Rate!limit, RateSettingsAreNumbers
    <1>4. ASSUME NEW track, RateIsTrack(track), track.hits = counted.hits, Rate!Strike(k, track)
          PROVE  RateFits'
        <2>1. PICK struck : struck = Rate!Struck(track)
            OBVIOUS
        <2>2. struck.hits = counted.hits
            BY <1>4, <2>1, RateStruckKeepsHits
        <2>3. Rate!Store(k, struck) /\ UNCHANGED <<rl_now, rl_passed>>
            BY <1>4, <2>1 DEF Rate!Strike
        <2> HIDE DEF counted
        <2> QED  BY <1>1, <1>2, <2>2, <2>3, RateStoreFits DEF RateIInv
    <1> HIDE DEF counted
    <1>5. CASE Rate!HitSweeping(k, day)
        <2>1. PICK track : track = [counted EXCEPT !.days = {}]
            OBVIOUS
        <2>2. RateIsTrack(track) /\ track.hits = counted.hits
            BY <1>1, <2>1 DEF RateIsTrack, RateField
        <2>3. Rate!Strike(k, track)
            BY <1>5, <2>1 DEF Rate!HitSweeping, counted
        <2> QED  BY <1>4, <2>2, <2>3
    <1>6. CASE Rate!HitAbove(k, day)
        <2>1. PICK track : track = counted
            OBVIOUS
        <2>2. Rate!Strike(k, track)
            BY <1>6, <2>1 DEF Rate!HitAbove, counted
        <2> QED  BY <1>1, <1>4, <2>1, <2>2
    <1>7. CASE Rate!HitPasses(k, day)
        <2>1. PICK track : track = [counted EXCEPT !.hits = Append(counted.hits, rl_now)]
            OBVIOUS
        <2>2. track.hits = Append(counted.hits, rl_now)
            BY <1>1, <2>1 DEF RateIsTrack, RateField
        <2>3. /\ Rate!Store(k, track) /\ rl_now' = rl_now /\ ~(Len(counted.hits) >= Rate!limit(k))
              /\ rl_passed' = [rl_passed EXCEPT ![k] = Append(rl_passed[k], rl_now)]
            BY <1>7, <2>1 DEF Rate!HitPasses, Rate!Above, counted
        <2>4. Len(counted.hits) < Rate!limit(k) /\ rl_now \in Int
            BY <1>1, <1>3, <2>3 DEF RateHolds, RateIInv, RateShape
        <2>5. PICK times : times = Append(rl_passed[k], rl_now)
            OBVIOUS
        <2>6. /\ RateTimely(times, rl_now) /\ RateHolds(track.hits, times, rl_now) /\ RateApart(times, Rate!limit(k))
            BY <1>1, <1>2, <1>3, <2>2, <2>4, <2>5, RateOneMore DEF RateSettingsAreNumbers
        <2>7. rl_passed'[k] = times /\ (\A q \in Rate!Keys \ {k} : rl_passed'[q] = rl_passed[q])
              /\ rl_passed' = [q \in Rate!Keys |-> rl_passed'[q]]
            BY <1>2, <2>3, <2>5
        <2> QED  BY <2>3, <2>6, <2>7, RateStoreFits DEF RateIInv
    <1> QED  BY <1>5, <1>6, <1>7

LEMMA RateFitsInitially == Rate!Init => RateFits
    <1> SUFFICES ASSUME Rate!Init
                 PROVE  RateFits
        OBVIOUS
    <1>1. ASSUME NEW k \in Rate!Keys
          PROVE  Rate!Track(k).hits = <<>> /\ rl_passed[k] = <<>>
        BY DEF Rate!Init, Rate!Track, Rate!NoTrack
    <1>2. RateTimely(<<>>, rl_now) /\ RateHolds(<<>>, <<>>, rl_now)
        BY DEF RateTimely, RateHolds
    <1>3. \A l : RateApart(<<>>, l)
        BY DEF RateApart
    <1> QED  BY <1>1, <1>2, <1>3 DEF RateFits, Rate!Init

LEMMA RateFitsStep ==
    ASSUME RateSettingsAreNumbers, RateIInv, RateFits, [Rate!Next]_(Rate!vars)
    PROVE  RateFits'
    <1>1. ASSUME NEW k \in Rate!Keys, Rate!HitBanned(k)
          PROVE  RateFits'
        <2>1. PICK track : track = Rate!Track(k)
            OBVIOUS
        <2>2. Rate!Store(k, track) /\ UNCHANGED <<rl_now, rl_passed>>
            BY <1>1, <2>1 DEF Rate!HitBanned
        <2>3. /\ RateTimely(rl_passed[k], rl_now) /\ RateApart(rl_passed[k], Rate!limit(k)) /\ RateHolds(track.hits, rl_passed[k], rl_now)
              /\ rl_passed = [q \in Rate!Keys |-> rl_passed[q]]
            BY <2>1 DEF RateFits
        <2> QED  BY <2>2, <2>3, RateStoreFits DEF RateIInv
    <1>2. ASSUME NEW k \in Rate!Keys, Rate!Hit(k)
          PROVE  RateFits'
        BY <1>2, RateHitFits DEF Rate!Hit
    <1>3. CASE Rate!Tick
        <2>1. rl_now' = rl_now + 1 /\ UNCHANGED <<rl_tracks, rl_passed>> /\ rl_now \in Int
            BY <1>3 DEF Rate!Tick, RateIInv, RateShape
        <2>2. ASSUME NEW times, NEW hits, RateTimely(times, rl_now), RateHolds(hits, times, rl_now)
              PROVE  RateTimely(times, rl_now + 1) /\ RateHolds(hits, times, rl_now + 1)
            <3>0. PICK t : t = rl_now + 1
                OBVIOUS
            <3>1. RateTimely(times, rl_now + 1)
                BY <2>1, <2>2 DEF RateTimely
            <3>2. RateHolds(hits, times, t)
                <4>1. times \in Seq(Int) /\ hits \in Seq(Int)
                    BY <2>2 DEF RateTimely, RateHolds
                <4>2. PICK n \in 0..Len(times) :
                        /\ Len(hits) = Len(times) - n
                        /\ \A i \in 1..n : rl_now - times[i] > rl_Window
                        /\ \A i \in 1..Len(hits) : hits[i] = times[n + i]
                    BY <2>2 DEF RateHolds
                <4>3. ASSUME NEW i \in 1..n
                      PROVE  t - times[i] > rl_Window
                    <5>1. times[i] \in Int /\ rl_now - times[i] > rl_Window
                        BY <4>1, <4>2
                    <5> QED  BY <2>1, <3>0, <5>1 DEF RateSettingsAreNumbers
                <4> QED  BY <4>1, <4>2, <4>3 DEF RateHolds
            <3> QED  BY <3>0, <3>1, <3>2
        <2>3. \A k \in Rate!Keys : Rate!Track(k)' = Rate!Track(k)
            BY <2>1 DEF Rate!Track, Rate!NoTrack
        <2> QED  BY <2>1, <2>2, <2>3 DEF RateFits, Rate!limit
    <1>4. CASE UNCHANGED Rate!vars
        BY <1>4 DEF Rate!vars, RateFits, Rate!Track, Rate!NoTrack, Rate!limit
    <1> QED  BY <1>1, <1>2, <1>3, <1>4 DEF Rate!Next

\* No window lets more than the limit of a key through (hit), whatever the limits
\* and the clock, and although _track throws counters away.
LEMMA RateWindowsHold == ASSUME RateSettingsAreNumbers PROVE Rate!Spec => []Rate!WindowHolds
    <1>1. RateBanIsANumber
        BY DEF RateSettingsAreNumbers, RateBanIsANumber
    <1>2. RateIInv /\ RateFits /\ [Rate!Next]_(Rate!vars) => RateIInv' /\ RateFits'
        BY <1>1, RateStep, RateFitsStep
    <1>3. RateFits => Rate!WindowHolds
        <2>1. ASSUME RateFits, NEW k \in Rate!Keys, NEW i \in DOMAIN rl_passed[k], i + Rate!limit(k) \in DOMAIN rl_passed[k]
              PROVE  rl_passed[k][i + Rate!limit(k)] - rl_passed[k][i] > rl_Window
            <3>1. RateTimely(rl_passed[k], rl_now) /\ RateApart(rl_passed[k], Rate!limit(k))
                BY <2>1 DEF RateFits
            <3>2. DOMAIN rl_passed[k] = 1..Len(rl_passed[k])
                BY <3>1 DEF RateTimely
            <3> QED  BY <2>1, <3>1, <3>2 DEF RateApart
        <2> QED  BY <2>1 DEF Rate!WindowHolds
    <1> QED  BY RateInitial, RateFitsInitially, <1>2, <1>3, PTL DEF Rate!Spec

\* A behaviour of the office is one of RateLimiter, with its steps or none.
LEMMA RatePart == Init /\ [][Next]_vars => Rate!Spec
    <1>1. Init => Rate!Init
        BY DEF Init
    <1>2. [Next]_vars => [Rate!Next]_(Rate!vars)
        <2>1. UNCHANGED rateVars => UNCHANGED Rate!vars
            BY DEF rateVars, Rate!vars
        <2> QED  BY <2>1 DEF Next, vars
    <1> QED  BY <1>1, <1>2, PTL DEF Rate!Spec

\* No window lets more than the limit of a key through (hit), whatever the limits
\* and the clock, and although _track throws counters away.
THEOREM WindowsHold == ASSUME RateSettingsAreNumbers PROVE Spec => []WindowHolds
    BY RateWindowsHold, RatePart, PTL DEF Spec, WindowHolds

\* Nothing passes for a banned key before its ban is over (hit), whatever the
\* limits, and although _track throws counters away.
THEOREM BanLasts == ASSUME RateBanIsANumber PROVE Spec => BannedStaysOut
    BY RateBanLasts, RatePart, PTL DEF Spec, BannedStaysOut

-----------------------------------------------------------------------------
(* Sessions: the end of a session and the last admin.                      *)

-----------------------------------------------------------------------------
(* The inductive invariant.                                                   *)

\* users, as it is stored.
SessionsPeople == [se_Users -> [role : Sessions!Roles, nick : se_Nicks \cup se_Users, password : se_Passwords \cup {None}]]

\* What the steps rely on: accounts have roles, and a request that has read a
\* session has read its account.
SessionsShape ==
    /\ se_user \in SessionsPeople
    /\ DOMAIN se_sessions = se_SessionIds
    /\ \A s \in se_SessionIds : se_sessions[s] # None => se_sessions[s].user \in se_Users
    /\ DOMAIN se_requests = se_Requests
    /\ \A r \in se_Requests :
          /\ se_requests[r].at \in {"read", "touched", "logout"} => se_requests[r].session \in se_SessionIds
          /\ se_requests[r].at \in {"read", "touched"} => se_requests[r].me \in se_Users

SessionsIInv == SessionsShape /\ Sessions!LoggedOutStaysOut /\ Sessions!AdminRemains

\* Every account starts with one of the roles.
SessionsRolesGiven == se_InitRole \in [se_Users -> Sessions!Roles]

-----------------------------------------------------------------------------
(* Parts of the steps.                                                        *)

\* A request that ends leaves the others as they were.
LEMMA SessionsLeaveKeeps ==
    ASSUME SessionsShape, NEW r \in se_Requests, Sessions!Leave(r)
    PROVE  /\ DOMAIN se_requests' = se_Requests
           /\ se_requests'[r].at = "free"
           /\ \A q \in se_Requests \ {r} : se_requests'[q] = se_requests[q]
    BY DEF SessionsShape, SessionsPeople, Sessions!Leave, Sessions!NoRequest

\* The role of an account on the list of the settings is only ever raised.
LEMMA SessionsEnforcedRaises ==
    ASSUME NEW u \in se_Users, NEW role \in Sessions!Roles
    PROVE  Sessions!Enforced(u, role) \in Sessions!Roles /\ (role = "admin" => Sessions!Enforced(u, role) = "admin")
    BY DEF Sessions!Enforced, Sessions!Roles

\* A new session is nobody's that was logged out of.
LEMMA SessionsCreateKeeps ==
    ASSUME SessionsIInv, NEW u \in se_Users, Sessions!create_auth_session(u),
           UNCHANGED <<se_requests, se_ended, se_staleActor>>
    PROVE  SessionsIInv'
    <1> PICK s \in se_SessionIds :
            /\ se_sessions[s] = None /\ s \notin se_ended
            /\ se_sessions' = [se_sessions EXCEPT ![s] = [user |-> u, expires |-> se_now + se_Ttl]]
            /\ se_user' = [se_user EXCEPT ![u].role = Sessions!Enforced(u, @)]
        BY DEF Sessions!create_auth_session
    <1>1. Sessions!Enforced(u, se_user[u].role) \in Sessions!Roles
          /\ (se_user[u].role = "admin" => Sessions!Enforced(u, se_user[u].role) = "admin")
        BY SessionsEnforcedRaises DEF SessionsIInv, SessionsShape, SessionsPeople
    <1>2. SessionsShape'
        BY <1>1 DEF SessionsIInv, SessionsShape, SessionsPeople
    <1>3. Sessions!LoggedOutStaysOut'
        BY DEF SessionsIInv, SessionsShape, SessionsPeople, Sessions!LoggedOutStaysOut
    <1>4. Sessions!AdminRemains'
        BY <1>1 DEF SessionsIInv, SessionsShape, SessionsPeople, Sessions!AdminRemains
    <1> QED  BY <1>2, <1>3, <1>4 DEF SessionsIInv

\* A request commits in a session nobody has logged out of, as the row is its
\* own from the touch on.
LEMMA SessionsCommitKeeps ==
    ASSUME SessionsIInv, NEW r \in se_Requests, Sessions!Working(r),
           NEW changed \in SessionsPeople,
           Sessions!Commit(r, changed)
    PROVE  SessionsShape' /\ Sessions!LoggedOutStaysOut'
           /\ se_user' = [changed EXCEPT ![se_requests[r].me].role = Sessions!Enforced(se_requests[r].me, @)]
    <1> DEFINE s == se_requests[r].session
               u == se_requests[r].me
    <1>1. s \in se_SessionIds /\ u \in se_Users
        BY DEF SessionsIInv, SessionsShape, SessionsPeople, Sessions!Working
    <1>2. s \notin se_ended
        BY DEF SessionsIInv, Sessions!LoggedOutStaysOut, Sessions!Working
    <1>3. Sessions!Enforced(u, changed[u].role) \in Sessions!Roles
        BY <1>1, SessionsEnforcedRaises DEF SessionsPeople
    <1>4. /\ se_sessions' = [se_sessions EXCEPT ![s] = [user |-> u, expires |-> se_now + se_Ttl]]
          /\ se_user' = [changed EXCEPT ![u].role = Sessions!Enforced(u, @)]
          /\ Sessions!Leave(r) /\ se_ended' = se_ended
        BY DEF Sessions!Commit
    <1>5. /\ DOMAIN se_requests' = se_Requests
          /\ se_requests'[r].at = "free"
          /\ \A q \in se_Requests \ {r} : se_requests'[q] = se_requests[q]
        BY <1>4, SessionsLeaveKeeps DEF SessionsIInv
    <1>6. SessionsShape'
        BY <1>1, <1>3, <1>4, <1>5 DEF SessionsIInv, SessionsShape, SessionsPeople
    <1>7. Sessions!LoggedOutStaysOut'
        BY <1>1, <1>2, <1>4, <1>5 DEF SessionsIInv, SessionsShape, SessionsPeople, Sessions!LoggedOutStaysOut
    <1> QED  BY <1>4, <1>6, <1>7

\* A commit that changes nobody's role takes no admin away.
LEMMA SessionsQuietCommitKeeps ==
    ASSUME SessionsIInv, NEW r \in se_Requests, Sessions!Working(r),
           NEW changed \in SessionsPeople,
           \A u \in se_Users : changed[u].role = se_user[u].role,
           Sessions!Commit(r, changed), UNCHANGED se_staleActor
    PROVE  SessionsIInv'
    <1> DEFINE u == se_requests[r].me
    <1>1. SessionsShape' /\ Sessions!LoggedOutStaysOut'
          /\ se_user' = [changed EXCEPT ![u].role = Sessions!Enforced(u, @)]
        BY SessionsCommitKeeps
    <1>2. u \in se_Users
        BY DEF SessionsIInv, SessionsShape, SessionsPeople, Sessions!Working
    <1>3. changed[u].role = "admin" => Sessions!Enforced(u, changed[u].role) = "admin"
        BY <1>2, SessionsEnforcedRaises DEF SessionsPeople
    <1>4. Sessions!AdminRemains'
        BY <1>1, <1>2, <1>3 DEF SessionsIInv, Sessions!AdminRemains, SessionsPeople
    <1> QED  BY <1>1, <1>4 DEF SessionsIInv

\* A new password or nickname changes nobody's role.
LEMMA SessionsPasswordIsQuiet ==
    ASSUME SessionsShape, NEW u \in se_Users, NEW p \in se_Passwords
    PROVE  /\ [se_user EXCEPT ![u].password = p] \in SessionsPeople
           /\ \A v \in se_Users : [se_user EXCEPT ![u].password = p][v].role = se_user[v].role
    BY DEF SessionsShape, SessionsPeople

LEMMA SessionsNickIsQuiet ==
    ASSUME SessionsShape, NEW u \in se_Users, NEW n \in se_Nicks
    PROVE  /\ [se_user EXCEPT ![u].nick = n] \in SessionsPeople
           /\ \A v \in se_Users : [se_user EXCEPT ![u].nick = n][v].role = se_user[v].role
    BY DEF SessionsShape, SessionsPeople

\* Whoever takes a role away keeps the own one: the actor is not the target.
LEMMA SessionsRoleChangeKeeps ==
    ASSUME SessionsIInv, NEW r \in se_Requests, NEW target \in se_Users, NEW role \in Sessions!Roles,
           Sessions!update_user_role(r, target, role)
    PROVE  SessionsIInv'
    <1> DEFINE u == se_requests[r].me
               changed == [se_user EXCEPT ![target].role = role]
    <1>1. Sessions!Working(r) /\ target # u /\ Sessions!Commit(r, changed)
          /\ se_staleActor' = (se_staleActor \/ Sessions!Enforced(u, se_user[u].role) # "admin")
        BY DEF Sessions!update_user_role, Sessions!MayChangeRole
    <1>2. u \in se_Users
        BY <1>1 DEF SessionsIInv, SessionsShape, SessionsPeople, Sessions!Working
    <1>3. changed \in SessionsPeople
        BY DEF SessionsIInv, SessionsShape, SessionsPeople
    <1>4. SessionsShape' /\ Sessions!LoggedOutStaysOut'
          /\ se_user' = [changed EXCEPT ![u].role = Sessions!Enforced(u, @)]
        BY <1>1, <1>3, SessionsCommitKeeps
    <1>5. se_user'[u].role = Sessions!Enforced(u, se_user[u].role)
        BY <1>1, <1>2, <1>3, <1>4 DEF SessionsIInv, SessionsShape, SessionsPeople
    <1>6. Sessions!AdminRemains'
        BY <1>1, <1>2, <1>5 DEF Sessions!AdminRemains
    <1> QED  BY <1>4, <1>6 DEF SessionsIInv

-----------------------------------------------------------------------------
(* The theorems.                                                              *)

LEMMA SessionsInitial == ASSUME SessionsRolesGiven PROVE Sessions!Init => SessionsIInv
    BY DEF SessionsRolesGiven, Sessions!Init, SessionsIInv, SessionsShape, SessionsPeople, Sessions!LoggedOutStaysOut, Sessions!AdminRemains, Sessions!NoRequest

LEMMA SessionsInductive == SessionsIInv /\ [Sessions!Next]_(Sessions!vars) => SessionsIInv'
    <1> SUFFICES ASSUME SessionsIInv, [Sessions!Next]_(Sessions!vars) PROVE SessionsIInv'
        OBVIOUS
    <1>1. ASSUME NEW u \in se_Users, Sessions!verify_otp(u) PROVE SessionsIInv'
        BY <1>1, SessionsCreateKeeps DEF Sessions!verify_otp
    <1>2. ASSUME NEW u \in se_Users, NEW p \in se_Passwords, Sessions!login_with_password(u, p) PROVE SessionsIInv'
        BY <1>2, SessionsCreateKeeps DEF Sessions!login_with_password
    <1>3. ASSUME NEW u \in se_Users, NEW p \in se_Passwords, Sessions!WrongPassword(u, p) PROVE SessionsIInv'
        BY <1>3 DEF Sessions!WrongPassword, SessionsIInv, SessionsShape, SessionsPeople, Sessions!LoggedOutStaysOut, Sessions!AdminRemains
    <1>4. ASSUME NEW r \in se_Requests, NEW s \in se_SessionIds, Sessions!LogoutRead(r, s) PROVE SessionsIInv'
        <2>1. /\ se_requests' = [se_requests EXCEPT ![r] = [Sessions!NoRequest EXCEPT !.at = "logout", !.session = s]]
              /\ UNCHANGED <<se_user, se_sessions, se_ended, se_staleActor>>
            BY <1>4 DEF Sessions!LogoutRead
        <2>2. SessionsShape'
            BY <2>1 DEF SessionsIInv, SessionsShape, SessionsPeople, Sessions!NoRequest
        <2>3. Sessions!LoggedOutStaysOut'
            BY <2>1 DEF SessionsIInv, SessionsShape, SessionsPeople, Sessions!LoggedOutStaysOut, Sessions!NoRequest
        <2>4. Sessions!AdminRemains'
            BY <2>1 DEF SessionsIInv, Sessions!AdminRemains
        <2> QED  BY <2>2, <2>3, <2>4 DEF SessionsIInv
    <1>5. ASSUME NEW r \in se_Requests, NEW s \in se_SessionIds, Sessions!Authenticate(r, s) PROVE SessionsIInv'
        <2>1. /\ se_sessions[s] # None
              /\ se_requests' = [se_requests EXCEPT ![r] = [at |-> "read", session |-> s,
                                    me |-> se_sessions[s].user, was |-> se_user[se_sessions[s].user]]]
              /\ UNCHANGED <<se_user, se_sessions, se_ended, se_staleActor>>
            BY <1>5 DEF Sessions!Authenticate
        <2>2. SessionsShape'
            BY <2>1 DEF SessionsIInv, SessionsShape, SessionsPeople
        <2>3. Sessions!LoggedOutStaysOut'
            BY <2>1 DEF SessionsIInv, SessionsShape, SessionsPeople, Sessions!LoggedOutStaysOut
        <2>4. Sessions!AdminRemains'
            BY <2>1 DEF SessionsIInv, Sessions!AdminRemains
        <2> QED  BY <2>2, <2>3, <2>4 DEF SessionsIInv
    \* The session is deleted while nobody works in it.
    <1>6. ASSUME NEW r \in se_Requests, Sessions!logout_session(r) PROVE SessionsIInv'
        <2> DEFINE s == se_requests[r].session
        <2>1. /\ se_requests[r].at = "logout" /\ ~Sessions!Locked(s)
              /\ se_sessions' = [se_sessions EXCEPT ![s] = None]
              /\ se_ended' = se_ended \cup {s}
              /\ Sessions!Leave(r)
              /\ UNCHANGED <<se_user, se_staleActor>>
            BY <1>6 DEF Sessions!logout_session
        <2>2. /\ DOMAIN se_requests' = se_Requests
              /\ se_requests'[r].at = "free"
              /\ \A q \in se_Requests \ {r} : se_requests'[q] = se_requests[q]
            BY <2>1, SessionsLeaveKeeps DEF SessionsIInv
        <2>3. SessionsShape'
            BY <2>1, <2>2 DEF SessionsIInv, SessionsShape, SessionsPeople
        <2>4. Sessions!LoggedOutStaysOut'
            BY <2>1, <2>2 DEF SessionsIInv, SessionsShape, SessionsPeople, Sessions!LoggedOutStaysOut, Sessions!Locked
        <2>5. Sessions!AdminRemains'
            BY <2>1 DEF SessionsIInv, Sessions!AdminRemains
        <2> QED  BY <2>3, <2>4, <2>5 DEF SessionsIInv
    \* The UPDATE finds the row, or the request is over.
    <1>7. ASSUME NEW r \in se_Requests, Sessions!Touch(r) PROVE SessionsIInv'
        <2> DEFINE s == se_requests[r].session
                   u == se_requests[r].me
        <2>1. se_requests[r].at = "read" /\ UNCHANGED <<se_user, se_sessions, se_ended, se_staleActor>>
            BY <1>7 DEF Sessions!Touch
        <2>2. Sessions!AdminRemains'
            BY <2>1 DEF SessionsIInv, Sessions!AdminRemains
        <2>3. CASE Sessions!MayTouch(r)
            <3>1. se_requests' = [se_requests EXCEPT ![r].at = "touched", ![r].was.role = Sessions!Enforced(u, @)]
                BY <1>7, <2>3 DEF Sessions!Touch
            <3>2. /\ DOMAIN se_requests' = se_Requests
                  /\ se_requests'[r].session = s /\ se_requests'[r].me = u
                  /\ \A q \in se_Requests \ {r} : se_requests'[q] = se_requests[q]
                BY <3>1 DEF SessionsIInv, SessionsShape, SessionsPeople
            <3>3. SessionsShape'
                BY <2>1, <3>2 DEF SessionsIInv, SessionsShape, SessionsPeople
            <3>4. Sessions!LoggedOutStaysOut'
                BY <2>1, <2>3, <3>2 DEF SessionsIInv, SessionsShape, SessionsPeople, Sessions!LoggedOutStaysOut, Sessions!MayTouch
            <3> QED  BY <2>2, <3>3, <3>4 DEF SessionsIInv
        <2>4. CASE ~Sessions!MayTouch(r)
            <3>1. Sessions!Leave(r)
                BY <1>7, <2>4 DEF Sessions!Touch
            <3>2. /\ DOMAIN se_requests' = se_Requests
                  /\ se_requests'[r].at = "free"
                  /\ \A q \in se_Requests \ {r} : se_requests'[q] = se_requests[q]
                BY <3>1, SessionsLeaveKeeps DEF SessionsIInv
            <3> QED  BY <2>1, <2>2, <3>2 DEF SessionsIInv, SessionsShape, SessionsPeople, Sessions!LoggedOutStaysOut
        <2> QED  BY <2>3, <2>4
    <1>8. ASSUME NEW r \in se_Requests, Sessions!Visit(r) PROVE SessionsIInv'
        <2>1. se_user \in SessionsPeople
            BY DEF SessionsIInv, SessionsShape, SessionsPeople
        <2> QED  BY <1>8, <2>1, SessionsQuietCommitKeeps DEF Sessions!Visit
    <1>9. ASSUME NEW r \in se_Requests, Sessions!Rollback(r) PROVE SessionsIInv'
        <2>1. Sessions!Leave(r) /\ UNCHANGED <<se_user, se_sessions, se_ended, se_staleActor>>
            BY <1>9 DEF Sessions!Rollback
        <2>2. /\ DOMAIN se_requests' = se_Requests
              /\ se_requests'[r].at = "free"
              /\ \A q \in se_Requests \ {r} : se_requests'[q] = se_requests[q]
            BY <2>1, SessionsLeaveKeeps DEF SessionsIInv
        <2> QED  BY <2>1, <2>2 DEF SessionsIInv, SessionsShape, SessionsPeople, Sessions!LoggedOutStaysOut, Sessions!AdminRemains
    <1>10. ASSUME NEW r \in se_Requests, NEW p \in se_Passwords, Sessions!set_password(r, p) PROVE SessionsIInv'
        <2> DEFINE changed == [se_user EXCEPT ![se_requests[r].me].password = p]
        <2>1. Sessions!Working(r) /\ Sessions!Commit(r, changed) /\ UNCHANGED se_staleActor
            BY <1>10 DEF Sessions!set_password
        <2>2. se_requests[r].me \in se_Users
            BY <2>1 DEF SessionsIInv, SessionsShape, SessionsPeople, Sessions!Working
        <2>3. /\ changed \in SessionsPeople
              /\ \A u \in se_Users : changed[u].role = se_user[u].role
            BY <2>2, SessionsPasswordIsQuiet DEF SessionsIInv
        <2> QED  BY <2>1, <2>3, SessionsQuietCommitKeeps
    <1>11. ASSUME NEW r \in se_Requests, NEW c \in se_Passwords, NEW p \in se_Passwords,
                  Sessions!change_password(r, c, p)
           PROVE  SessionsIInv'
        <2> DEFINE changed == [se_user EXCEPT ![se_requests[r].me].password = p]
        <2>1. Sessions!Working(r) /\ Sessions!Commit(r, changed) /\ UNCHANGED se_staleActor
            BY <1>11 DEF Sessions!change_password
        <2>2. se_requests[r].me \in se_Users
            BY <2>1 DEF SessionsIInv, SessionsShape, SessionsPeople, Sessions!Working
        <2>3. /\ changed \in SessionsPeople
              /\ \A u \in se_Users : changed[u].role = se_user[u].role
            BY <2>2, SessionsPasswordIsQuiet DEF SessionsIInv
        <2> QED  BY <2>1, <2>3, SessionsQuietCommitKeeps
    <1>12. ASSUME NEW r \in se_Requests, NEW n \in se_Nicks, Sessions!update_profile(r, n) PROVE SessionsIInv'
        <2> DEFINE changed == [se_user EXCEPT ![se_requests[r].me].nick = n]
        <2>1. Sessions!Working(r) /\ Sessions!Commit(r, changed) /\ UNCHANGED se_staleActor
            BY <1>12 DEF Sessions!update_profile
        <2>2. se_requests[r].me \in se_Users
            BY <2>1 DEF SessionsIInv, SessionsShape, SessionsPeople, Sessions!Working
        <2>3. /\ changed \in SessionsPeople
              /\ \A u \in se_Users : changed[u].role = se_user[u].role
            BY <2>2, SessionsNickIsQuiet DEF SessionsIInv
        <2> QED  BY <2>1, <2>3, SessionsQuietCommitKeeps
    <1>13. ASSUME NEW r \in se_Requests, NEW u \in se_Users, NEW role \in Sessions!Roles,
                  Sessions!update_user_role(r, u, role)
           PROVE  SessionsIInv'
        BY <1>13, SessionsRoleChangeKeeps
    <1>14. CASE Sessions!Tick
        BY <1>14 DEF Sessions!Tick, SessionsIInv, SessionsShape, SessionsPeople, Sessions!LoggedOutStaysOut, Sessions!AdminRemains
    <1>15. CASE UNCHANGED Sessions!vars
        BY <1>15 DEF Sessions!vars, SessionsIInv, SessionsShape, SessionsPeople, Sessions!LoggedOutStaysOut, Sessions!AdminRemains
    <1> QED
        BY <1>1, <1>2, <1>3, <1>4, <1>5, <1>6, <1>7, <1>8, <1>9, <1>10, <1>11, <1>12,
           <1>13, <1>14, <1>15 DEF Sessions!Next

\* No request works in a session somebody has logged out of, nor brings it back
\* (logout_session and get_user_by_session_id), for any number of requests.
LEMMA SessionsLogoutIsFinal == ASSUME SessionsRolesGiven PROVE Sessions!Spec => []Sessions!LoggedOutStaysOut
    <1>1. Sessions!Init => SessionsIInv
        BY SessionsInitial
    <1>2. SessionsIInv => Sessions!LoggedOutStaysOut
        BY DEF SessionsIInv
    <1> QED  BY <1>1, <1>2, SessionsInductive, PTL DEF Sessions!Spec

\* A team with an admin keeps one through any changes of roles
\* (update_user_role), unless an actor was no longer admin when it committed.
LEMMA SessionsTeamKeepsAdmin == ASSUME SessionsRolesGiven PROVE Sessions!Spec => []Sessions!AdminRemains
    <1>1. Sessions!Init => SessionsIInv
        BY SessionsInitial
    <1>2. SessionsIInv => Sessions!AdminRemains
        BY DEF SessionsIInv
    <1> QED  BY <1>1, <1>2, SessionsInductive, PTL DEF Sessions!Spec

\* A behaviour of the office is one of Sessions, with its steps or none.
LEMMA SessionsPart == Init /\ [][Next]_vars => Sessions!Spec
    <1>1. Init => Sessions!Init
        BY DEF Init
    <1>2. [Next]_vars => [Sessions!Next]_(Sessions!vars)
        <2>1. UNCHANGED sessionsVars => UNCHANGED Sessions!vars
            BY DEF sessionsVars, Sessions!vars
        <2> QED  BY <2>1 DEF Next, vars
    <1> QED  BY <1>1, <1>2, PTL DEF Sessions!Spec

\* A session somebody has logged out of is gone for good (logout_session), and
\* no request works in it, however its read and its UPDATE fall around the DELETE.
THEOREM LogoutIsFinal == ASSUME SessionsRolesGiven PROVE Spec => []LoggedOutStaysOut
    BY SessionsLogoutIsFinal, SessionsPart, PTL DEF Spec, LoggedOutStaysOut

\* A team with an admin keeps one through any changes of roles
\* (update_user_role), unless an actor was no longer admin when it committed.
THEOREM TeamKeepsAdmin == ASSUME SessionsRolesGiven PROVE Spec => []AdminRemains
    BY SessionsTeamKeepsAdmin, SessionsPart, PTL DEF Spec, AdminRemains

-----------------------------------------------------------------------------
(* TelegramLinks: tokens and chats.                                        *)

\* What they ask of the constants: the bound on tokens is a number.
TelegramBoundIsANumber == tg_MaxTokens \in Nat

-----------------------------------------------------------------------------
(* The inductive invariant.                                                   *)

TelegramShape ==
    /\ tg_issued \in Nat /\ tg_issued <= tg_MaxTokens
    /\ tg_uses \in [1..tg_MaxTokens -> Nat]
    /\ \A t \in 1..tg_MaxTokens : tg_uses[t] > 0 => t <= tg_issued
    /\ DOMAIN tg_link = tg_Users
    /\ \A u \in tg_Users : tg_link[u].token \in 0..tg_issued
    /\ DOMAIN tg_request = tg_Requests
    /\ \A r \in Telegram!Busy : /\ tg_request[r].user \in tg_Users
                                /\ tg_request[r].token \in 0..tg_issued
                                /\ tg_request[r].op = "link" => tg_request[r].token # 0

\* A token stands in one row, also while a request holds it.
TelegramOneHolder ==
    /\ \A u, v \in tg_Users : tg_link[u].token # 0 /\ tg_link[u].token = tg_link[v].token => u = v
    /\ \A r \in Telegram!Busy, v \in tg_Users :
          tg_request[r].token # 0 /\ tg_link[v].token = tg_request[r].token => v = tg_request[r].user

\* A token that was used stands in no row, and in no request unless two
\* requests held it at once.
TelegramSpentIsGone ==
    /\ \A t \in 1..tg_MaxTokens : tg_uses[t] > 0 => \A u \in tg_Users : tg_link[u].token # t
    /\ \A t \in (1..tg_MaxTokens) \ tg_raced :
          /\ \A r, s \in Telegram!Busy : tg_request[r].token = t /\ tg_request[s].token = t => r = s
          /\ tg_uses[t] > 0 => tg_uses[t] = 1 /\ \A r \in Telegram!Busy : tg_request[r].token # t

\* /stop and the worker act on the chat they have read.
TelegramActsOnItsChat ==
    \A r \in Telegram!Busy :
        tg_request[r].op \in {"stop", "worker"} => tg_request[r].chat = tg_request[r].read.chat

TelegramIInv == TelegramShape /\ TelegramOneHolder /\ TelegramSpentIsGone /\ TelegramActsOnItsChat

-----------------------------------------------------------------------------
(* Parts of the steps.                                                        *)

LEMMA TelegramInitial == ASSUME TelegramBoundIsANumber PROVE Telegram!Init => TelegramIInv
    BY DEF TelegramBoundIsANumber, Telegram!Init, TelegramIInv, TelegramShape, TelegramOneHolder, TelegramSpentIsGone, TelegramActsOnItsChat, Telegram!Busy, Telegram!NoLink, Telegram!Quiet

\* A request that reads without a token.
LEMMA TelegramTokenlessKeeps ==
    ASSUME TelegramIInv, NEW r \in tg_Requests, NEW record, Telegram!Begin(r, record), tg_raced' = tg_raced,
           record.op \in {"start", "unlink", "worker", "stop"},
           record.user \in tg_Users, record.token = 0, record.chat = record.read.chat
    PROVE  TelegramIInv'
    <1>1. /\ tg_request' = [tg_request EXCEPT ![r] = record]
          /\ UNCHANGED <<tg_link, tg_issued, tg_uses>>
        BY DEF Telegram!Begin
    <1>2. \A s \in Telegram!Busy' : (s = r /\ tg_request'[s] = record) \/ (s \in Telegram!Busy /\ tg_request'[s] = tg_request[s])
        BY <1>1 DEF TelegramIInv, TelegramShape, Telegram!Busy
    <1>3. TelegramShape'
        BY <1>1, <1>2 DEF TelegramIInv, TelegramShape
    <1>4. TelegramOneHolder'
        BY <1>1, <1>2 DEF TelegramIInv, TelegramOneHolder
    <1>5. TelegramSpentIsGone'
        BY <1>1, <1>2 DEF TelegramIInv, TelegramSpentIsGone
    <1>6. TelegramActsOnItsChat'
        BY <1>2 DEF TelegramIInv, TelegramActsOnItsChat
    <1> QED  BY <1>3, <1>4, <1>5, <1>6 DEF TelegramIInv

\* A token that is found in a row has not been used; whoever reads it while
\* another request holds it makes it a race.
LEMMA TelegramReadTokenKeeps ==
    ASSUME TelegramBoundIsANumber, TelegramIInv, NEW r \in tg_Requests, NEW t \in 1..tg_issued, NEW c,
           Telegram!ReadToken(r, t, c)
    PROVE  TelegramIInv'
    <1> PICK u \in Telegram!Linkable(t) :
            /\ Telegram!Begin(r, [op |-> "link", user |-> u, chat |-> c, token |-> t, read |-> tg_link[u],
                                  previous |-> {v \in tg_Users \ {u} : tg_link[v].chat = c}])
            /\ tg_raced' = IF \E s \in Telegram!Busy : tg_request[s].token = t THEN tg_raced \cup {t} ELSE tg_raced
        BY DEF Telegram!ReadToken
    <1> DEFINE record == [op |-> "link", user |-> u, chat |-> c, token |-> t, read |-> tg_link[u],
                          previous |-> {v \in tg_Users \ {u} : tg_link[v].chat = c}]
    <1>1. u \in tg_Users /\ tg_link[u].token = t /\ t \in 1..tg_MaxTokens /\ t # 0
        BY DEF TelegramBoundIsANumber, Telegram!Linkable, TelegramIInv, TelegramShape
    <1>2. /\ tg_request' = [tg_request EXCEPT ![r] = record]
          /\ UNCHANGED <<tg_link, tg_issued, tg_uses>>
        BY DEF Telegram!Begin
    <1>3. record.op = "link" /\ record.user = u /\ record.token = t
        OBVIOUS
    <1> HIDE DEF record
    <1>4. \A s \in Telegram!Busy' : (s = r /\ tg_request'[s] = record) \/ (s \in Telegram!Busy /\ tg_request'[s] = tg_request[s])
        BY <1>2 DEF TelegramIInv, TelegramShape, Telegram!Busy
    <1>5. TelegramShape'
        BY <1>1, <1>2, <1>3, <1>4 DEF TelegramIInv, TelegramShape
    <1>6. TelegramOneHolder'
        BY <1>1, <1>2, <1>3, <1>4 DEF TelegramIInv, TelegramOneHolder
    <1>7. tg_uses[t] = 0
        BY <1>1 DEF TelegramIInv, TelegramShape, TelegramSpentIsGone
    <1>8. TelegramSpentIsGone'
        <2>1. \A q \in 1..tg_MaxTokens : tg_uses'[q] > 0 => \A v \in tg_Users : tg_link'[v].token # q
            BY <1>2 DEF TelegramIInv, TelegramSpentIsGone
        <2>2. ASSUME NEW q \in (1..tg_MaxTokens) \ tg_raced'
              PROVE  /\ \A s, z \in Telegram!Busy' : tg_request'[s].token = q /\ tg_request'[z].token = q => s = z
                     /\ tg_uses'[q] > 0 => tg_uses'[q] = 1 /\ \A s \in Telegram!Busy' : tg_request'[s].token # q
            <3>1. q \notin tg_raced /\ (q = t => \A s \in Telegram!Busy : tg_request[s].token # t)
                OBVIOUS
            <3>2. CASE q = t
                BY <1>2, <1>4, <1>7, <3>1, <3>2
            <3>3. CASE q # t
                BY <1>2, <1>3, <1>4, <3>1, <3>3 DEF TelegramIInv, TelegramSpentIsGone
            <3> QED  BY <3>2, <3>3
        <2> QED  BY <2>1, <2>2 DEF TelegramSpentIsGone
    <1>9. TelegramActsOnItsChat'
        BY <1>3, <1>4 DEF TelegramIInv, TelegramActsOnItsChat
    <1> QED  BY <1>5, <1>6, <1>8, <1>9 DEF TelegramIInv

\* The requests that remain when one ends.
LEMMA TelegramEndLeaves ==
    ASSUME TelegramIInv, NEW r \in tg_Requests, Telegram!End(r)
    PROVE  /\ DOMAIN tg_request' = tg_Requests
           /\ Telegram!Busy' \subseteq Telegram!Busy \ {r}
           /\ \A s \in Telegram!Busy' : tg_request'[s] = tg_request[s]
    BY DEF TelegramIInv, TelegramShape, Telegram!Busy, Telegram!End, Telegram!Quiet

\* Rows only ever lose their token when a request ends without using one.
LEMMA TelegramDropKeeps ==
    ASSUME TelegramIInv, NEW r \in tg_Requests, Telegram!End(r), UNCHANGED <<tg_issued, tg_uses, tg_raced>>,
           DOMAIN tg_link' = tg_Users,
           \A u \in tg_Users : tg_link'[u].token \in {0, tg_link[u].token}
    PROVE  TelegramIInv'
    <1>1. /\ DOMAIN tg_request' = tg_Requests
          /\ Telegram!Busy' \subseteq Telegram!Busy \ {r}
          /\ \A s \in Telegram!Busy' : tg_request'[s] = tg_request[s]
        BY TelegramEndLeaves
    <1>2. TelegramShape'
        BY <1>1 DEF TelegramIInv, TelegramShape
    <1>3. TelegramOneHolder'
        BY <1>1 DEF TelegramIInv, TelegramOneHolder
    <1>4. TelegramSpentIsGone'
        BY <1>1 DEF TelegramIInv, TelegramSpentIsGone
    <1>5. TelegramActsOnItsChat'
        BY <1>1 DEF TelegramIInv, TelegramActsOnItsChat
    <1> QED  BY <1>2, <1>3, <1>4, <1>5 DEF TelegramIInv

\* A new token is in no other row, in no request, and not used.
LEMMA TelegramStartKeeps ==
    ASSUME TelegramBoundIsANumber, TelegramIInv, NEW r \in tg_Requests, Telegram!start_link(r)
    PROVE  TelegramIInv'
    <1> DEFINE u == tg_request[r].user
    <1>1. /\ tg_issued < tg_MaxTokens /\ tg_issued' = tg_issued + 1
          /\ tg_link' = [tg_link EXCEPT ![u] =
                [row |-> TRUE, chat |-> @.chat, token |-> tg_issued + 1, expires |-> tg_now + tg_TTL]]
          /\ Telegram!End(r) /\ UNCHANGED <<tg_uses, tg_raced>>
        BY DEF Telegram!start_link
    <1>2. r \in Telegram!Busy
        BY DEF Telegram!start_link, Telegram!Busy, Telegram!Quiet
    <1>3. u \in tg_Users
        BY <1>2 DEF TelegramIInv, TelegramShape
    <1>4. /\ DOMAIN tg_request' = tg_Requests
          /\ Telegram!Busy' \subseteq Telegram!Busy \ {r}
          /\ \A s \in Telegram!Busy' : tg_request'[s] = tg_request[s]
        BY <1>1, TelegramEndLeaves
    <1>5. /\ DOMAIN tg_link' = tg_Users /\ tg_link'[u].token = tg_issued + 1
          /\ \A v \in tg_Users \ {u} : tg_link'[v] = tg_link[v]
        BY <1>1, <1>3 DEF TelegramIInv, TelegramShape
    <1>6. tg_issued \in Nat /\ tg_issued' \in Nat
        BY <1>1 DEF TelegramIInv, TelegramShape
    <1>7. TelegramShape'
        BY <1>1, <1>4, <1>5, <1>6 DEF TelegramBoundIsANumber, TelegramIInv, TelegramShape
    <1>8. TelegramOneHolder'
        BY <1>1, <1>4, <1>5, <1>6 DEF TelegramIInv, TelegramShape, TelegramOneHolder
    <1>9. TelegramSpentIsGone'
        BY <1>1, <1>4, <1>5, <1>6 DEF TelegramBoundIsANumber, TelegramIInv, TelegramShape, TelegramSpentIsGone
    <1>10. TelegramActsOnItsChat'
        BY <1>4 DEF TelegramIInv, TelegramActsOnItsChat
    <1> QED  BY <1>7, <1>8, <1>9, <1>10 DEF TelegramIInv

\* The token of a link is spent: its row holds it no more, and no other did.
LEMMA TelegramLinkKeeps ==
    ASSUME TelegramBoundIsANumber, TelegramIInv, NEW r \in tg_Requests, Telegram!link_chat(r)
    PROVE  TelegramIInv'
    <1> DEFINE u == tg_request[r].user
               t == tg_request[r].token
    <1>1. /\ tg_request[r].op = "link"
          /\ tg_link' = [v \in tg_Users |->
                IF v = u THEN Telegram!Tied(tg_link[v], Telegram!WrittenChat(r))
                ELSE IF v \in tg_request[r].previous THEN Telegram!NoLink ELSE tg_link[v]]
          /\ tg_uses' = [tg_uses EXCEPT ![t] = @ + 1]
          /\ Telegram!End(r) /\ UNCHANGED <<tg_issued, tg_raced>>
        BY DEF Telegram!link_chat
    <1>2. r \in Telegram!Busy
        BY <1>1 DEF Telegram!Busy, Telegram!Quiet
    <1>3. u \in tg_Users /\ t \in 1..tg_issued /\ t \in 1..tg_MaxTokens
        BY <1>1, <1>2 DEF TelegramBoundIsANumber, TelegramIInv, TelegramShape
    <1>4. /\ DOMAIN tg_request' = tg_Requests
          /\ Telegram!Busy' \subseteq Telegram!Busy \ {r}
          /\ \A s \in Telegram!Busy' : tg_request'[s] = tg_request[s]
        BY <1>1, TelegramEndLeaves
    <1>5. /\ DOMAIN tg_link' = tg_Users /\ tg_link'[u].token = 0
          /\ \A v \in tg_Users : tg_link'[v].token \in {0, tg_link[v].token}
        BY <1>1, <1>3 DEF Telegram!Tied, Telegram!NoLink
    <1>6. /\ tg_uses' \in [1..tg_MaxTokens -> Nat] /\ tg_uses'[t] = tg_uses[t] + 1
          /\ \A q \in (1..tg_MaxTokens) \ {t} : tg_uses'[q] = tg_uses[q]
        BY <1>1, <1>3 DEF TelegramIInv, TelegramShape
    <1>7. \A v \in tg_Users : tg_link'[v].token # t
        BY <1>2, <1>3, <1>5 DEF TelegramIInv, TelegramOneHolder
    <1>8. TelegramShape'
        BY <1>1, <1>3, <1>4, <1>5, <1>6 DEF TelegramIInv, TelegramShape
    <1>9. TelegramOneHolder'
        BY <1>4, <1>5 DEF TelegramIInv, TelegramOneHolder
    <1>10. TelegramSpentIsGone'
        <2>1. \A q \in 1..tg_MaxTokens : tg_uses'[q] > 0 => \A v \in tg_Users : tg_link'[v].token # q
            BY <1>5, <1>6, <1>7 DEF TelegramIInv, TelegramSpentIsGone
        <2>2. ASSUME NEW q \in (1..tg_MaxTokens) \ tg_raced
              PROVE  /\ \A s, z \in Telegram!Busy' : tg_request'[s].token = q /\ tg_request'[z].token = q => s = z
                     /\ tg_uses'[q] > 0 => tg_uses'[q] = 1 /\ \A s \in Telegram!Busy' : tg_request'[s].token # q
            <3>1. CASE q = t
                BY <1>2, <1>4, <1>6, <3>1 DEF TelegramIInv, TelegramShape, TelegramSpentIsGone
            <3>2. CASE q # t
                BY <1>4, <1>6, <3>2 DEF TelegramIInv, TelegramSpentIsGone
            <3> QED  BY <3>1, <3>2
        <2> QED  BY <1>1, <2>1, <2>2 DEF TelegramSpentIsGone
    <1>11. TelegramActsOnItsChat'
        BY <1>4 DEF TelegramIInv, TelegramActsOnItsChat
    <1> QED  BY <1>8, <1>9, <1>10, <1>11 DEF TelegramIInv

-----------------------------------------------------------------------------
(* The theorems.                                                              *)

LEMMA TelegramInductive == ASSUME TelegramBoundIsANumber, TelegramIInv, [Telegram!Next]_(Telegram!vars) PROVE TelegramIInv'
    <1>1. ASSUME NEW r \in tg_Requests, NEW op \in {"start", "unlink", "worker"}, NEW u \in tg_Users,
                 Telegram!ReadOwn(r, op, u)
          PROVE  TelegramIInv'
        <2> DEFINE record == [op |-> op, user |-> u, chat |-> tg_link[u].chat, token |-> 0,
                              read |-> tg_link[u], previous |-> {}]
        <2>1. Telegram!Begin(r, record) /\ tg_raced' = tg_raced
            BY <1>1 DEF Telegram!ReadOwn
        <2>2. /\ record.op \in {"start", "unlink", "worker", "stop"} /\ record.user \in tg_Users
              /\ record.token = 0 /\ record.chat = record.read.chat
            OBVIOUS
        <2> HIDE DEF record
        <2> QED  BY <2>1, <2>2, TelegramTokenlessKeeps
    <1>2. ASSUME NEW r \in tg_Requests, NEW c \in tg_Chats, Telegram!ReadChat(r, c) PROVE TelegramIInv'
        <2> PICK u \in tg_Users :
                /\ tg_link[u].chat = c /\ tg_raced' = tg_raced
                /\ Telegram!Begin(r, [op |-> "stop", user |-> u, chat |-> c, token |-> 0, read |-> tg_link[u],
                                      previous |-> {}])
            BY <1>2 DEF Telegram!ReadChat
        <2> DEFINE record == [op |-> "stop", user |-> u, chat |-> c, token |-> 0, read |-> tg_link[u],
                              previous |-> {}]
        <2>1. Telegram!Begin(r, record)
            OBVIOUS
        <2>2. /\ record.op \in {"start", "unlink", "worker", "stop"} /\ record.user \in tg_Users
              /\ record.token = 0 /\ record.chat = record.read.chat
            OBVIOUS
        <2> HIDE DEF record
        <2> QED  BY <2>1, <2>2, TelegramTokenlessKeeps
    <1>3. ASSUME NEW r \in tg_Requests, NEW c \in tg_Chats, NEW t \in 1..tg_issued, Telegram!ReadToken(r, t, c)
          PROVE  TelegramIInv'
        BY <1>3, TelegramReadTokenKeeps
    <1>4. ASSUME NEW r \in tg_Requests, Telegram!start_link(r) PROVE TelegramIInv'
        BY <1>4, TelegramStartKeeps
    <1>5. ASSUME NEW r \in tg_Requests, Telegram!Drop(r) PROVE TelegramIInv'
        <2>1. /\ tg_link' = [tg_link EXCEPT ![tg_request[r].user] = Telegram!NoLink]
              /\ Telegram!End(r) /\ UNCHANGED <<tg_issued, tg_uses, tg_raced>>
            BY <1>5 DEF Telegram!Drop
        <2>2. DOMAIN tg_link' = tg_Users /\ \A u \in tg_Users : tg_link'[u].token \in {0, tg_link[u].token}
            BY <2>1 DEF TelegramIInv, TelegramShape, Telegram!NoLink
        <2> QED  BY <2>1, <2>2, TelegramDropKeeps
    <1>6. ASSUME NEW r \in tg_Requests, Telegram!link_chat(r) PROVE TelegramIInv'
        BY <1>6, TelegramLinkKeeps
    <1>7. ASSUME NEW r \in tg_Requests, Telegram!Fail(r) PROVE TelegramIInv'
        <2>1. Telegram!End(r) /\ UNCHANGED <<tg_link, tg_issued, tg_uses, tg_raced>>
            BY <1>7 DEF Telegram!Fail
        <2>2. DOMAIN tg_link' = tg_Users /\ \A u \in tg_Users : tg_link'[u].token \in {0, tg_link[u].token}
            BY <2>1 DEF TelegramIInv, TelegramShape
        <2> QED  BY <2>1, <2>2, TelegramDropKeeps
    <1>8. CASE Telegram!Tick
        BY <1>8 DEF Telegram!Tick, TelegramIInv, TelegramShape, TelegramOneHolder, TelegramSpentIsGone, TelegramActsOnItsChat, Telegram!Busy
    <1>9. CASE UNCHANGED Telegram!vars
        BY <1>9 DEF Telegram!vars, TelegramIInv, TelegramShape, TelegramOneHolder, TelegramSpentIsGone, TelegramActsOnItsChat, Telegram!Busy
    <1> QED
        BY <1>1, <1>2, <1>3, <1>4, <1>5, <1>6, <1>7, <1>8, <1>9 DEF Telegram!Next

\* A one-time token (link_token_hash, cleared by _link_chat) ties one chat,
\* unless two webhook calls held it at once.
LEMMA TelegramTokenIsOneTime == ASSUME TelegramBoundIsANumber PROVE Telegram!Spec => []Telegram!TokenTiesOnce
    <1>1. Telegram!Init => TelegramIInv
        BY TelegramInitial
    <1>2. TelegramIInv /\ [Telegram!Next]_(Telegram!vars) => TelegramIInv'
        BY TelegramInductive
    <1>3. TelegramIInv => Telegram!TokenTiesOnce
        BY DEF TelegramIInv, TelegramShape, TelegramSpentIsGone, Telegram!TokenTiesOnce
    <1> QED  BY <1>1, <1>2, <1>3, PTL DEF Telegram!Spec

\* A step that takes a chat from a user is a request about that chat.
LEMMA TelegramLossHasAReason ==
    ASSUME TelegramIInv, [Telegram!Next]_(Telegram!vars), NEW u \in tg_Users, tg_link[u].chat # None, tg_link'[u].chat # tg_link[u].chat
    PROVE  \E r \in Telegram!Busy : tg_request'[r] = Telegram!Quiet /\ Telegram!AboutTheChat(r, u)
    <1>1. ASSUME NEW r \in tg_Requests, Telegram!start_link(r) PROVE FALSE
        <2>1. tg_link' = [tg_link EXCEPT ![tg_request[r].user] =
                [row |-> TRUE, chat |-> @.chat, token |-> tg_issued + 1, expires |-> tg_now + tg_TTL]]
            BY <1>1 DEF Telegram!start_link
        <2>2. tg_link'[u].chat = tg_link[u].chat
            BY <2>1 DEF TelegramIInv, TelegramShape
        <2> QED  BY <2>2
    <1>2. ASSUME NEW r \in tg_Requests, Telegram!Drop(r)
          PROVE  r \in Telegram!Busy /\ tg_request'[r] = Telegram!Quiet /\ Telegram!AboutTheChat(r, u)
        <2>1. /\ tg_request[r].op \in {"unlink", "stop", "worker"} /\ Telegram!End(r)
              /\ tg_link' = [tg_link EXCEPT ![tg_request[r].user] = Telegram!NoLink]
            BY <1>2 DEF Telegram!Drop
        <2>2. r \in Telegram!Busy /\ tg_request'[r] = Telegram!Quiet
            BY <2>1 DEF TelegramIInv, TelegramShape, Telegram!Busy, Telegram!End, Telegram!Quiet
        <2>3. tg_request[r].user = u
            BY <2>1 DEF TelegramIInv, TelegramShape
        <2>4. CASE tg_request[r].op = "unlink"
            BY <2>2, <2>3, <2>4 DEF Telegram!AboutTheChat
        <2>5. CASE tg_request[r].op \in {"stop", "worker"}
            <3>1. tg_request[r].chat = tg_request[r].read.chat
                BY <2>2, <2>5 DEF TelegramIInv, TelegramActsOnItsChat
            <3> QED  BY <2>2, <2>3, <2>5, <3>1 DEF Telegram!AboutTheChat
        <2> QED  BY <2>1, <2>4, <2>5
    <1>3. ASSUME NEW r \in tg_Requests, Telegram!link_chat(r)
          PROVE  r \in Telegram!Busy /\ tg_request'[r] = Telegram!Quiet /\ Telegram!AboutTheChat(r, u)
        <2>1. /\ tg_request[r].op = "link" /\ Telegram!End(r)
              /\ tg_link' = [v \in tg_Users |->
                    IF v = tg_request[r].user THEN Telegram!Tied(tg_link[v], Telegram!WrittenChat(r))
                    ELSE IF v \in tg_request[r].previous THEN Telegram!NoLink ELSE tg_link[v]]
            BY <1>3 DEF Telegram!link_chat
        <2>2. r \in Telegram!Busy /\ tg_request'[r] = Telegram!Quiet
            BY <2>1 DEF TelegramIInv, TelegramShape, Telegram!Busy, Telegram!End, Telegram!Quiet
        <2>3. u = tg_request[r].user \/ u \in tg_request[r].previous
            BY <2>1
        <2> QED  BY <2>1, <2>2, <2>3 DEF Telegram!AboutTheChat
    <1>4. CASE tg_link' = tg_link
        BY <1>4
    <1>5. CASE ~(tg_link' = tg_link)
        <2>1. \E r \in tg_Requests : Telegram!start_link(r) \/ Telegram!Drop(r) \/ Telegram!link_chat(r)
            BY <1>5 DEF Telegram!Next, Telegram!ReadOwn, Telegram!ReadChat, Telegram!ReadToken, Telegram!Begin, Telegram!Fail, Telegram!Tick, Telegram!vars
        <2>2. PICK r \in tg_Requests : Telegram!start_link(r) \/ Telegram!Drop(r) \/ Telegram!link_chat(r)
            BY <2>1
        <2>3. r \in Telegram!Busy /\ tg_request'[r] = Telegram!Quiet /\ Telegram!AboutTheChat(r, u)
            BY <1>1, <1>2, <1>3, <2>2
        <2> QED  BY <2>3
    <1> QED  BY <1>4, <1>5

\* A user loses a chat only to a request about that chat (unlink, /stop,
\* _link_chat, the worker told that the chat is gone), or to one whose row
\* changed after it was read.
LEMMA TelegramChatIsNotLost == ASSUME TelegramBoundIsANumber PROVE Telegram!Spec => Telegram!ChatLeavesForAReason
    <1>1. Telegram!Init => TelegramIInv
        BY TelegramInitial
    <1>2. TelegramIInv /\ [Telegram!Next]_(Telegram!vars) => TelegramIInv'
        BY TelegramInductive
    <1>3. TelegramIInv /\ [Telegram!Next]_(Telegram!vars) =>
            [\A u \in tg_Users :
                tg_link[u].chat # None /\ tg_link'[u].chat # tg_link[u].chat
                       => \E r \in Telegram!Busy : tg_request'[r] = Telegram!Quiet /\ Telegram!AboutTheChat(r, u)]_(Telegram!vars)
        BY TelegramLossHasAReason
    <1> QED  BY <1>1, <1>2, <1>3, PTL DEF Telegram!Spec, Telegram!ChatLeavesForAReason

\* A behaviour of the office is one of TelegramLinks, with its steps or none.
LEMMA TelegramPart == Init /\ [][Next]_vars => Telegram!Spec
    <1>1. Init => Telegram!Init
        BY DEF Init
    <1>2. [Next]_vars => [Telegram!Next]_(Telegram!vars)
        <2>1. UNCHANGED telegramVars => UNCHANGED Telegram!vars
            BY DEF telegramVars, Telegram!vars
        <2> QED  BY <2>1 DEF Next, vars
    <1> QED  BY <1>1, <1>2, PTL DEF Telegram!Spec

\* A token ties one chat, unless two messages with it were handled at once
\* (link_chat).
THEOREM TokenIsOneTime == ASSUME TelegramBoundIsANumber PROVE Spec => []Telegram!TokenTiesOnce
    BY TelegramTokenIsOneTime, TelegramPart, PTL DEF Spec

\* A user loses a chat only to a request about that chat.
THEOREM ChatIsNotLost == ASSUME TelegramBoundIsANumber PROVE Spec => ChatLeavesForAReason
    BY TelegramChatIsNotLost, TelegramPart, PTL DEF Spec, ChatLeavesForAReason

-----------------------------------------------------------------------------
(* PushDevices: the switch of a phone.                                     *)

\* What they ask of the constants: no user and no endpoint is "none".
PushNoneIsApart == None \notin pd_Users /\ None \notin pd_Endpoints

-----------------------------------------------------------------------------
(* The inductive invariant.                                                   *)

PushShape ==
    /\ pd_user \in pd_Users \cup {None}
    /\ pd_local \in pd_Endpoints \cup {None}
    /\ pd_used \subseteq pd_Endpoints
    /\ pd_rows \in [pd_Endpoints -> pd_Users \cup {None}]
    /\ DOMAIN pd_op = Push!Actors
    /\ \A m \in pd_batch : m.endpoint \in pd_Endpoints

\* An endpoint that anybody knows has been handed out, so that a new one is
\* new to the server and to the worker.
PushKnownIsUsed ==
    /\ pd_local # None => pd_local \in pd_used
    /\ \A e \in pd_Endpoints : pd_rows[e] # None => e \in pd_used
    /\ \A m \in pd_batch : m.endpoint \in pd_used
    /\ \A a \in Push!Actors : pd_op[a].step = "post" => pd_op[a].endpoint \in pd_used

\* The row of the live endpoint is the grant of this phone.
PushRowIsGrant == pd_local # None /\ pd_rows[pd_local] # None => pd_rows[pd_local] = pd_granted

\* What the worker is about to send to the live endpoint was read under a
\* grant, and there still is one.
PushBatchIsGranted ==
    \A m \in pd_batch : m.endpoint = pd_local => m.user = m.granted /\ pd_granted # None

PushIInv == PushShape /\ PushKnownIsUsed /\ PushRowIsGrant /\ PushBatchIsGranted /\ Push!PhoneObeysItsSwitch

-----------------------------------------------------------------------------
(* The steps that matter; the others touch none of the two halves.            *)

LEMMA PushInitial == Push!Init => PushIInv
    BY DEF Push!Init, PushIInv, PushShape, PushKnownIsUsed, PushRowIsGrant, PushBatchIsGranted,
           Push!PhoneObeysItsSwitch, Push!Actors, Push!Idle

\* An actor that takes another step keeps what the two halves hold.
LEMMA PushTurnKeeps ==
    ASSUME PushIInv, NEW a \in Push!Actors, NEW o, Push!Goes(a, o), o.step # "post",
           pd_user' \in pd_Users \cup {None},
           UNCHANGED <<pd_local, pd_used, pd_rows, pd_batch, pd_granted, pd_told>>
    PROVE  PushIInv'
    BY DEF PushIInv, PushShape, PushKnownIsUsed, PushRowIsGrant, PushBatchIsGranted, Push!PhoneObeysItsSwitch, Push!Goes

\* So does whatever an actor does to a subscription that is gone.
LEMMA PushDroppedKeeps ==
    ASSUME PushNoneIsApart, PushIInv, pd_local' = None,
           UNCHANGED <<pd_user, pd_used, pd_rows, pd_batch, pd_told>>,
           DOMAIN pd_op' = Push!Actors,
           \A a \in Push!Actors : pd_op'[a] = pd_op[a] \/ pd_op'[a].step # "post"
    PROVE  PushIInv'
    BY DEF PushNoneIsApart, PushIInv, PushShape, PushKnownIsUsed, PushRowIsGrant, PushBatchIsGranted,
           Push!PhoneObeysItsSwitch

\* A new endpoint is in no row and in no batch.
LEMMA PushSubscribeLocallyKeeps ==
    ASSUME PushNoneIsApart, PushIInv, NEW a \in Push!Actors, Push!SubscribeLocally(a)
    PROVE  PushIInv'
    <1> PICK e \in Push!Subscription :
            /\ pd_local' = e /\ pd_used' = pd_used \cup {e}
            /\ Push!Goes(a, [step |-> "post", endpoint |-> e])
        BY DEF Push!SubscribeLocally
    <1>1. UNCHANGED <<pd_user, pd_rows, pd_batch, pd_granted, pd_told>>
        BY DEF Push!SubscribeLocally, Push!server, Push!history
    <1>2. e \in pd_Endpoints /\ (e = pd_local \/ e \notin pd_used)
        BY DEF Push!Subscription, PushIInv, PushShape
    <1>3. PushShape'
        BY <1>1, <1>2 DEF PushIInv, PushShape, Push!Goes
    <1>4. PushKnownIsUsed'
        BY <1>1, <1>2 DEF PushIInv, PushShape, PushKnownIsUsed, Push!Goes
    <1>5. PushRowIsGrant' /\ PushBatchIsGranted'
        BY <1>1, <1>2 DEF PushIInv, PushShape, PushKnownIsUsed, PushRowIsGrant, PushBatchIsGranted
    <1>6. Push!PhoneObeysItsSwitch'
        BY <1>1 DEF PushIInv, Push!PhoneObeysItsSwitch
    <1> QED  BY <1>3, <1>4, <1>5, <1>6 DEF PushIInv

\* The row follows the grant: both are the user's who switched it on.
LEMMA PushSubscribePostedKeeps ==
    ASSUME PushNoneIsApart, PushIInv, NEW a \in Push!Actors, Push!SubscribePosted(a)
    PROVE  PushIInv'
    <1> DEFINE e == pd_op[a].endpoint
    <1>1. /\ pd_op[a].step = "post" /\ pd_user # None
          /\ pd_rows' = [pd_rows EXCEPT ![e] = pd_user]
          /\ pd_granted' = IF e = pd_local THEN pd_user ELSE pd_granted
          /\ Push!Goes(a, [step |-> "answer"])
          /\ UNCHANGED <<pd_user, pd_local, pd_used, pd_batch, pd_told>>
        BY DEF Push!SubscribePosted, Push!upsert_subscription
    <1>2. e \in pd_used /\ e \in pd_Endpoints
        BY <1>1 DEF PushIInv, PushShape, PushKnownIsUsed
    <1>3. PushShape'
        BY <1>1, <1>2 DEF PushIInv, PushShape, Push!Goes
    <1>4. PushKnownIsUsed'
        BY <1>1, <1>2 DEF PushIInv, PushShape, PushKnownIsUsed, Push!Goes
    <1>5. PushRowIsGrant' /\ PushBatchIsGranted'
        BY <1>1, <1>2 DEF PushIInv, PushShape, PushRowIsGrant, PushBatchIsGranted
    <1>6. Push!PhoneObeysItsSwitch'
        BY <1>1 DEF PushIInv, Push!PhoneObeysItsSwitch
    <1> QED  BY <1>3, <1>4, <1>5, <1>6 DEF PushIInv

LEMMA PushDeleteKeeps ==
    ASSUME PushNoneIsApart, PushIInv, NEW t \in pd_Tabs, Push!delete_subscription(t)
    PROVE  PushIInv'
    <1> DEFINE e == pd_op[t].endpoint
    <1>1. /\ pd_rows' = [pd_rows EXCEPT ![e] = IF @ = pd_user THEN None ELSE @]
          /\ Push!Goes(t, [step |-> "drop", endpoint |-> e, ok |-> TRUE])
          /\ UNCHANGED <<pd_user, pd_local, pd_used, pd_batch, pd_granted, pd_told>>
        BY DEF Push!delete_subscription, Push!history
    <1>2. t \in Push!Actors
        BY DEF Push!Actors
    <1>3. /\ pd_rows' \in [pd_Endpoints -> pd_Users \cup {None}]
          /\ \A x \in pd_Endpoints : pd_rows'[x] \in {pd_rows[x], None}
        BY <1>1 DEF PushIInv, PushShape
    <1>4. PushShape' /\ PushKnownIsUsed'
        BY <1>1, <1>2, <1>3 DEF PushIInv, PushShape, PushKnownIsUsed, Push!Goes
    <1>5. PushRowIsGrant' /\ PushBatchIsGranted' /\ Push!PhoneObeysItsSwitch'
        BY <1>1, <1>3 DEF PushIInv, PushShape, PushRowIsGrant, PushBatchIsGranted, Push!PhoneObeysItsSwitch
    <1> QED  BY <1>4, <1>5 DEF PushIInv

\* The subscription goes whether or not the server answered.
LEMMA PushUnsubscribeEndsKeeps ==
    ASSUME PushNoneIsApart, PushIInv, NEW t \in pd_Tabs, Push!UnsubscribeEnds(t)
    PROVE  PushIInv'
    <1> DEFINE e == pd_op[t].endpoint
    <1>1. /\ pd_local' = IF pd_local = e THEN None ELSE pd_local
          /\ pd_granted' = IF pd_local = e THEN None ELSE pd_granted
          /\ Push!Goes(t, Push!Idle)
          /\ UNCHANGED <<pd_user, pd_used, pd_rows, pd_batch, pd_told>>
        BY DEF Push!UnsubscribeEnds, Push!Unsubscribed, Push!server
    <1>2. t \in Push!Actors /\ Push!Idle.step # "post"
        BY DEF Push!Actors, Push!Idle
    <1>3. CASE pd_local = e
        <2>1. DOMAIN pd_op' = Push!Actors /\ (\A a \in Push!Actors : pd_op'[a] = pd_op[a] \/ pd_op'[a].step # "post")
            BY <1>1, <1>2 DEF PushIInv, PushShape, Push!Goes
        <2> QED  BY <1>1, <1>3, <2>1, PushDroppedKeeps
    <1>4. CASE pd_local # e
        <2>1. pd_user' \in pd_Users \cup {None}
            BY <1>1 DEF PushIInv, PushShape
        <2> QED  BY <1>1, <1>2, <1>4, <2>1, PushTurnKeeps
    <1> QED  BY <1>3, <1>4

LEMMA PushWorkerReadsKeeps ==
    ASSUME PushNoneIsApart, PushIInv, NEW u \in pd_Users, Push!WorkerReads(u)
    PROVE  PushIInv'
    <1>1. /\ pd_batch' = {[endpoint |-> e, user |-> u, granted |-> pd_granted] :
                              e \in {x \in pd_Endpoints : pd_rows[x] = u}}
          /\ UNCHANGED <<pd_user, pd_local, pd_used, pd_op, pd_rows, pd_granted, pd_told>>
        BY DEF Push!WorkerReads, Push!history
    <1>2. ASSUME NEW m \in pd_batch'
          PROVE  /\ m.endpoint \in pd_Endpoints /\ pd_rows[m.endpoint] = u
                 /\ m.user = u /\ m.granted = pd_granted
        BY <1>1
    <1>3. PushShape' /\ PushKnownIsUsed'
        BY <1>1, <1>2 DEF PushNoneIsApart, PushIInv, PushShape, PushKnownIsUsed
    <1>4. PushBatchIsGranted'
        BY <1>1, <1>2 DEF PushNoneIsApart, PushIInv, PushRowIsGrant, PushBatchIsGranted
    <1>5. PushRowIsGrant' /\ Push!PhoneObeysItsSwitch'
        BY <1>1 DEF PushIInv, PushRowIsGrant, Push!PhoneObeysItsSwitch
    <1> QED  BY <1>3, <1>4, <1>5 DEF PushIInv

\* What is shown was granted when it was read, and something still is.
LEMMA PushSendKeeps ==
    ASSUME PushNoneIsApart, PushIInv, NEW m \in pd_batch, Push!send_web_push(m)
    PROVE  PushIInv'
    <1>1. pd_batch' = pd_batch \ {m} /\ UNCHANGED <<pd_user, pd_local, pd_used, pd_op, pd_granted>>
        BY DEF Push!send_web_push
    <1>2. CASE m.endpoint = pd_local
        <2>1. /\ pd_told' = pd_told \cup {[user |-> m.user, read |-> m.granted, now |-> pd_granted]}
              /\ pd_rows' = pd_rows
            BY <1>2 DEF Push!send_web_push
        <2>2. Push!PhoneObeysItsSwitch'
            BY <1>2, <2>1 DEF PushIInv, PushBatchIsGranted, Push!PhoneObeysItsSwitch
        <2> QED
            BY <1>1, <2>1, <2>2 DEF PushIInv, PushShape, PushKnownIsUsed, PushRowIsGrant, PushBatchIsGranted
    <1>3. CASE m.endpoint # pd_local
        <2>1. pd_rows' = [pd_rows EXCEPT ![m.endpoint] = None] /\ pd_told' = pd_told
            BY <1>3 DEF Push!send_web_push
        <2> QED
            BY <1>1, <1>3, <2>1 DEF PushNoneIsApart, PushIInv, PushShape, PushKnownIsUsed, PushRowIsGrant,
               PushBatchIsGranted, Push!PhoneObeysItsSwitch
    <1> QED  BY <1>2, <1>3

-----------------------------------------------------------------------------
(* The theorem.                                                               *)

LEMMA PushInductive == ASSUME PushNoneIsApart, PushIInv, [Push!Next]_(Push!vars) PROVE PushIInv'
    <1> USE DEF Push!server, Push!history
    <1>1. ASSUME NEW u \in pd_Users, Push!Login(u) PROVE PushIInv'
        BY <1>1 DEF Push!Login, PushIInv, PushShape, PushKnownIsUsed, PushRowIsGrant, PushBatchIsGranted, Push!PhoneObeysItsSwitch
    <1>2. CASE Push!useLogout
        BY <1>2 DEF Push!useLogout, PushIInv, PushShape, PushKnownIsUsed, PushRowIsGrant, PushBatchIsGranted, Push!PhoneObeysItsSwitch
    <1>3. ASSUME NEW t \in pd_Tabs, Push!usePushSubscription(t) PROVE PushIInv'
        BY <1>3 DEF Push!usePushSubscription, PushIInv, PushShape, PushKnownIsUsed, PushRowIsGrant, PushBatchIsGranted,
           Push!PhoneObeysItsSwitch
    <1>4. ASSUME NEW t \in pd_Tabs, Push!SubscribePressed(t) PROVE PushIInv'
        <2>1. t \in Push!Actors /\ pd_user' \in pd_Users \cup {None}
            BY <1>4 DEF Push!Actors, Push!SubscribePressed, PushIInv, PushShape
        <2>2. PICK o \in {[step |-> "subscribe"], Push!Idle} : Push!Goes(t, o)
            BY <1>4 DEF Push!SubscribePressed
        <2>3. o.step # "post"
            BY <2>2 DEF Push!Idle
        <2>4. UNCHANGED <<pd_local, pd_used, pd_rows, pd_batch, pd_granted, pd_told>>
            BY <1>4 DEF Push!SubscribePressed
        <2> QED  BY <2>1, <2>2, <2>3, <2>4, PushTurnKeeps
    <1>5. ASSUME NEW t \in pd_Tabs, Push!SubscribeAnswered(t) PROVE PushIInv'
        <2>1. t \in Push!Actors /\ pd_user' \in pd_Users \cup {None} /\ Push!Goes(t, Push!Idle) /\ Push!Idle.step # "post"
            BY <1>5 DEF Push!Actors, Push!SubscribeAnswered, PushIInv, PushShape, Push!Idle
        <2>2. UNCHANGED <<pd_local, pd_used, pd_rows, pd_batch, pd_granted, pd_told>>
            BY <1>5 DEF Push!SubscribeAnswered
        <2> QED  BY <2>1, <2>2, PushTurnKeeps
    <1>6. ASSUME NEW t \in pd_Tabs, Push!UnsubscribePressed(t) PROVE PushIInv'
        <2>1. t \in Push!Actors /\ pd_user' \in pd_Users \cup {None}
              /\ UNCHANGED <<pd_user, pd_local, pd_used, pd_rows, pd_batch, pd_told>>
            BY <1>6 DEF Push!Actors, Push!UnsubscribePressed, PushIInv, PushShape
        <2>2. CASE pd_local = None
            <3>1. pd_op' = pd_op
                BY <1>6, <2>2 DEF Push!UnsubscribePressed
            <3> QED  BY <2>1, <2>2, <3>1, PushDroppedKeeps DEF PushIInv, PushShape
        <2>3. CASE pd_local # None
            <3>1. Push!Goes(t, [step |-> "delete", endpoint |-> pd_local]) /\ pd_granted' = pd_granted
                BY <1>6, <2>3 DEF Push!UnsubscribePressed
            <3> QED  BY <2>1, <3>1, PushTurnKeeps
        <2> QED  BY <2>2, <2>3
    <1>7. ASSUME NEW t \in pd_Tabs, Push!DeleteFails(t) PROVE PushIInv'
        <2>1. t \in Push!Actors /\ pd_user' \in pd_Users \cup {None}
              /\ UNCHANGED <<pd_local, pd_used, pd_rows, pd_batch, pd_granted, pd_told>>
              /\ Push!Goes(t, [step |-> "drop", endpoint |-> pd_op[t].endpoint, ok |-> FALSE])
            BY <1>7 DEF Push!Actors, Push!DeleteFails, PushIInv, PushShape
        <2> QED  BY <2>1, PushTurnKeeps
    <1>8. ASSUME NEW t \in pd_Tabs, Push!delete_subscription(t) \/ Push!UnsubscribeEnds(t) PROVE PushIInv'
        BY <1>8, PushDeleteKeeps, PushUnsubscribeEndsKeeps
    <1>9. ASSUME NEW a \in Push!Actors, Push!SubscribeLocally(a) \/ Push!SubscribePosted(a) PROVE PushIInv'
        BY <1>9, PushSubscribeLocallyKeeps, PushSubscribePostedKeeps
    <1>10. ASSUME NEW a \in Push!Actors, Push!SubscribeFails(a) PROVE PushIInv'
        <2>1. pd_user' \in pd_Users \cup {None} /\ Push!Goes(a, Push!Idle) /\ Push!Idle.step # "post"
              /\ UNCHANGED <<pd_local, pd_used, pd_rows, pd_batch, pd_granted, pd_told>>
            BY <1>10 DEF Push!SubscribeFails, PushIInv, PushShape, Push!Idle
        <2> QED  BY <2>1, PushTurnKeeps
    <1>11. CASE Push!Revoke
        BY <1>11, PushDroppedKeeps DEF Push!Revoke, PushIInv, PushShape
    <1>12. CASE Push!pushsubscriptionchange
        <2>1. /\ pd_local' = None /\ Push!Goes(pd_ServiceWorker, [step |-> "subscribe"])
              /\ UNCHANGED <<pd_user, pd_used, pd_rows, pd_batch, pd_told>>
            BY <1>12 DEF Push!pushsubscriptionchange
        <2>2. DOMAIN pd_op' = Push!Actors /\ (\A a \in Push!Actors : pd_op'[a] = pd_op[a] \/ pd_op'[a].step # "post")
            BY <2>1 DEF PushIInv, PushShape, Push!Goes, Push!Actors
        <2> QED  BY <2>1, <2>2, PushDroppedKeeps
    <1>13. ASSUME NEW u \in pd_Users, Push!WorkerReads(u) PROVE PushIInv'
        BY <1>13, PushWorkerReadsKeeps
    <1>14. ASSUME NEW m \in pd_batch, Push!send_web_push(m) PROVE PushIInv'
        BY <1>14, PushSendKeeps
    <1>15. CASE UNCHANGED Push!vars
        BY <1>15 DEF Push!vars, PushIInv, PushShape, PushKnownIsUsed, PushRowIsGrant, PushBatchIsGranted, Push!PhoneObeysItsSwitch
    <1> QED
        BY <1>1, <1>2, <1>3, <1>4, <1>5, <1>6, <1>7, <1>8, <1>9, <1>10, <1>11, <1>12,
           <1>13, <1>14, <1>15 DEF Push!Next

\* A phone shows what was switched on there and nothing once it is switched off
\* (unsubscribeFromPushNotifications, upsert_subscription, send_web_push), for
\* any number of users, tabs and endpoints.
LEMMA PushSwitchIsObeyed == ASSUME PushNoneIsApart PROVE Push!Spec => []Push!PhoneObeysItsSwitch
    <1>1. PushIInv /\ [Push!Next]_(Push!vars) => PushIInv'
        BY PushInductive
    <1>2. PushIInv => Push!PhoneObeysItsSwitch
        BY DEF PushIInv
    <1> QED  BY PushInitial, <1>1, <1>2, PTL DEF Push!Spec

\* A behaviour of the office is one of PushDevices, with its steps or none.
LEMMA PushPart == Init /\ [][Next]_vars => Push!Spec
    <1>1. Init => Push!Init
        BY DEF Init
    <1>2. [Next]_vars => [Push!Next]_(Push!vars)
        <2>1. UNCHANGED pushVars => UNCHANGED Push!vars
            BY DEF pushVars, Push!vars
        <2> QED  BY <2>1 DEF Next, vars
    <1> QED  BY <1>1, <1>2, PTL DEF Push!Spec

\* A phone shows the notifications of the user for whom they were last switched
\* on there, and none once they are switched off.
THEOREM SwitchIsObeyed == ASSUME PushNoneIsApart PROVE Spec => []PhoneObeysItsSwitch
    BY PushSwitchIsObeyed, PushPart, PTL DEF Spec, PhoneObeysItsSwitch

-----------------------------------------------------------------------------
(* Sheets: what becomes of the rows of a sheet.                            *)

\* The sets of the module are counted as everywhere.
LEMMA SheetsCount == \A S : Sheets!Cardinality(S) = Cardinality(S)
    BY DEF Sheets!Cardinality, Cardinality

\* Days and hours have their minutes, an hour is not all break, and the cells
\* of a line are read as numbers or not at all.
SheetsCellsGiven ==
    /\ None \notin Int \cup {"nuts", "prosto", "manual"}
    /\ sh_Hour \in Nat \ {0} /\ sh_Break \in 0..(sh_Hour - 1)
    /\ sh_Week \in Nat \ {0} /\ sh_DayLength \in Nat \ {0} /\ sh_Shift \in Nat
    /\ \A f \in {"nuts", "prosto", "manual"} : \A row \in sh_Rows[f] :
          row.kind = "line" => /\ row.levels \in Nat
                               /\ row.length \in (Nat \ {0}) \cup {None}
                               /\ row.at \in Nat \cup {None}
    /\ \A row \in sh_Rows["nuts"] : row.kind = "day" => row.day \in Nat

-----------------------------------------------------------------------------
LEMMA SheetsLatestExists ==
    ASSUME NEW k \in Nat, NEW H \in SUBSET (1..k), H # {}
    PROVE  \E m \in H : \A g \in H : m >= g
    <1> DEFINE B == {n \in Nat : \A g \in H : n >= g}
    <1>1. k \in B
        OBVIOUS
    <1>2. PICK m \in B : \A n \in B : m <= n
        <2>1. B \in SUBSET Nat /\ B # {}
            BY <1>1
        <2> HIDE DEF B
        <2> QED  BY <2>1, RateLeastOf
    <1>3. m \in H
        <2> SUFFICES ASSUME m \notin H
                     PROVE  FALSE
            OBVIOUS
        <2>1. \A g \in H : g \in 1..k /\ m >= g /\ m # g
            OBVIOUS
        <2>2. m - 1 \in Nat
            <3>1. PICK g \in H : TRUE
                OBVIOUS
            <3>2. m \in Nat /\ g \in Nat /\ g >= 1 /\ m >= g
                BY <2>1
            <3> QED  BY <3>2
        <2>3. \A g \in H : m - 1 >= g
            BY <2>1
        <2>4. m - 1 \in B
            BY <2>2, <2>3
        <2> QED  BY <1>2, <2>4
    <1> QED  BY <1>3

LEMMA SheetsQuotientIs ==
    ASSUME NEW x \in Int, NEW p \in Nat \ {0}, NEW q \in Int, q * p <= x, x < q * p + p
    PROVE  x \div p = q
    <1> DEFINE d == x \div p
    <1>1. d \in Int /\ d * p <= x /\ x < d * p + p
        BY Z3
    <1> HIDE DEF d
    <1>2. (q - d) * p < p /\ (d - q) * p < p
        BY <1>1, Z3
    <1>3. q - d < 1 /\ d - q < 1
        <2>1. ASSUME NEW e \in Int, e * p < p
              PROVE  e < 1
            BY <2>1, Z3
        <2> QED  BY <1>1, <1>2, <2>1
    <1>4. d = q
        BY <1>1, <1>3
    <1> QED  BY <1>4 DEF d

LEMMA SheetsRemainder ==
    ASSUME NEW x \in Int, NEW p \in Nat \ {0}
    PROVE  x % p \in 0..(p - 1) /\ x = p * (x \div p) + (x % p)
    BY Z3

LEMMA SheetsQuotientSteps ==
    ASSUME NEW x \in Nat, NEW p \in Nat \ {0}
    PROVE  /\ x \div p \in Nat
           /\ x < p => x \div p = 0
           /\ x >= p => (x - p) \div p = (x \div p) - 1
    <1>1. x < p => x \div p = 0
        BY SheetsQuotientIs
    <1>2. PICK q \in Int : q = x \div p
        OBVIOUS
    <1>3. q * p <= x /\ x < q * p + p
        BY <1>2, Z3
    <1>4. (q - 1) * p = q * p - p
        BY Z3
    <1>5. (x - p) \div p = q - 1
        BY <1>3, <1>4, SheetsQuotientIs
    <1>6. x \div p >= 0
        BY Z3
    <1> QED  BY <1>1, <1>2, <1>5, <1>6

-----------------------------------------------------------------------------
\* CloseOffset is what its definition says: a function solves the equation.
SheetsClosing(f, left) ==
    LET playUntil == sh_Hour - sh_Break
        block == playUntil - left.minute
    IN  IF left.minute >= playUntil
        THEN sh_Hour - left.minute + f[[remaining |-> left.remaining, minute |-> 0]]
        ELSE IF left.remaining <= block THEN left.remaining
        ELSE block + f[[remaining |-> left.remaining - block, minute |-> playUntil]]

LEMMA SheetsCloseOffsetIs ==
    ASSUME SheetsCellsGiven
    PROVE  Sheets!CloseOffset = [left \in Sheets!Left |-> SheetsClosing(Sheets!CloseOffset, left)]
    <1> DEFINE P == sh_Hour - sh_Break
               Breaks(n) == sh_Break * ((n - 1) \div P)
               W == [left \in Sheets!Left |->
                        IF left.minute >= P THEN sh_Hour - left.minute + left.remaining + Breaks(left.remaining)
                        ELSE left.remaining + Breaks(left.remaining + left.minute)]
    <1>1. P \in Nat \ {0} /\ P <= sh_Hour /\ sh_Hour - P = sh_Break /\ sh_Break \in Nat /\ sh_Hour \in Nat
        BY DEF SheetsCellsGiven
    <1>2. \A n \in Nat \ {0} : /\ Breaks(n) \in Nat
                               /\ n <= P => Breaks(n) = 0
                               /\ n > P => Breaks(n) = sh_Break + Breaks(n - P)
        <2> TAKE n \in Nat \ {0}
        <2>1. n - 1 \in Nat
            OBVIOUS
        <2>2. PICK q \in Nat : q = (n - 1) \div P
            BY <1>1, <2>1, SheetsQuotientSteps
        <2>3. n <= P => q = 0
            BY <1>1, <2>1, <2>2, SheetsQuotientSteps
        <2>4. n > P => (n - P - 1) \div P = q - 1
            <3> HIDE DEF P
            <3>1. n - P - 1 = (n - 1) - P /\ (n > P => n - 1 >= P)
                BY <1>1
            <3>2. n - 1 >= P => ((n - 1) - P) \div P = ((n - 1) \div P) - 1
                BY <1>1, <2>1, SheetsQuotientSteps
            <3> QED  BY <2>2, <3>1, <3>2
        <2>5. sh_Break * q \in Nat /\ sh_Break * 0 = 0 /\ sh_Break * q = sh_Break + sh_Break * (q - 1)
            BY <1>1, Z3
        <2>6. n > P => Breaks(n - P) = sh_Break * (q - 1)
            BY <2>4
        <2> HIDE DEF P
        <2> QED  BY <2>2, <2>3, <2>5, <2>6
    <1> HIDE DEF P, Breaks
    <1>3. ASSUME NEW left \in Sheets!Left
          PROVE  W[left] = SheetsClosing(W, left)
        <2>1. left.remaining \in Nat \ {0} /\ left.minute \in 0..sh_Hour
            BY DEF Sheets!Left
        <2>2. CASE left.minute >= P
            <3> DEFINE next == [remaining |-> left.remaining, minute |-> 0]
            <3>1. next \in Sheets!Left
                BY <1>1, <2>1 DEF Sheets!Left
            <3>2. W[next] = left.remaining + Breaks(left.remaining)
                BY <1>1, <2>1, <3>1
            <3>3. SheetsClosing(W, left) = sh_Hour - left.minute + W[next]
                BY <2>2 DEF SheetsClosing, P
            <3>4. W[left] = sh_Hour - left.minute + left.remaining + Breaks(left.remaining)
                BY <2>2
            <3> HIDE DEF W, next
            <3>5. PICK b \in Nat : b = Breaks(left.remaining)
                BY <1>2, <2>1
            <3>6. sh_Hour - left.minute + (left.remaining + b) = sh_Hour - left.minute + left.remaining + b
                BY <1>1, <2>1
            <3> QED  BY <3>2, <3>3, <3>4, <3>5, <3>6, Zenon
        <2>3. CASE left.minute < P /\ left.remaining <= P - left.minute
            <3>1. W[left] = left.remaining + Breaks(left.remaining + left.minute)
                BY <1>1, <2>1, <2>3
            <3>2. Breaks(left.remaining + left.minute) = 0
                BY <1>1, <1>2, <2>1, <2>3
            <3>3. SheetsClosing(W, left) = left.remaining
                BY <1>1, <2>1, <2>3 DEF SheetsClosing, P
            <3> QED  BY <2>1, <3>1, <3>2, <3>3
        <2>4. CASE left.minute < P /\ left.remaining > P - left.minute
            <3> DEFINE next == [remaining |-> left.remaining - (P - left.minute), minute |-> P]
            <3>1. next \in Sheets!Left
                BY <1>1, <2>1, <2>4 DEF Sheets!Left
            <3>2. W[next] = sh_Hour - P + (left.remaining - (P - left.minute))
                            + Breaks(left.remaining - (P - left.minute))
                BY <1>1, <2>1, <3>1
            <3>3. SheetsClosing(W, left) = P - left.minute + W[next]
                BY <1>1, <2>1, <2>4 DEF SheetsClosing, P
            <3>4. W[left] = left.remaining + Breaks(left.remaining + left.minute)
                BY <1>1, <2>1, <2>4
            <3>5. left.remaining - (P - left.minute) = left.remaining + left.minute - P
                BY <1>1, <2>1
            <3>6. Breaks(left.remaining + left.minute)
                  = sh_Break + Breaks(left.remaining + left.minute - P)
                BY <1>1, <1>2, <2>1, <2>4
            <3>7. Breaks(left.remaining + left.minute - P) \in Nat
                BY <1>1, <1>2, <2>1, <2>4
            <3> HIDE DEF W, next
            <3> QED  BY <1>1, <2>1, <3>2, <3>3, <3>4, <3>5, <3>6, <3>7
        <2> QED  BY <1>1, <2>1, <2>2, <2>3, <2>4
    <1>4. W = [left \in Sheets!Left |-> SheetsClosing(W, left)]
        <2> DEFINE V == [left \in Sheets!Left |-> SheetsClosing(W, left)]
        <2>1. \A left \in Sheets!Left : V[left] = SheetsClosing(W, left)
            OBVIOUS
        <2>2. DOMAIN V = Sheets!Left /\ DOMAIN W = Sheets!Left /\ V = [left \in Sheets!Left |-> V[left]]
              /\ W = [left \in Sheets!Left |-> W[left]]
            OBVIOUS
        <2> HIDE DEF V, W
        <2>3. V = W
            BY <1>3, <2>1, <2>2, Zenon
        <2> QED  BY <2>3 DEF V
    <1> HIDE DEF W
    <1>5. Sheets!CloseOffset = CHOOSE f : f = [left \in Sheets!Left |-> SheetsClosing(f, left)]
        BY DEF Sheets!CloseOffset, Sheets!Left, SheetsClosing
    <1> QED  BY <1>4, <1>5

-----------------------------------------------------------------------------
\* Minutes of play.
SheetsPlays(from, to) == {t \in from..(to - 1) : t % sh_Hour < sh_Hour - sh_Break}

LEMMA SheetsPlayedSplits ==
    ASSUME NEW a \in Nat, NEW b \in Nat, NEW c \in Nat, a <= b, b <= c
    PROVE  /\ Sheets!Played(a, b) \in Nat /\ Sheets!Played(b, c) \in Nat
           /\ Sheets!Played(a, c) = Sheets!Played(a, b) + Sheets!Played(b, c)
    <1>1. \A x, y \in Nat : IsFiniteSet(SheetsPlays(x, y)) /\ Cardinality(SheetsPlays(x, y)) = Sheets!Played(x, y)
                            /\ Sheets!Played(x, y) \in Nat
        <2> TAKE x, y \in Nat
        <2>1. IsFiniteSet(x..(y - 1))
            BY FS_Interval
        <2>2. SheetsPlays(x, y) \in SUBSET (x..(y - 1))
            BY DEF SheetsPlays
        <2>3. IsFiniteSet(SheetsPlays(x, y))
            BY <2>1, <2>2, FS_Subset
        <2>4. Cardinality(SheetsPlays(x, y)) = Sheets!Played(x, y)
            BY SheetsCount DEF SheetsPlays, Sheets!Played
        <2> QED  BY <2>3, <2>4, FS_CardinalityType
    <1>2. SheetsPlays(a, c) = SheetsPlays(a, b) \cup SheetsPlays(b, c) /\ SheetsPlays(a, b) \cap SheetsPlays(b, c) = {}
        BY DEF SheetsPlays
    <1>3. Cardinality(SheetsPlays(a, c))
          = Cardinality(SheetsPlays(a, b)) + Cardinality(SheetsPlays(b, c)) - Cardinality({})
        <2>1. IsFiniteSet(SheetsPlays(a, b)) /\ IsFiniteSet(SheetsPlays(b, c))
            BY <1>1
        <2> HIDE DEF SheetsPlays
        <2>2. Cardinality(SheetsPlays(a, b) \cup SheetsPlays(b, c)) = Cardinality(SheetsPlays(a, b))
                 + Cardinality(SheetsPlays(b, c)) - Cardinality(SheetsPlays(a, b) \cap SheetsPlays(b, c))
            BY <2>1, FS_Union, Zenon
        <2> QED  BY <1>2, <2>2, Zenon
    <1>4. Cardinality(SheetsPlays(a, c)) = Sheets!Played(a, c) /\ Cardinality(SheetsPlays(a, b)) = Sheets!Played(a, b)
          /\ Cardinality(SheetsPlays(b, c)) = Sheets!Played(b, c)
        BY <1>1
    <1>5. Sheets!Played(a, b) \in Nat /\ Sheets!Played(b, c) \in Nat
        BY <1>1
    <1> QED  BY <1>3, <1>4, <1>5, FS_EmptySet

LEMMA SheetsPlayedGrows ==
    ASSUME NEW a \in Nat, NEW b \in Nat, NEW c \in Nat, a <= b, b <= c
    PROVE  Sheets!Played(a, b) \in Nat /\ Sheets!Played(a, c) \in Nat /\ Sheets!Played(a, b) <= Sheets!Played(a, c)
    <1>1. Sheets!Played(a, c) = Sheets!Played(a, b) + Sheets!Played(b, c)
        BY SheetsPlayedSplits
    <1>2. Sheets!Played(a, b) \in Nat /\ Sheets!Played(b, c) \in Nat
        BY SheetsPlayedSplits
    <1> QED  BY <1>1, <1>2

LEMMA SheetsPlayedInPlay ==
    ASSUME NEW a \in Nat, NEW b \in Nat, a <= b, \A t \in a..(b - 1) : t % sh_Hour < sh_Hour - sh_Break
    PROVE  Sheets!Played(a, b) = b - a
    <1>1. {t \in a..(b - 1) : t % sh_Hour < sh_Hour - sh_Break} = a..(b - 1)
        OBVIOUS
    <1>2. PICK c \in Int : c = b - 1
        OBVIOUS
    <1>3. Cardinality(a..c) = IF a > c THEN 0 ELSE c - a + 1
        <2>1. a \in Int
            OBVIOUS
        <2> QED  BY <2>1, FS_Interval
    <1>4. Cardinality(a..(b - 1)) = b - a
        BY <1>2, <1>3
    <1>5. Sheets!Played(a, b) = Cardinality(a..(b - 1))
        BY <1>1, SheetsCount, Zenon DEF Sheets!Played
    <1> QED  BY <1>4, <1>5

LEMMA SheetsPlayedInBreak ==
    ASSUME NEW a \in Nat, NEW b \in Nat, a <= b, \A t \in a..(b - 1) : ~(t % sh_Hour < sh_Hour - sh_Break)
    PROVE  Sheets!Played(a, b) = 0
    <1>1. {t \in a..(b - 1) : t % sh_Hour < sh_Hour - sh_Break} = {}
        OBVIOUS
    <1> QED  BY <1>1, SheetsCount, FS_EmptySet DEF Sheets!Played

\* The minutes of an hour that begins at one.
LEMMA SheetsMinuteOf ==
    ASSUME sh_Hour \in Nat \ {0}, NEW hour \in Nat, hour % sh_Hour = 0
    PROVE  \A t \in 0..(sh_Hour - 1) : (hour + t) % sh_Hour = t
    <1> DEFINE k == hour \div sh_Hour
    <1>1. k \in Int /\ hour = sh_Hour * k
        BY Z3
    <1> HIDE DEF k
    <1>2. \A t \in 0..(sh_Hour - 1) : (hour + t) % sh_Hour = t
        <2> TAKE t \in 0..(sh_Hour - 1)
        <2>1. (hour + t) \div sh_Hour = k
            <3>1. k * sh_Hour = hour
                BY <1>1, Z3
            <3> QED  BY <1>1, <3>1, SheetsQuotientIs
        <2>2. hour + t = sh_Hour * ((hour + t) \div sh_Hour) + ((hour + t) % sh_Hour)
            BY SheetsRemainder
        <2>3. (hour + t) % sh_Hour \in Int
            BY SheetsRemainder
        <2>4. hour + t = hour + ((hour + t) % sh_Hour)
            BY <1>1, <2>1, <2>2
        <2> QED  BY <2>3, <2>4
    <1> QED  BY <1>2

LEMMA SheetsMinuteOfMidnight ==
    ASSUME sh_Hour \in Nat \ {0}
    PROVE  0 % sh_Hour = 0
    BY Z3

LEMMA SheetsNextHour ==
    ASSUME sh_Hour \in Nat \ {0}, NEW hour \in Nat, hour % sh_Hour = 0
    PROVE  (hour + sh_Hour) % sh_Hour = 0
    <1> DEFINE k == hour \div sh_Hour
    <1>1. k \in Int /\ hour = sh_Hour * k
        BY Z3
    <1> HIDE DEF k
    <1>2. (hour + sh_Hour) % sh_Hour = 0
        <2>1. (k + 1) * sh_Hour = hour + sh_Hour
            BY <1>1, Z3
        <2>2. (hour + sh_Hour) \div sh_Hour = k + 1
            BY <1>1, <2>1, SheetsQuotientIs
        <2>3. hour + sh_Hour = sh_Hour * ((hour + sh_Hour) \div sh_Hour) + ((hour + sh_Hour) % sh_Hour)
            BY SheetsRemainder
        <2>4. sh_Hour * (k + 1) = hour + sh_Hour
            BY <1>1, Z3
        <2>5. (hour + sh_Hour) % sh_Hour \in Int
            BY SheetsRemainder
        <2>6. hour + sh_Hour = hour + sh_Hour + ((hour + sh_Hour) % sh_Hour)
            BY <2>2, <2>3, <2>4
        <2> QED  BY <2>5, <2>6
    <1> QED  BY <1>2

-----------------------------------------------------------------------------
\* After its offset the levels have been played, and a minute earlier they
\* have not.
SheetsClosed(left) ==
    /\ Sheets!CloseOffset[left] \in Nat \ {0}
    /\ \A hour \in Nat : hour % sh_Hour = 0 =>
          /\ Sheets!Played(hour + left.minute, hour + left.minute + Sheets!CloseOffset[left]) = left.remaining
          /\ Sheets!Played(hour + left.minute, hour + left.minute + Sheets!CloseOffset[left] - 1)
             = left.remaining - 1

LEMMA SheetsClosedIs ==
    ASSUME NEW left, SheetsClosed(left), NEW hour \in Nat, hour % sh_Hour = 0
    PROVE  /\ Sheets!CloseOffset[left] \in Nat \ {0}
           /\ Sheets!Played(hour + left.minute, hour + left.minute + Sheets!CloseOffset[left]) = left.remaining
           /\ Sheets!Played(hour + left.minute, hour + left.minute + Sheets!CloseOffset[left] - 1)
              = left.remaining - 1
    BY Zenon DEF SheetsClosed

LEMMA SheetsClosedWhen ==
    ASSUME NEW left, Sheets!CloseOffset[left] \in Nat \ {0},
           \A hour \in Nat : hour % sh_Hour = 0 =>
              /\ Sheets!Played(hour + left.minute, hour + left.minute + Sheets!CloseOffset[left]) = left.remaining
              /\ Sheets!Played(hour + left.minute, hour + left.minute + Sheets!CloseOffset[left] - 1)
                 = left.remaining - 1
    PROVE  SheetsClosed(left)
    BY Zenon DEF SheetsClosed

\* One turn of the loop.
LEMMA SheetsClosedByTurn ==
    ASSUME SheetsCellsGiven, NEW left \in Sheets!Left,
           left.minute >= sh_Hour - sh_Break => SheetsClosed([remaining |-> left.remaining, minute |-> 0]),
           left.minute < sh_Hour - sh_Break /\ left.remaining > sh_Hour - sh_Break - left.minute =>
              SheetsClosed([remaining |-> left.remaining - (sh_Hour - sh_Break - left.minute),
                            minute |-> sh_Hour - sh_Break])
    PROVE  SheetsClosed(left)
    <1> DEFINE P == sh_Hour - sh_Break
               c == Sheets!CloseOffset[left]
    <1>1. P \in Nat \ {0} /\ P <= sh_Hour /\ sh_Hour \in Nat \ {0} /\ sh_Hour - sh_Break = P
        BY DEF SheetsCellsGiven
    <1>2. left.remaining \in Nat \ {0} /\ left.minute \in 0..sh_Hour
        BY DEF Sheets!Left
    <1>3. c = SheetsClosing(Sheets!CloseOffset, left)
        BY SheetsCloseOffsetIs
    <1>4. CASE left.minute >= P
        <2> DEFINE next == [remaining |-> left.remaining, minute |-> 0]
                   d == Sheets!CloseOffset[next]
        <2>1. SheetsClosed(next)
            BY <1>4
        <2>2. c = sh_Hour - left.minute + d
            BY <1>3, <1>4 DEF SheetsClosing
        <2>3. next.minute = 0 /\ next.remaining = left.remaining
            OBVIOUS
        <2>4. d \in Nat \ {0}
            BY <2>1 DEF SheetsClosed
        <2>5. c \in Nat \ {0}
            BY <1>1, <1>2, <2>2, <2>4
        <2> HIDE DEF next, c, d, P
        <2>6. ASSUME NEW hour \in Nat, hour % sh_Hour = 0
              PROVE  /\ Sheets!Played(hour + left.minute, hour + left.minute + c) = left.remaining
                     /\ Sheets!Played(hour + left.minute, hour + left.minute + c - 1) = left.remaining - 1
            <3>1. hour + sh_Hour \in Nat /\ (hour + sh_Hour) % sh_Hour = 0
                <4>1. hour + sh_Hour \in Nat
                    BY <1>1
                <4>2. sh_Hour \in Nat \ {0}
                    BY <1>1
                <4>3. (hour + sh_Hour) % sh_Hour = 0
                    BY <2>6, <4>2, SheetsNextHour, Zenon
                <4> QED  BY <4>1, <4>3
            <3>2. /\ Sheets!Played(hour + sh_Hour + 0, hour + sh_Hour + 0 + d) = left.remaining
                  /\ Sheets!Played(hour + sh_Hour + 0, hour + sh_Hour + 0 + d - 1) = left.remaining - 1
                BY <2>1, <2>3, <3>1, SheetsClosedIs DEF d
            <3> DEFINE a == hour + left.minute
                       b == hour + sh_Hour
            <3>3. a \in Nat /\ b \in Nat /\ a <= b /\ a + c = b + d
                BY <1>1, <1>2, <2>2, <2>4
            <3>4. Sheets!Played(a, b) = 0
                <4>1. ASSUME NEW t \in a..(b - 1)
                      PROVE  ~(t % sh_Hour < sh_Hour - sh_Break)
                    <5>1. t - hour \in 0..(sh_Hour - 1) /\ t - hour >= P
                        BY <1>1, <1>2, <1>4, <4>1
                    <5>2. (hour + (t - hour)) % sh_Hour = t - hour
                        BY <1>1, <2>6, <5>1, SheetsMinuteOf
                    <5>3. hour + (t - hour) = t
                        BY <4>1, <3>3
                    <5> QED  BY <1>1, <5>1, <5>2, <5>3
                <4> QED  BY <3>3, <4>1, SheetsPlayedInBreak
            <3>5. Sheets!Played(b, b + d) = left.remaining /\ Sheets!Played(b, b + d - 1) = left.remaining - 1
                <4>1. b + 0 = b
                    BY <3>3
                <4> QED  BY <3>2, <4>1
            <3> HIDE DEF a, b
            <3>6. Sheets!Played(a, b + d) = left.remaining
                <4>1. b + d \in Nat /\ b <= b + d
                    BY <2>4, <3>3
                <4>2. Sheets!Played(a, b + d) = Sheets!Played(a, b) + Sheets!Played(b, b + d)
                    BY <3>3, <4>1, SheetsPlayedSplits
                <4> QED  BY <1>2, <3>4, <3>5, <4>2
            <3>7. Sheets!Played(a, b + d - 1) = left.remaining - 1
                <4>1. b + d - 1 \in Nat /\ b <= b + d - 1
                    BY <2>4, <3>3
                <4>2. Sheets!Played(a, b + d - 1) = Sheets!Played(a, b) + Sheets!Played(b, b + d - 1)
                    BY <3>3, <4>1, SheetsPlayedSplits
                <4> QED  BY <1>2, <3>4, <3>5, <4>2
            <3>8. a + c - 1 = b + d - 1
                BY <2>4, <2>5, <3>3
            <3>9. Sheets!Played(a, a + c) = left.remaining /\ Sheets!Played(a, a + c - 1) = left.remaining - 1
                BY <3>3, <3>6, <3>7, <3>8, Zenon
            <3> QED  BY <3>9 DEF a
        <2> QED  BY <2>5, <2>6, SheetsClosedWhen DEF c
    <1>5. CASE left.minute < P /\ left.remaining <= P - left.minute
        <2>1. c = left.remaining
            BY <1>1, <1>2, <1>3, <1>5 DEF SheetsClosing
        <2> HIDE DEF c, P
        <2>2. ASSUME NEW hour \in Nat, hour % sh_Hour = 0,
                     NEW n \in {left.remaining, left.remaining - 1}
              PROVE  Sheets!Played(hour + left.minute, hour + left.minute + n) = n
            <3> DEFINE a == hour + left.minute
            <3>1. a \in Nat /\ n \in Nat /\ a + n \in Nat
                BY <1>2, <2>2
            <3>2. PICK b \in Nat : b = a + n
                BY <3>1
            <3>3. ASSUME NEW t \in a..(b - 1)
                  PROVE  t % sh_Hour < sh_Hour - sh_Break
                <4>1. t - hour \in 0..(sh_Hour - 1) /\ t - hour < P /\ hour + (t - hour) = t
                    BY <1>1, <1>2, <1>5, <2>2, <3>2, <3>3
                <4>2. (hour + (t - hour)) % sh_Hour = t - hour
                    BY <1>1, <2>2, <4>1, SheetsMinuteOf
                <4> QED  BY <1>1, <4>1, <4>2
            <3> HIDE DEF a
            <3>4. a <= b /\ b - a = n
                BY <3>1, <3>2
            <3>5. Sheets!Played(a, b) = b - a
                BY <3>1, <3>3, <3>4, SheetsPlayedInPlay
            <3>6. Sheets!Played(a, a + n) = n
                BY <3>2, <3>4, <3>5, Zenon
            <3> QED  BY <3>6 DEF a
        <2>3. ASSUME NEW hour \in Nat, hour % sh_Hour = 0
              PROVE  /\ Sheets!Played(hour + left.minute, hour + left.minute + c) = left.remaining
                     /\ Sheets!Played(hour + left.minute, hour + left.minute + c - 1) = left.remaining - 1
            <3>1. hour + left.minute + (left.remaining - 1) = hour + left.minute + c - 1
                BY <1>2, <2>1, <2>3
            <3>2. Sheets!Played(hour + left.minute, hour + left.minute + (left.remaining - 1))
                  = left.remaining - 1
                BY <2>2, <2>3
            <3>3. Sheets!Played(hour + left.minute, hour + left.minute + left.remaining) = left.remaining
                BY <2>2, <2>3
            <3> QED  BY <2>1, <3>1, <3>2, <3>3
        <2> QED  BY <1>2, <2>1, <2>3, SheetsClosedWhen DEF c
    <1>6. CASE left.minute < P /\ left.remaining > P - left.minute
        <2> DEFINE block == P - left.minute
                   next == [remaining |-> left.remaining - block, minute |-> P]
                   d == Sheets!CloseOffset[next]
        <2>1. SheetsClosed(next)
            BY <1>6
        <2>2. c = block + d
            BY <1>1, <1>2, <1>3, <1>6 DEF SheetsClosing
        <2>3. next.minute = P /\ next.remaining = left.remaining - block
            OBVIOUS
        <2>4. d \in Nat \ {0}
            BY <2>1 DEF SheetsClosed
        <2>5. block \in Nat \ {0} /\ left.minute + block = P
            BY <1>1, <1>2, <1>6
        <2>6. c \in Nat \ {0}
            BY <2>2, <2>4, <2>5
        <2> HIDE DEF next, c, d, P, block
        <2>7. ASSUME NEW hour \in Nat, hour % sh_Hour = 0
              PROVE  /\ Sheets!Played(hour + left.minute, hour + left.minute + c) = left.remaining
                     /\ Sheets!Played(hour + left.minute, hour + left.minute + c - 1) = left.remaining - 1
            <3> DEFINE a == hour + left.minute
                       b == hour + P
            <3>1. Sheets!Played(b, b + d) = left.remaining - block
                  /\ Sheets!Played(b, b + d - 1) = left.remaining - block - 1
                BY <2>1, <2>3, <2>7, SheetsClosedIs DEF d
            <3>2. a \in Nat /\ b \in Nat /\ a <= b /\ b - a = block /\ a + c = b + d
                BY <1>1, <1>2, <2>2, <2>4, <2>5
            <3>3. ASSUME NEW t \in a..(b - 1)
                  PROVE  t % sh_Hour < sh_Hour - sh_Break
                <4>1. t - hour \in 0..(sh_Hour - 1) /\ t - hour < P /\ hour + (t - hour) = t
                    BY <1>1, <1>2, <2>5, <2>7, <3>3
                <4>2. (hour + (t - hour)) % sh_Hour = t - hour
                    BY <1>1, <2>7, <4>1, SheetsMinuteOf
                <4> QED  BY <1>1, <4>1, <4>2
            <3> HIDE DEF a, b
            <3>4. Sheets!Played(a, b) = block
                BY <3>2, <3>3, SheetsPlayedInPlay
            <3>5. Sheets!Played(a, b + d) = left.remaining
                <4>1. b + d \in Nat /\ b <= b + d
                    BY <2>4, <3>2
                <4>2. Sheets!Played(a, b + d) = Sheets!Played(a, b) + Sheets!Played(b, b + d)
                    BY <3>2, <4>1, SheetsPlayedSplits
                <4> QED  BY <1>2, <2>5, <3>1, <3>4, <4>2
            <3>6. Sheets!Played(a, b + d - 1) = left.remaining - 1
                <4>1. b + d - 1 \in Nat /\ b <= b + d - 1
                    BY <2>4, <3>2
                <4>2. Sheets!Played(a, b + d - 1) = Sheets!Played(a, b) + Sheets!Played(b, b + d - 1)
                    BY <3>2, <4>1, SheetsPlayedSplits
                <4> QED  BY <1>2, <2>5, <3>1, <3>4, <4>2
            <3>7. a + c - 1 = b + d - 1
                BY <2>4, <2>6, <3>2
            <3>8. Sheets!Played(a, a + c) = left.remaining /\ Sheets!Played(a, a + c - 1) = left.remaining - 1
                BY <3>2, <3>5, <3>6, <3>7, Zenon
            <3> QED  BY <3>8 DEF a
        <2> QED  BY <2>6, <2>7, SheetsClosedWhen DEF c
    <1> QED  BY <1>1, <1>2, <1>4, <1>5, <1>6

LEMMA SheetsEveryOffsetCloses ==
    ASSUME SheetsCellsGiven
    PROVE  \A left \in Sheets!Left : SheetsClosed(left)
    <1> DEFINE P == sh_Hour - sh_Break
               Measure(left) == 2 * left.remaining + (IF left.minute >= P THEN 1 ELSE 0)
               T == {n \in Nat : \E left \in Sheets!Left : Measure(left) = n /\ ~SheetsClosed(left)}
    <1>1. P \in Nat \ {0} /\ P <= sh_Hour /\ sh_Hour \in Nat \ {0}
        BY DEF SheetsCellsGiven
    <1>2. \A left \in Sheets!Left : /\ left.remaining \in Nat \ {0} /\ left.minute \in 0..sh_Hour
                                    /\ Measure(left) \in Nat
        BY DEF Sheets!Left
    <1>3. SUFFICES ASSUME T # {}
                   PROVE  FALSE
        BY <1>2
    <1>4. PICK n \in T : \A k \in T : n <= k
        <2>1. T \in SUBSET Nat
            OBVIOUS
        <2> HIDE DEF T
        <2> QED  BY <1>3, <2>1, RateLeastOf
    <1>5. PICK left \in Sheets!Left : Measure(left) = n /\ ~SheetsClosed(left)
        OBVIOUS
    <1>6. \A other \in Sheets!Left : Measure(other) < Measure(left) => SheetsClosed(other)
        <2> SUFFICES ASSUME NEW other \in Sheets!Left, Measure(other) < Measure(left), ~SheetsClosed(other)
                     PROVE  FALSE
            OBVIOUS
        <2>1. Measure(other) \in T
            BY <1>2
        <2>2. n <= Measure(other)
            BY <1>4, <2>1
        <2> HIDE DEF Measure
        <2> QED  BY <1>2, <1>5, <2>2
    <1>7. left.minute >= P => SheetsClosed([remaining |-> left.remaining, minute |-> 0])
        <2> DEFINE next == [remaining |-> left.remaining, minute |-> 0]
        <2>1. next \in Sheets!Left
            BY <1>1, <1>2 DEF Sheets!Left
        <2>2. left.minute >= P => Measure(next) < Measure(left)
            BY <1>1, <1>2
        <2> QED  BY <1>6, <2>1, <2>2
    <1>8. left.minute < P /\ left.remaining > P - left.minute =>
             SheetsClosed([remaining |-> left.remaining - (P - left.minute), minute |-> P])
        <2> SUFFICES ASSUME left.minute < P, left.remaining > P - left.minute
                     PROVE  SheetsClosed([remaining |-> left.remaining - (P - left.minute), minute |-> P])
            OBVIOUS
        <2> DEFINE next == [remaining |-> left.remaining - (P - left.minute), minute |-> P]
        <2>1. next \in Sheets!Left
            BY <1>1, <1>2 DEF Sheets!Left
        <2>2. Measure(next) < Measure(left)
            BY <1>1, <1>2
        <2> QED  BY <1>6, <2>1, <2>2
    <1> QED  BY <1>5, <1>7, <1>8, SheetsClosedByTurn

-----------------------------------------------------------------------------
\* The offset is the one minute at which the levels have just been played.
LEMMA SheetsOneOffsetCloses ==
    ASSUME NEW from \in Nat, NEW net \in Nat, NEW o \in Nat \ {0}, NEW p \in Nat \ {0},
           Sheets!ClosesOnTime(from, o, net), Sheets!ClosesOnTime(from, p, net)
    PROVE  o = p
    <1>1. ASSUME NEW x \in Nat \ {0}, NEW y \in Nat \ {0}, x < y,
                 Sheets!ClosesOnTime(from, x, net), Sheets!ClosesOnTime(from, y, net)
          PROVE  FALSE
        <2>1. PICK b, c \in Nat : b = from + x /\ c = from + y - 1
            BY <1>1
        <2>2. from <= b /\ b <= c
            BY <1>1, <2>1
        <2>3. Sheets!Played(from, b) = net /\ Sheets!Played(from, c) < net
            BY <1>1, <2>1, Zenon DEF Sheets!ClosesOnTime
        <2>4. Sheets!Played(from, b) \in Nat /\ Sheets!Played(from, c) \in Nat /\ Sheets!Played(from, b) <= Sheets!Played(from, c)
            BY <2>2, SheetsPlayedGrows
        <2> QED  BY <2>3, <2>4
    <1> QED  BY <1>1

LEMMA SheetsMinuteOfHour ==
    ASSUME SheetsCellsGiven, NEW at \in Nat
    PROVE  at % sh_Hour \in 0..(sh_Hour - 1) /\ at % sh_Hour \in Nat
    <1>1. sh_Hour \in Nat \ {0}
        BY DEF SheetsCellsGiven
    <1> QED  BY <1>1, Z3

LEMMA SheetsOffsetOfALine ==
    ASSUME SheetsCellsGiven, NEW at \in Nat, NEW levels \in Nat,
           NEW length \in (Nat \ {0}) \cup {None}, length # None, levels # 0
    PROVE  /\ at % sh_Hour \in Nat /\ levels * length \in Nat
           /\ Sheets!late_reg_close_offset(at % sh_Hour, levels, length) \in Nat \ {0}
           /\ Sheets!ClosesOnTime(at % sh_Hour, Sheets!late_reg_close_offset(at % sh_Hour, levels, length), levels * length)
    <1>1. PICK m \in 0..(sh_Hour - 1) : m = at % sh_Hour
        BY SheetsMinuteOfHour
    <1>2. PICK net \in Nat \ {0} : net = levels * length
        <2>1. levels \in Nat \ {0} /\ length \in Nat \ {0}
            OBVIOUS
        <2>2. levels * length \in Nat /\ levels * length # 0
            BY <2>1, Z3
        <2> QED  BY <2>2
    <1> DEFINE left == [remaining |-> net, minute |-> m]
    <1>3. left \in Sheets!Left
        BY DEF Sheets!Left, SheetsCellsGiven
    <1>4. Sheets!late_reg_close_offset(m, levels, length) = Sheets!CloseOffset[left]
        BY <1>2, Zenon DEF Sheets!late_reg_close_offset
    <1>5. PICK c : c = Sheets!CloseOffset[left]
        OBVIOUS
    <1>6. SheetsClosed(left)
        BY <1>3, SheetsEveryOffsetCloses
    <1>7. 0 % sh_Hour = 0
        BY SheetsMinuteOfMidnight DEF SheetsCellsGiven
    <1>8. /\ c \in Nat \ {0}
          /\ Sheets!Played(0 + left.minute, 0 + left.minute + c) = left.remaining
          /\ Sheets!Played(0 + left.minute, 0 + left.minute + c - 1) = left.remaining - 1
        BY <1>5, <1>6, <1>7, SheetsClosedIs
    <1>9. left.minute = m /\ left.remaining = net /\ 0 + m = m
        OBVIOUS
    <1> HIDE DEF left
    <1>10. Sheets!Played(m, m + c) = net /\ Sheets!Played(m, m + c - 1) = net - 1
        BY <1>8, <1>9
    <1>11. Sheets!ClosesOnTime(m, c, net)
        BY <1>10 DEF Sheets!ClosesOnTime
    <1> QED  BY <1>1, <1>2, <1>4, <1>5, <1>8, <1>11

-----------------------------------------------------------------------------
\* A heading of a kind that stands last above a line of its table.
SheetsAbove(h, i, kind) ==
    /\ h \in 1..(i - 1) /\ sh_rows[h].kind = kind
    /\ \A g \in (h + 1)..(i - 1) :
          sh_rows[g].kind # kind /\ (sh_format = "nuts" \/ sh_rows[g].kind # "header")

\* The headers among the first rows.
SheetsHeadersIn(n) == Sheets!Cardinality({h \in 1..n : sh_rows[h].kind = "header"})

\* What the parser remembers is what stands above the next line.
SheetsHeadingsMatch ==
    /\ sh_format = "nuts" /\ sh_weekday # None =>
          \E h \in 1..Len(sh_rows) : SheetsAbove(h, Sheets!Here, "day") /\ sh_rows[h].day = sh_weekday
    /\ sh_format = "prosto" /\ sh_section # None => sh_section \in Nat \ {0} /\ sh_section = SheetsHeadersIn(Len(sh_rows))
    /\ sh_format = "prosto" /\ sh_section # None /\ ~Sheets!Series /\ sh_weekday # None =>
          \E h \in 1..Len(sh_rows) : SheetsAbove(h, Sheets!Here, "day") /\ sh_rows[h].day = sh_weekday
    /\ sh_format = "prosto" /\ Sheets!Series /\ sh_weekday # None =>
          \E h \in 1..Len(sh_rows) : /\ SheetsAbove(h, Sheets!Here, "date") /\ sh_rows[h].day = sh_weekday
                                     /\ sh_one_off = Sheets!nearest_date(sh_rows[h].doy)

\* A line that was entered stands under the heading it needs.
SheetsHeaded(i) ==
    /\ sh_format = "nuts" => Sheets!HeadingAbove(i, "day") \in 1..(i - 1)
    /\ sh_format = "prosto" /\ SheetsHeadersIn(i) > 1 => Sheets!HeadingAbove(i, "date") \in 1..(i - 1)
    /\ sh_format = "prosto" /\ ~(SheetsHeadersIn(i) > 1) => Sheets!HeadingAbove(i, "day") \in 1..(i - 1)

SheetsDraftOf(i) == Sheets!Draft(sh_rows[i], Sheets!Said(i).at, Sheets!Said(i).on, Sheets!Said(i).week)

\* The draft of every line that was entered has its days, no day twice, and
\* no draft has another day.
SheetsLinesEntered ==
    /\ sh_counted \subseteq 1..Len(sh_rows)
    /\ \A i \in sh_counted : sh_rows[i].kind = "line"
    /\ \A i, why : <<i, why>> \in sh_issues => i \in 1..Len(sh_rows)
    /\ \A i \in Sheets!Entered : /\ SheetsHeaded(i) /\ Sheets!Said(i).at \in Nat
                                 /\ SheetsDraftOf(i) \in DOMAIN sh_groups /\ Sheets!Said(i).days \subseteq sh_groups[SheetsDraftOf(i)]
    /\ \A i, j \in Sheets!Entered : i # j /\ SheetsDraftOf(i) = SheetsDraftOf(j) => Sheets!Said(i).days \cap Sheets!Said(j).days = {}
    /\ \A d \in DOMAIN sh_groups : \A day \in sh_groups[d] :
          \E i \in Sheets!Entered : SheetsDraftOf(i) = d /\ day \in Sheets!Said(i).days

SheetsIInv ==
    /\ sh_format \in {"nuts", "prosto", "manual", None}
    /\ sh_rows \in Seq(sh_Rows[sh_format]) /\ (sh_format = None => sh_rows = <<>>)
    /\ sh_outcome = "reading" => SheetsHeadingsMatch
    /\ SheetsLinesEntered

-----------------------------------------------------------------------------
\* A line belongs to its own draft and to no other.
LEMMA SheetsFromItsDraft ==
    ASSUME SheetsCellsGiven, SheetsIInv, NEW i \in Sheets!Entered, NEW j \in Sheets!Entered
    PROVE  Sheets!IsFrom(SheetsDraftOf(j), i) <=> SheetsDraftOf(i) = SheetsDraftOf(j)
    <1>1. \A k \in Sheets!Entered : /\ Sheets!Said(k).at \in Nat /\ sh_rows[k].levels \in Nat
                                    /\ sh_rows[k].length \in (Nat \ {0}) \cup {None}
        <2> SUFFICES ASSUME NEW k \in Sheets!Entered
                     PROVE  /\ Sheets!Said(k).at \in Nat /\ sh_rows[k].levels \in Nat
                            /\ sh_rows[k].length \in (Nat \ {0}) \cup {None}
            OBVIOUS
        <2>1. k \in sh_counted
            BY DEF Sheets!Entered
        <2>2. k \in 1..Len(sh_rows) /\ sh_rows[k].kind = "line" /\ Sheets!Said(k).at \in Nat
            BY <2>1 DEF SheetsIInv, SheetsLinesEntered
        <2>3. sh_rows[k] \in sh_Rows[sh_format]
            BY <2>2 DEF SheetsIInv
        <2>4. sh_format # None
            BY <2>2 DEF SheetsIInv
        <2> QED  BY <2>2, <2>3, <2>4 DEF SheetsCellsGiven, SheetsIInv
    <1> DEFINE Offset(k) == Sheets!late_reg_close_offset(Sheets!Said(k).at % sh_Hour, sh_rows[k].levels, sh_rows[k].length)
               Told(k) == ~(sh_rows[k].length = None \/ sh_rows[k].levels = 0)
    <1>2. \A k \in Sheets!Entered :
             /\ Sheets!Said(k).at % sh_Hour \in Nat /\ sh_rows[k].levels \in Nat
             /\ ~Told(k) => Offset(k) = None
             /\ Told(k) => /\ sh_rows[k].levels * sh_rows[k].length \in Nat /\ Offset(k) \in Nat \ {0}
                           /\ Sheets!ClosesOnTime(Sheets!Said(k).at % sh_Hour, Offset(k), sh_rows[k].levels * sh_rows[k].length)
        <2> SUFFICES ASSUME NEW k \in Sheets!Entered
                     PROVE  /\ Sheets!Said(k).at % sh_Hour \in Nat
                            /\ ~Told(k) => Offset(k) = None
                            /\ Told(k) => /\ sh_rows[k].levels * sh_rows[k].length \in Nat
                                          /\ Offset(k) \in Nat \ {0}
                                          /\ Sheets!ClosesOnTime(Sheets!Said(k).at % sh_Hour, Offset(k),
                                                                 sh_rows[k].levels * sh_rows[k].length)
            BY <1>1
        <2>1. PICK at \in Nat : at = Sheets!Said(k).at
            BY <1>1
        <2>2. Sheets!Said(k).at % sh_Hour \in Nat
            BY <2>1, SheetsMinuteOfHour
        <2>3. ~Told(k) => Offset(k) = None
            BY Zenon DEF Sheets!late_reg_close_offset
        <2>4. Told(k) => /\ sh_rows[k].levels * sh_rows[k].length \in Nat
                         /\ Offset(k) \in Nat \ {0}
                         /\ Sheets!ClosesOnTime(Sheets!Said(k).at % sh_Hour, Offset(k),
                                                sh_rows[k].levels * sh_rows[k].length)
            BY <1>1, SheetsOffsetOfALine, Zenon
        <2> QED  BY <2>2, <2>3, <2>4
    <1>3. \A k \in {i, j} :
             SheetsDraftOf(k) = [name |-> sh_rows[k].name, start_time |-> Sheets!Said(k).at, buyin |-> sh_rows[k].buyin,
                                 valid_from |-> Sheets!Said(k).on, month_week |-> Sheets!Said(k).week,
                                 offset |-> Offset(k), satellite_target |-> Sheets!satellite_target(sh_rows[k].name)]
        BY Zenon DEF SheetsDraftOf, Sheets!Draft
    <1> HIDE DEF Offset
    <1>4. PICK d : d = SheetsDraftOf(j)
        OBVIOUS
    <1>5. /\ d.name = sh_rows[j].name /\ d.start_time = Sheets!Said(j).at /\ d.buyin = sh_rows[j].buyin
          /\ d.valid_from = Sheets!Said(j).on /\ d.month_week = Sheets!Said(j).week /\ d.offset = Offset(j)
        BY <1>3, <1>4
    <1>6. ASSUME SheetsDraftOf(i) = d
          PROVE  Sheets!IsFrom(d, i)
        <2>1. /\ d.name = sh_rows[i].name /\ d.start_time = Sheets!Said(i).at /\ d.buyin = sh_rows[i].buyin
              /\ d.valid_from = Sheets!Said(i).on /\ d.month_week = Sheets!Said(i).week /\ d.offset = Offset(i)
            BY <1>3, <1>6
        <2>2. Told(i) => Offset(i) # None
            BY <1>2 DEF SheetsCellsGiven
        <2> QED  BY <1>2, <2>1, <2>2, Zenon DEF Sheets!IsFrom
    <1>7. ASSUME Sheets!IsFrom(d, i)
          PROVE  SheetsDraftOf(i) = d
        <2>1. /\ d.name = sh_rows[i].name /\ d.buyin = sh_rows[i].buyin
              /\ d.start_time = Sheets!Said(i).at /\ d.valid_from = Sheets!Said(i).on /\ d.month_week = Sheets!Said(i).week
            BY <1>7 DEF Sheets!IsFrom
        <2>2. Offset(i) = Offset(j)
            <3>1. CASE ~Told(i)
                <4>1. d.offset = None
                    BY <1>7, <3>1, Zenon DEF Sheets!IsFrom
                <4> QED  BY <1>2, <1>5, <3>1, <4>1
            <3>2. CASE Told(i)
                <4>1. d.offset # None
                      /\ Sheets!ClosesOnTime(d.start_time % sh_Hour, d.offset, sh_rows[i].levels * sh_rows[i].length)
                    BY <1>7, <3>2, Zenon DEF Sheets!IsFrom
                <4>2. Offset(j) # None
                      /\ Sheets!ClosesOnTime(Sheets!Said(i).at % sh_Hour, Offset(j), sh_rows[i].levels * sh_rows[i].length)
                    BY <1>5, <2>1, <4>1, Zenon
                <4>3. Offset(j) \in Nat \ {0}
                    BY <1>2, <4>2
                <4> HIDE DEF Told
                <4>4. /\ Sheets!Said(i).at % sh_Hour \in Nat /\ sh_rows[i].levels * sh_rows[i].length \in Nat
                      /\ Offset(i) \in Nat \ {0}
                      /\ Sheets!ClosesOnTime(Sheets!Said(i).at % sh_Hour, Offset(i), sh_rows[i].levels * sh_rows[i].length)
                    BY <1>2, <3>2, Zenon
                <4> QED  BY <4>2, <4>3, <4>4, SheetsOneOffsetCloses, Zenon
            <3> QED  BY <3>1, <3>2
        <2>3. /\ sh_rows[i].name = sh_rows[j].name /\ sh_rows[i].buyin = sh_rows[j].buyin /\ Sheets!Said(i).at = Sheets!Said(j).at
              /\ Sheets!Said(i).on = Sheets!Said(j).on /\ Sheets!Said(i).week = Sheets!Said(j).week
            BY <1>5, <2>1
        <2>4. SheetsDraftOf(i) = SheetsDraftOf(j)
            BY <1>3, <2>2, <2>3, Zenon
        <2> QED  BY <1>4, <2>4
    <1> QED  BY <1>4, <1>6, <1>7

LEMMA SheetsAccountedFor == ASSUME SheetsCellsGiven, SheetsIInv PROVE Sheets!RowsAreAccounted
    <1>1. ASSUME NEW i \in Sheets!Entered
          PROVE  \E d \in DOMAIN sh_groups : Sheets!IsFrom(d, i) /\ Sheets!Said(i).days \subseteq sh_groups[d]
        <2>1. SheetsDraftOf(i) \in DOMAIN sh_groups /\ Sheets!Said(i).days \subseteq sh_groups[SheetsDraftOf(i)]
            BY DEF SheetsIInv, SheetsLinesEntered
        <2> QED  BY <2>1, SheetsFromItsDraft
    <1>2. ASSUME NEW d \in DOMAIN sh_groups, NEW day \in sh_groups[d]
          PROVE  Sheets!Cardinality({i \in Sheets!Entered : Sheets!IsFrom(d, i) /\ day \in Sheets!Said(i).days}) = 1
        <2>1. PICK j \in Sheets!Entered : SheetsDraftOf(j) = d /\ day \in Sheets!Said(j).days
            BY DEF SheetsIInv, SheetsLinesEntered
        <2>2. \A i \in Sheets!Entered : Sheets!IsFrom(d, i) <=> SheetsDraftOf(i) = d
            BY <2>1, SheetsFromItsDraft
        <2>3. ASSUME NEW i \in Sheets!Entered, SheetsDraftOf(i) = d, day \in Sheets!Said(i).days
              PROVE  i = j
            BY <2>1, <2>3 DEF SheetsIInv, SheetsLinesEntered
        <2>4. {i \in Sheets!Entered : Sheets!IsFrom(d, i) /\ day \in Sheets!Said(i).days} = {j}
            BY <2>1, <2>2, <2>3
        <2> QED  BY <2>4, SheetsCount, FS_Singleton
    <1> QED  BY <1>1, <1>2 DEF Sheets!RowsAreAccounted

-----------------------------------------------------------------------------
\* Another row leaves what the earlier ones say.
LEMMA SheetsRowsGrow ==
    ASSUME SheetsIInv, NEW row \in sh_Rows[sh_format], sh_rows' = Append(sh_rows, row), sh_format' = sh_format
    PROVE  /\ Len(sh_rows) \in Nat /\ Len(sh_rows') = Len(sh_rows) + 1 /\ Sheets!Here = Len(sh_rows) + 1
           /\ \A i \in 1..Len(sh_rows) : sh_rows'[i] = sh_rows[i]
           /\ sh_rows'[Sheets!Here] = row
           /\ sh_rows' \in Seq(sh_Rows[sh_format'])
    BY DEF SheetsIInv, Sheets!Here

LEMMA SheetsHeadingsStay ==
    ASSUME SheetsIInv, NEW row \in sh_Rows[sh_format], sh_rows' = Append(sh_rows, row), sh_format' = sh_format,
           NEW i \in 1..Sheets!Here, NEW kind
    PROVE  Sheets!HeadingAbove(i, kind)' = Sheets!HeadingAbove(i, kind)
    <1>1. \A h \in 1..(i - 1) : sh_rows'[h] = sh_rows[h]
        BY SheetsRowsGrow
    <1>2. i \in Nat
        BY SheetsRowsGrow
    <1> DEFINE H == {h \in 1..(i - 1) : sh_rows[h].kind = "header"}
    <1>3. {h \in 1..(i - 1) : sh_rows'[h].kind = "header"} = H
        BY <1>1
    <1>4. PICK top : top = IF sh_format = "nuts" THEN 0 ELSE Sheets!Latest(H)
        OBVIOUS
    <1>5. {h \in top..(i - 1) : h > 0 /\ sh_rows'[h].kind = kind}
          = {h \in top..(i - 1) : h > 0 /\ sh_rows[h].kind = kind}
        <2>1. ASSUME NEW h \in top..(i - 1), h > 0
              PROVE  h \in 1..(i - 1)
            BY <1>2, <2>1
        <2> QED  BY <1>1, <2>1
    <1>6. Sheets!HeadingAbove(i, kind) = Sheets!Latest({h \in top..(i - 1) : h > 0 /\ sh_rows[h].kind = kind})
        BY <1>4, Zenon DEF Sheets!HeadingAbove
    <1>7. Sheets!HeadingAbove(i, kind)' = Sheets!Latest({h \in top..(i - 1) : h > 0 /\ sh_rows'[h].kind = kind})
        <2>1. top = IF sh_format' = "nuts" THEN 0
                    ELSE Sheets!Latest({h \in 1..(i - 1) : sh_rows'[h].kind = "header"})
            BY <1>3, <1>4
        <2> QED  BY <2>1, Zenon DEF Sheets!HeadingAbove
    <1> QED  BY <1>5, <1>6, <1>7

LEMMA SheetsSaidStays ==
    ASSUME SheetsIInv, NEW row \in sh_Rows[sh_format], sh_rows' = Append(sh_rows, row), sh_format' = sh_format,
           NEW i \in 1..Len(sh_rows), SheetsHeaded(i)
    PROVE  Sheets!Said(i)' = Sheets!Said(i) /\ SheetsDraftOf(i)' = SheetsDraftOf(i) /\ SheetsHeaded(i)' /\ sh_rows'[i] = sh_rows[i]
    <1>1. i \in 1..Sheets!Here /\ sh_rows'[i] = sh_rows[i] /\ i \in Nat
        BY SheetsRowsGrow
    <1>2. \A kind : Sheets!HeadingAbove(i, kind)' = Sheets!HeadingAbove(i, kind)
        BY <1>1, SheetsHeadingsStay
    <1>3. SheetsHeadersIn(i)' = SheetsHeadersIn(i)
        <2>1. {h \in 1..i : sh_rows'[h].kind = "header"} = {h \in 1..i : sh_rows[h].kind = "header"}
            BY <1>1, SheetsRowsGrow
        <2> QED  BY <2>1 DEF SheetsHeadersIn
    <1>4. PICK c : c = SheetsHeadersIn(i)
        OBVIOUS
    <1>5. PICK day, date : day = Sheets!HeadingAbove(i, "day") /\ date = Sheets!HeadingAbove(i, "date")
        OBVIOUS
    <1>6. Sheets!HeadingAbove(i, "day")' = day /\ Sheets!HeadingAbove(i, "date")' = date /\ SheetsHeadersIn(i)' = c
        BY <1>2, <1>3, <1>4, <1>5
    <1>7. /\ sh_format = "nuts" => day \in 1..(i - 1)
          /\ sh_format = "prosto" /\ c > 1 => date \in 1..(i - 1)
          /\ sh_format = "prosto" /\ ~(c > 1) => day \in 1..(i - 1)
        BY <1>4, <1>5 DEF SheetsHeaded
    <1>8. \A h \in 1..(i - 1) : sh_rows'[h] = sh_rows[h]
        BY <1>1, SheetsRowsGrow
    <1>9. Sheets!Said(i)' = Sheets!Said(i)
        <2>1. CASE sh_format = "nuts"
            <3>1. sh_rows'[day] = sh_rows[day]
                BY <1>7, <1>8, <2>1
            <3> QED  BY <1>1, <1>5, <1>6, <2>1, <3>1 DEF Sheets!Said
        <2>2. CASE sh_format = "prosto" /\ c > 1
            <3>1. sh_rows'[date] = sh_rows[date]
                BY <1>7, <1>8, <2>2
            <3> QED  BY <1>1, <1>4, <1>5, <1>6, <2>2, <3>1 DEF Sheets!Said, SheetsHeadersIn
        <2>3. CASE sh_format = "prosto" /\ ~(c > 1)
            <3>1. sh_rows'[day] = sh_rows[day]
                BY <1>7, <1>8, <2>3
            <3> QED  BY <1>1, <1>4, <1>5, <1>6, <2>3, <3>1 DEF Sheets!Said, SheetsHeadersIn
        <2>4. CASE sh_format \notin {"nuts", "prosto"}
            BY <1>1, <2>4 DEF Sheets!Said
        <2> QED  BY <2>1, <2>2, <2>3, <2>4
    <1>10. SheetsHeaded(i)'
        BY <1>4, <1>5, <1>6, <1>7 DEF SheetsHeaded
    <1> QED  BY <1>1, <1>9, <1>10, Zenon DEF SheetsDraftOf

\* The heading that stands last above a line is the one it is read by.
LEMMA SheetsAboveIsRead ==
    ASSUME NEW i \in Nat, NEW kind, kind # "header", NEW h, SheetsAbove(h, i, kind)
    PROVE  Sheets!HeadingAbove(i, kind) = h
    <1>1. \A S : \A m \in S : S \subseteq Int /\ (\A k \in S : m >= k) => Sheets!Latest(S) = m
        <2> SUFFICES ASSUME NEW S, NEW m \in S, S \subseteq Int, \A k \in S : m >= k
                     PROVE  Sheets!Latest(S) = m
            OBVIOUS
        <2>1. \A x \in S : (\A y \in S : x >= y) => x = m
            OBVIOUS
        <2>2. Sheets!Max(S) = m
            BY <2>1 DEF Sheets!Max
        <2> QED  BY <2>2 DEF Sheets!Latest
    <1> DEFINE H == {g \in 1..(i - 1) : sh_rows[g].kind = "header"}
               top == IF sh_format = "nuts" THEN 0 ELSE Sheets!Latest(H)
               S == {g \in top..(i - 1) : g > 0 /\ sh_rows[g].kind = kind}
    <1>2. h \in 1..(i - 1) /\ sh_rows[h].kind = kind /\ h \in Int
        BY DEF SheetsAbove
    <1>3. top \in Int /\ top <= h
        <2>1. CASE sh_format = "nuts" \/ H = {}
            BY <1>2, <2>1 DEF Sheets!Latest
        <2>2. CASE sh_format # "nuts" /\ H # {}
            <3>1. i - 1 \in Nat /\ H \in SUBSET (1..(i - 1)) /\ H \subseteq Int
                BY <1>2
            <3>2. \A g \in H : g \in Int /\ g <= h
                <4> SUFFICES ASSUME NEW g \in H, g > h
                             PROVE  FALSE
                    BY <1>2
                <4>1. g \in (h + 1)..(i - 1)
                    BY <1>2
                <4> QED  BY <2>2, <4>1 DEF SheetsAbove
            <3>3. PICK m \in H : \A g \in H : m >= g
                BY <2>2, <3>1, SheetsLatestExists, Zenon
            <3>4. Sheets!Latest(H) = m
                BY <1>1, <3>1, <3>3
            <3> QED  BY <2>2, <3>2, <3>4
        <2> QED  BY <2>1, <2>2
    <1> HIDE DEF top
    <1>4. h \in S /\ S \subseteq Int
        BY <1>2, <1>3
    <1>5. \A g \in S : h >= g
        <2> SUFFICES ASSUME NEW g \in S, g > h
                     PROVE  FALSE
            BY <1>2, <1>4
        <2>1. g \in (h + 1)..(i - 1)
            BY <1>2, <1>3
        <2> QED  BY <2>1 DEF SheetsAbove
    <1>6. Sheets!Latest(S) = h
        <2> HIDE DEF S
        <2> QED  BY <1>1, <1>4, <1>5
    <1>7. Sheets!HeadingAbove(i, kind) = Sheets!Latest(S)
        BY Zenon DEF Sheets!HeadingAbove, top
    <1> QED  BY <1>6, <1>7

-----------------------------------------------------------------------------
\* A row that is no heading of its table leaves the one above the next line.
LEMMA SheetsHeadingPassed ==
    ASSUME SheetsIInv, NEW row \in sh_Rows[sh_format], sh_rows' = Append(sh_rows, row), sh_format' = sh_format,
           NEW kind, row.kind # kind, sh_format = "nuts" \/ row.kind # "header",
           NEW h \in 1..Len(sh_rows), SheetsAbove(h, Sheets!Here, kind)
    PROVE  h \in 1..Len(sh_rows') /\ SheetsAbove(h, Sheets!Here, kind)' /\ sh_rows'[h] = sh_rows[h]
    <1>1. PICK n \in Nat : n = Len(sh_rows)
        BY SheetsRowsGrow
    <1>2. Sheets!Here = n + 1 /\ Sheets!Here' = n + 2 /\ Len(sh_rows') = n + 1
        BY <1>1, SheetsRowsGrow DEF Sheets!Here
    <1>3. \A i \in 1..n : sh_rows'[i] = sh_rows[i]
        BY <1>1, SheetsRowsGrow
    <1>4. sh_rows'[n + 1] = row
        BY <1>2, SheetsRowsGrow
    <1>5. \A g \in (h + 1)..n : sh_rows[g].kind # kind /\ (sh_format = "nuts" \/ sh_rows[g].kind # "header")
        BY <1>2 DEF SheetsAbove
    <1>6. sh_rows[h].kind = kind
        BY DEF SheetsAbove
    <1>7. \A g \in (h + 1)..(Sheets!Here' - 1) :
             sh_rows'[g].kind # kind /\ (sh_format' = "nuts" \/ sh_rows'[g].kind # "header")
        <2> TAKE g \in (h + 1)..(Sheets!Here' - 1)
        <2>1. (g \in (h + 1)..n /\ g \in 1..n) \/ g = n + 1
            BY <1>1, <1>2
        <2> QED  BY <1>3, <1>4, <1>5, <2>1
    <1> QED  BY <1>1, <1>2, <1>3, <1>6, <1>7 DEF SheetsAbove

\* A heading stands above the next line.
LEMMA SheetsHeadingRead ==
    ASSUME SheetsIInv, NEW row \in sh_Rows[sh_format], sh_rows' = Append(sh_rows, row), sh_format' = sh_format
    PROVE  \E h \in 1..Len(sh_rows') : sh_rows'[h] = row /\ SheetsAbove(h, Sheets!Here, row.kind)'
    <1>1. PICK n \in Nat : n = Len(sh_rows)
        BY SheetsRowsGrow
    <1>2. Sheets!Here = n + 1 /\ Sheets!Here' = n + 2 /\ Len(sh_rows') = n + 1 /\ sh_rows'[n + 1] = row
        BY <1>1, SheetsRowsGrow DEF Sheets!Here
    <1>3. SheetsAbove(n + 1, Sheets!Here, row.kind)'
        BY <1>2 DEF SheetsAbove
    <1>4. n + 1 \in 1..Len(sh_rows')
        BY <1>2
    <1> QED  BY <1>2, <1>3, <1>4

\* Lines and rows that are skipped change nothing that is remembered.
LEMMA SheetsHeadingsPass ==
    ASSUME SheetsIInv, SheetsHeadingsMatch, NEW row \in sh_Rows[sh_format], sh_rows' = Append(sh_rows, row),
           UNCHANGED <<sh_format, sh_weekday>>,
           sh_format = "nuts" => row.kind # "day",
           sh_format = "prosto" => /\ UNCHANGED <<sh_section, sh_one_off>> /\ row.kind # "header"
                                   /\ row.kind = "day" => sh_section = None \/ Sheets!Series
                                   /\ row.kind = "date" => ~Sheets!Series
    PROVE  SheetsHeadingsMatch'
    <1>1. ASSUME sh_format = "nuts", sh_weekday # None
          PROVE  \E h \in 1..Len(sh_rows') : SheetsAbove(h, Sheets!Here, "day")' /\ sh_rows'[h].day = sh_weekday
        <2>1. PICK h \in 1..Len(sh_rows) : SheetsAbove(h, Sheets!Here, "day") /\ sh_rows[h].day = sh_weekday
            BY <1>1 DEF SheetsHeadingsMatch
        <2> QED  BY <1>1, <2>1, SheetsHeadingPassed
    <1>2. ASSUME sh_format = "prosto", sh_section # None
          PROVE  sh_section \in Nat \ {0} /\ sh_section = SheetsHeadersIn(Len(sh_rows))'
        <2>1. sh_section \in Nat \ {0} /\ sh_section = SheetsHeadersIn(Len(sh_rows))
            BY <1>2 DEF SheetsHeadingsMatch
        <2>2. {h \in 1..Len(sh_rows') : sh_rows'[h].kind = "header"}
              = {h \in 1..Len(sh_rows) : sh_rows[h].kind = "header"}
            BY <1>2, SheetsRowsGrow
        <2> QED  BY <2>1, <2>2 DEF SheetsHeadersIn
    <1>3. ASSUME sh_format = "prosto", sh_section # None, ~Sheets!Series, sh_weekday # None
          PROVE  \E h \in 1..Len(sh_rows') : SheetsAbove(h, Sheets!Here, "day")' /\ sh_rows'[h].day = sh_weekday
        <2>1. PICK h \in 1..Len(sh_rows) : SheetsAbove(h, Sheets!Here, "day") /\ sh_rows[h].day = sh_weekday
            BY <1>3 DEF SheetsHeadingsMatch
        <2>2. row.kind # "day" /\ row.kind # "header"
            BY <1>3
        <2> QED  BY <1>3, <2>1, <2>2, SheetsHeadingPassed
    <1>4. ASSUME sh_format = "prosto", Sheets!Series, sh_weekday # None
          PROVE  \E h \in 1..Len(sh_rows') : /\ SheetsAbove(h, Sheets!Here, "date")' /\ sh_rows'[h].day = sh_weekday
                                             /\ sh_one_off = Sheets!nearest_date(sh_rows'[h].doy)
        <2>1. PICK h \in 1..Len(sh_rows) : /\ SheetsAbove(h, Sheets!Here, "date") /\ sh_rows[h].day = sh_weekday
                                           /\ sh_one_off = Sheets!nearest_date(sh_rows[h].doy)
            BY <1>4 DEF SheetsHeadingsMatch
        <2>2. row.kind # "date" /\ row.kind # "header"
            BY <1>4
        <2>3. h \in 1..Len(sh_rows') /\ SheetsAbove(h, Sheets!Here, "date")' /\ sh_rows'[h] = sh_rows[h]
            BY <1>4, <2>1, <2>2, SheetsHeadingPassed
        <2> QED  BY <2>1, <2>3
    <1>5. Sheets!Series' = Sheets!Series \/ sh_format # "prosto"
        BY DEF Sheets!Series
    <1> QED  BY <1>1, <1>2, <1>3, <1>4, <1>5 DEF SheetsHeadingsMatch

-----------------------------------------------------------------------------
\* What a row does to the lines entered before it: nothing is counted, ...
LEMMA SheetsNothingCounted ==
    ASSUME SheetsIInv, NEW row \in sh_Rows[sh_format], sh_rows' = Append(sh_rows, row),
           UNCHANGED <<sh_format, sh_groups, sh_issues, sh_counted>>
    PROVE  SheetsLinesEntered'
    <1>1. PICK n \in Nat : n = Len(sh_rows)
        BY SheetsRowsGrow
    <1>2. Len(sh_rows') = n + 1 /\ (\A i \in 1..n : sh_rows'[i] = sh_rows[i])
        BY <1>1, SheetsRowsGrow
    <1>3. Sheets!Entered' = Sheets!Entered
        BY DEF Sheets!Entered
    <1>4. \A i \in Sheets!Entered : i \in 1..n /\ SheetsHeaded(i)
        BY <1>1 DEF SheetsIInv, SheetsLinesEntered, Sheets!Entered
    <1>5. \A i \in Sheets!Entered : Sheets!Said(i)' = Sheets!Said(i) /\ SheetsDraftOf(i)' = SheetsDraftOf(i) /\ SheetsHeaded(i)'
        BY <1>1, <1>4, SheetsSaidStays
    <1>6. /\ sh_counted' \subseteq 1..Len(sh_rows')
          /\ \A i \in sh_counted' : sh_rows'[i].kind = "line"
          /\ \A i, why : <<i, why>> \in sh_issues' => i \in 1..Len(sh_rows')
        <2>1. sh_counted \subseteq 1..n /\ (\A i \in sh_counted : sh_rows[i].kind = "line")
              /\ (\A i, why : <<i, why>> \in sh_issues => i \in 1..n)
            BY <1>1 DEF SheetsIInv, SheetsLinesEntered
        <2>2. \A i \in 1..n : i \in 1..Len(sh_rows') /\ sh_rows'[i] = sh_rows[i]
            BY <1>2
        <2>3. \A i, why : <<i, why>> \in sh_issues' => i \in 1..Len(sh_rows')
            BY <2>1, <2>2
        <2> QED  BY <2>1, <2>2, <2>3
    <1>7. \A i \in Sheets!Entered' : /\ SheetsHeaded(i)' /\ Sheets!Said(i)'.at \in Nat
                                     /\ SheetsDraftOf(i)' \in DOMAIN sh_groups' /\ Sheets!Said(i)'.days \subseteq sh_groups'[SheetsDraftOf(i)']
        BY <1>3, <1>5 DEF SheetsIInv, SheetsLinesEntered
    <1>8. \A i, j \in Sheets!Entered' : i # j /\ SheetsDraftOf(i)' = SheetsDraftOf(j)' => Sheets!Said(i)'.days \cap Sheets!Said(j)'.days = {}
        BY <1>3, <1>5 DEF SheetsIInv, SheetsLinesEntered
    <1>9. \A d \in DOMAIN sh_groups' : \A day \in sh_groups'[d] :
             \E i \in Sheets!Entered' : SheetsDraftOf(i)' = d /\ day \in Sheets!Said(i)'.days
        BY <1>3, <1>5 DEF SheetsIInv, SheetsLinesEntered
    <1> QED  BY <1>6, <1>7, <1>8, <1>9 DEF SheetsLinesEntered

\* ... a line is reported, ...
LEMMA SheetsLineRejected ==
    ASSUME SheetsIInv, NEW row \in sh_Rows[sh_format], row.kind = "line", sh_rows' = Append(sh_rows, row),
           UNCHANGED <<sh_format, sh_groups>>, sh_counted' = sh_counted \cup {Sheets!Here},
           NEW reports, sh_issues' = sh_issues \cup reports,
           \A i, why : <<i, why>> \in reports => i = Sheets!Here,
           \E why \in Sheets!Rejecting : <<Sheets!Here, why>> \in reports
    PROVE  SheetsLinesEntered'
    <1>1. PICK n \in Nat : n = Len(sh_rows)
        BY SheetsRowsGrow
    <1>2. Sheets!Here = n + 1 /\ Len(sh_rows') = n + 1 /\ (\A i \in 1..n : sh_rows'[i] = sh_rows[i]) /\ sh_rows'[n + 1] = row
        BY <1>1, SheetsRowsGrow
    <1>3. sh_counted \subseteq 1..n /\ (\A i, why : <<i, why>> \in sh_issues => i \in 1..n)
        BY <1>1 DEF SheetsIInv, SheetsLinesEntered
    <1>4. Sheets!Entered' = Sheets!Entered
        <2>1. ASSUME NEW i \in 1..n, NEW why
              PROVE  <<i, why>> \in sh_issues' <=> <<i, why>> \in sh_issues
            <3>1. i # Sheets!Here
                BY <1>2
            <3>2. <<i, why>> \notin reports
                BY <3>1, Zenon
            <3> QED  BY <3>2
        <2>2. \E why \in Sheets!Rejecting : <<n + 1, why>> \in sh_issues'
            BY <1>2
        <2>3. sh_counted' = sh_counted \cup {n + 1}
            BY <1>2
        <2> QED  BY <1>3, <2>1, <2>2, <2>3 DEF Sheets!Entered
    <1>5. \A i \in Sheets!Entered : i \in 1..n /\ SheetsHeaded(i)
        BY <1>3 DEF SheetsIInv, SheetsLinesEntered, Sheets!Entered
    <1>6. \A i \in Sheets!Entered : Sheets!Said(i)' = Sheets!Said(i) /\ SheetsDraftOf(i)' = SheetsDraftOf(i) /\ SheetsHeaded(i)'
        BY <1>1, <1>5, SheetsSaidStays
    <1>7. /\ sh_counted' \subseteq 1..Len(sh_rows')
          /\ \A i, why : <<i, why>> \in sh_issues' => i \in 1..Len(sh_rows')
        <2>1. Sheets!Here \in 1..Len(sh_rows') /\ sh_counted \subseteq 1..Len(sh_rows')
              /\ (\A i, why : <<i, why>> \in sh_issues => i \in 1..Len(sh_rows'))
            BY <1>2, <1>3
        <2>2. ASSUME NEW i, NEW why, <<i, why>> \in sh_issues'
              PROVE  i \in 1..Len(sh_rows')
            <3>1. CASE <<i, why>> \in sh_issues
                BY <2>1, <3>1, Zenon
            <3>2. CASE <<i, why>> \in reports
                <4>1. i = Sheets!Here
                    BY <3>2, Zenon
                <4> QED  BY <2>1, <4>1, Zenon
            <3> QED  BY <2>2, <3>1, <3>2
        <2> QED  BY <2>1, <2>2
    <1>8. \A i \in sh_counted' : sh_rows'[i].kind = "line"
        <2>1. \A i \in sh_counted : i \in 1..n /\ sh_rows[i].kind = "line"
            BY <1>3 DEF SheetsIInv, SheetsLinesEntered
        <2> QED  BY <1>2, <2>1
    <1>9. \A i \in Sheets!Entered' : /\ SheetsHeaded(i)' /\ Sheets!Said(i)'.at \in Nat
                                     /\ SheetsDraftOf(i)' \in DOMAIN sh_groups' /\ Sheets!Said(i)'.days \subseteq sh_groups'[SheetsDraftOf(i)']
        BY <1>4, <1>6 DEF SheetsIInv, SheetsLinesEntered
    <1>10. \A i, j \in Sheets!Entered' : i # j /\ SheetsDraftOf(i)' = SheetsDraftOf(j)' => Sheets!Said(i)'.days \cap Sheets!Said(j)'.days = {}
        BY <1>4, <1>6 DEF SheetsIInv, SheetsLinesEntered
    <1>11. \A d \in DOMAIN sh_groups' : \A day \in sh_groups'[d] :
             \E i \in Sheets!Entered' : SheetsDraftOf(i)' = d /\ day \in Sheets!Said(i)'.days
        BY <1>4, <1>6 DEF SheetsIInv, SheetsLinesEntered
    <1> QED  BY <1>7, <1>8, <1>9, <1>10, <1>11 DEF SheetsLinesEntered

\* ... or it is entered, under the draft that is its own.
LEMMA SheetsLineEntered ==
    ASSUME SheetsIInv, NEW row \in sh_Rows[sh_format], row.kind = "line", sh_rows' = Append(sh_rows, row),
           UNCHANGED sh_format, sh_counted' = sh_counted \cup {Sheets!Here},
           NEW reports, sh_issues' = sh_issues \cup reports,
           \A i, why : <<i, why>> \in reports => i = Sheets!Here /\ why \notin Sheets!Rejecting,
           NEW n, n = Sheets!Here, NEW draft, draft = SheetsDraftOf(n)', NEW days, days = Sheets!Said(n)'.days,
           SheetsHeaded(n)', Sheets!Said(n)'.at \in Nat,
           NEW known, known = IF draft \in DOMAIN sh_groups THEN sh_groups[draft] ELSE {},
           known \cap days = {},
           sh_groups' = [d \in DOMAIN sh_groups \cup {draft} |-> IF d = draft THEN known \cup days ELSE sh_groups[d]]
    PROVE  SheetsLinesEntered'
    <1>1. PICK l \in Nat : l = Len(sh_rows)
        BY SheetsRowsGrow
    <1>2. n = l + 1 /\ Len(sh_rows') = l + 1 /\ (\A i \in 1..l : sh_rows'[i] = sh_rows[i]) /\ sh_rows'[n] = row
        BY <1>1, SheetsRowsGrow
    <1>3. sh_counted \subseteq 1..l /\ (\A i, why : <<i, why>> \in sh_issues => i \in 1..l)
        BY <1>1 DEF SheetsIInv, SheetsLinesEntered
    <1>4. Sheets!Entered' = Sheets!Entered \cup {n} /\ n \notin Sheets!Entered
        <2>1. ASSUME NEW i \in 1..l, NEW why
              PROVE  <<i, why>> \in sh_issues' <=> <<i, why>> \in sh_issues
            <3>1. i # Sheets!Here
                BY <1>2
            <3>2. <<i, why>> \notin reports
                BY <3>1, Zenon
            <3> QED  BY <3>2
        <2>2. ASSUME NEW why \in Sheets!Rejecting
              PROVE  <<n, why>> \notin sh_issues'
            <3>1. <<n, why>> \notin reports
                BY Zenon
            <3>2. n \notin 1..l
                BY <1>2
            <3>3. <<n, why>> \notin sh_issues
                BY <1>3, <3>2, Zenon
            <3> QED  BY <3>1, <3>3
        <2>3. n \notin sh_counted /\ sh_counted' = sh_counted \cup {n}
            BY <1>2, <1>3
        <2>4. n \in Sheets!Entered' /\ n \notin Sheets!Entered
            BY <2>2, <2>3 DEF Sheets!Entered
        <2>5. \A i \in sh_counted : i \in Sheets!Entered' <=> i \in Sheets!Entered
            BY <1>3, <2>1, <2>3 DEF Sheets!Entered
        <2> QED  BY <2>3, <2>4, <2>5 DEF Sheets!Entered
    <1>5. \A i \in Sheets!Entered : i \in 1..l /\ SheetsHeaded(i)
        BY <1>3 DEF SheetsIInv, SheetsLinesEntered, Sheets!Entered
    <1>6. \A i \in Sheets!Entered : Sheets!Said(i)' = Sheets!Said(i) /\ SheetsDraftOf(i)' = SheetsDraftOf(i) /\ SheetsHeaded(i)'
        BY <1>1, <1>5, SheetsSaidStays
    <1>7. /\ sh_counted' \subseteq 1..Len(sh_rows')
          /\ \A i, why : <<i, why>> \in sh_issues' => i \in 1..Len(sh_rows')
        <2>1. Sheets!Here \in 1..Len(sh_rows') /\ sh_counted \subseteq 1..Len(sh_rows')
              /\ (\A i, why : <<i, why>> \in sh_issues => i \in 1..Len(sh_rows'))
            BY <1>2, <1>3
        <2>2. ASSUME NEW i, NEW why, <<i, why>> \in sh_issues'
              PROVE  i \in 1..Len(sh_rows')
            <3>1. CASE <<i, why>> \in sh_issues
                BY <2>1, <3>1, Zenon
            <3>2. CASE <<i, why>> \in reports
                <4>1. i = Sheets!Here
                    BY <3>2, Zenon
                <4> QED  BY <2>1, <4>1, Zenon
            <3> QED  BY <2>2, <3>1, <3>2
        <2> QED  BY <2>1, <2>2
    <1>8. \A i \in sh_counted' : sh_rows'[i].kind = "line"
        <2>1. \A i \in sh_counted : i \in 1..l /\ sh_rows[i].kind = "line"
            BY <1>3 DEF SheetsIInv, SheetsLinesEntered
        <2> QED  BY <1>2, <2>1
    <1>9. /\ DOMAIN sh_groups' = DOMAIN sh_groups \cup {draft} /\ sh_groups'[draft] = known \cup days
          /\ \A d \in DOMAIN sh_groups : sh_groups[d] \subseteq sh_groups'[d]
          /\ \A d \in DOMAIN sh_groups : d # draft => sh_groups'[d] = sh_groups[d]
        OBVIOUS
    <1>10. \A i \in Sheets!Entered : /\ Sheets!Said(i).at \in Nat
                                     /\ SheetsDraftOf(i) \in DOMAIN sh_groups /\ Sheets!Said(i).days \subseteq sh_groups[SheetsDraftOf(i)]
        BY DEF SheetsIInv, SheetsLinesEntered
    <1>11. \A i \in Sheets!Entered' : /\ SheetsHeaded(i)' /\ Sheets!Said(i)'.at \in Nat
                                      /\ SheetsDraftOf(i)' \in DOMAIN sh_groups' /\ Sheets!Said(i)'.days \subseteq sh_groups'[SheetsDraftOf(i)']
        BY <1>4, <1>6, <1>9, <1>10
    <1>12. \A i \in Sheets!Entered : SheetsDraftOf(i) = draft => Sheets!Said(i).days \cap days = {}
        BY <1>10
    <1>13. \A i, j \in Sheets!Entered' : i # j /\ SheetsDraftOf(i)' = SheetsDraftOf(j)' => Sheets!Said(i)'.days \cap Sheets!Said(j)'.days = {}
        <2>1. \A i, j \in Sheets!Entered : i # j /\ SheetsDraftOf(i) = SheetsDraftOf(j) => Sheets!Said(i).days \cap Sheets!Said(j).days = {}
            BY DEF SheetsIInv, SheetsLinesEntered
        <2> QED  BY <1>4, <1>6, <1>12, <2>1
    <1>14. \A d \in DOMAIN sh_groups' : \A day \in sh_groups'[d] :
              \E i \in Sheets!Entered' : SheetsDraftOf(i)' = d /\ day \in Sheets!Said(i)'.days
        <2> SUFFICES ASSUME NEW d \in DOMAIN sh_groups', NEW day \in sh_groups'[d]
                     PROVE  \E i \in Sheets!Entered' : SheetsDraftOf(i)' = d /\ day \in Sheets!Said(i)'.days
            OBVIOUS
        <2>1. CASE d = draft /\ day \in days
            BY <1>4, <2>1
        <2>2. CASE d \in DOMAIN sh_groups /\ day \in sh_groups[d]
            <3>1. PICK i \in Sheets!Entered : SheetsDraftOf(i) = d /\ day \in Sheets!Said(i).days
                BY <2>2 DEF SheetsIInv, SheetsLinesEntered
            <3> QED  BY <1>4, <1>6, <3>1
        <2> QED  BY <1>9, <2>1, <2>2
    <1> QED  BY <1>7, <1>8, <1>11, <1>13, <1>14 DEF SheetsLinesEntered

\* Enter does the one or the other.
LEMMA SheetsEnterKeeps ==
    ASSUME SheetsIInv, NEW row \in sh_Rows[sh_format], row.kind = "line",
           NEW n, n = Sheets!Here, NEW draft, draft = SheetsDraftOf(n)', NEW days, days = Sheets!Said(n)'.days,
           SheetsHeaded(n)', Sheets!Said(n)'.at \in Nat,
           NEW warnings, \A i, why : <<i, why>> \in warnings => i = Sheets!Here /\ why = "check",
           Sheets!Enter(row, draft, days, warnings)
    PROVE  SheetsLinesEntered'
    <1>1. sh_rows' = Append(sh_rows, row) /\ sh_counted' = sh_counted \cup {Sheets!Here} /\ UNCHANGED sh_format
        BY DEF Sheets!Enter, Sheets!Count, Sheets!Read
    <1>2. PICK known : known = IF draft \in DOMAIN sh_groups THEN sh_groups[draft] ELSE {}
        OBVIOUS
    <1>3. CASE known \cap days # {}
        <2>1. sh_issues' = sh_issues \cup (warnings \cup {<<Sheets!Here, "twin">>}) /\ sh_groups' = sh_groups
            BY <1>2, <1>3 DEF Sheets!Enter
        <2>2. \A i, why : <<i, why>> \in warnings \cup {<<Sheets!Here, "twin">>} => i = Sheets!Here
            OBVIOUS
        <2>3. "twin" \in Sheets!Rejecting /\ <<Sheets!Here, "twin">> \in warnings \cup {<<Sheets!Here, "twin">>}
            BY DEF Sheets!Rejecting
        <2> QED  BY <1>1, <2>1, <2>2, <2>3, SheetsLineRejected
    <1>4. CASE known \cap days = {}
        <2>1. sh_issues' = sh_issues \cup warnings
              /\ sh_groups' = [d \in DOMAIN sh_groups \cup {draft} |->
                                 IF d = draft THEN known \cup days ELSE sh_groups[d]]
            BY <1>2, <1>4, Zenon DEF Sheets!Enter
        <2>2. \A i, why : <<i, why>> \in warnings => i = Sheets!Here /\ why \notin Sheets!Rejecting
            BY DEF Sheets!Rejecting
        <2> QED  BY <1>1, <1>2, <1>4, <2>1, <2>2, SheetsLineEntered
    <1> QED  BY <1>3, <1>4

LEMMA SheetsFaultyKeeps ==
    ASSUME SheetsIInv, NEW row \in sh_Rows[sh_format], row.kind = "line",
           NEW why \in Sheets!Rejecting, Sheets!Faulty(row, why)
    PROVE  SheetsLinesEntered'
    <1>1. /\ sh_rows' = Append(sh_rows, row) /\ sh_counted' = sh_counted \cup {Sheets!Here} /\ UNCHANGED <<sh_format, sh_groups>>
          /\ sh_issues' = sh_issues \cup {<<Sheets!Here, why>>}
        BY DEF Sheets!Faulty, Sheets!Report, Sheets!Count, Sheets!Read
    <1>2. \A i, w : <<i, w>> \in {<<Sheets!Here, why>>} => i = Sheets!Here
        OBVIOUS
    <1> QED  BY <1>1, <1>2, SheetsLineRejected

-----------------------------------------------------------------------------
LEMMA SheetsWholeDays ==
    ASSUME NEW k \in Int, NEW x \in Nat, NEW p \in Nat \ {0}
    PROVE  (k * p + x) \div p = k + (x \div p) /\ (k * p + x) % p = x % p
    <1>1. PICK q, r, s : q = x \div p /\ r = x % p /\ s = k * p
        OBVIOUS
    <1>2. q \in Int /\ r \in 0..(p - 1) /\ x = p * q + r /\ s \in Int
        BY <1>1, SheetsRemainder, Z3
    <1>3. (k + q) * p = s + p * q
        BY <1>1, <1>2, Z3
    <1>4. s + x \in Int /\ (k + q) * p <= s + x /\ s + x < (k + q) * p + p
        BY <1>2, <1>3
    <1>5. (s + x) \div p = k + q
        BY <1>2, <1>4, SheetsQuotientIs
    <1>6. (s + x) % p \in Int /\ s + x = p * ((s + x) \div p) + ((s + x) % p)
        <2>1. PICK y \in Int : y = s + x
            BY <1>4
        <2>2. y % p \in 0..(p - 1) /\ y = p * (y \div p) + (y % p)
            BY Z3
        <2>3. y % p \in Int
            BY <2>2
        <2> QED  BY <2>1, <2>2, <2>3, Zenon
    <1>7. p * (k + q) = (k + q) * p
        BY <1>2, Z3
    <1>8. (s + x) % p = r
        BY <1>2, <1>3, <1>5, <1>6, <1>7
    <1> QED  BY <1>1, <1>5, <1>8

LEMMA SheetsHeadersPass ==
    ASSUME SheetsIInv, NEW row \in sh_Rows[sh_format], sh_rows' = Append(sh_rows, row), sh_format' = sh_format,
           row.kind # "header"
    PROVE  SheetsHeadersIn(Len(sh_rows))' = SheetsHeadersIn(Len(sh_rows))
    <1>1. PICK n \in Nat : n = Len(sh_rows)
        BY SheetsRowsGrow
    <1>2. Len(sh_rows') = n + 1 /\ (\A i \in 1..n : sh_rows'[i] = sh_rows[i]) /\ sh_rows'[n + 1] = row
        BY <1>1, SheetsRowsGrow
    <1>3. {h \in 1..(n + 1) : sh_rows'[h].kind = "header"} = {h \in 1..n : sh_rows[h].kind = "header"}
        BY <1>2
    <1>4. Sheets!Cardinality({h \in 1..Len(sh_rows') : sh_rows'[h].kind = "header"})
          = Sheets!Cardinality({h \in 1..Len(sh_rows) : sh_rows[h].kind = "header"})
        BY <1>1, <1>2, <1>3
    <1> QED  BY <1>4 DEF SheetsHeadersIn

\* A line is read by the heading above it and by the headers so far.
LEMMA SheetsLineStandsUnder ==
    ASSUME SheetsIInv, NEW row \in sh_Rows[sh_format], sh_rows' = Append(sh_rows, row), sh_format' = sh_format,
           row.kind = "line", NEW n, n = Sheets!Here
    PROVE  /\ n \in Nat /\ sh_rows'[n] = row /\ SheetsHeadersIn(n)' = SheetsHeadersIn(Len(sh_rows))
           /\ \A h \in 1..Len(sh_rows) : \A kind : kind # "header" /\ SheetsAbove(h, Sheets!Here, kind) =>
                 Sheets!HeadingAbove(n, kind)' = h /\ h \in 1..(n - 1) /\ sh_rows'[h] = sh_rows[h]
    <1>1. n \in Nat /\ n \in 1..Sheets!Here /\ sh_rows'[n] = row /\ Len(sh_rows) = n - 1
        BY SheetsRowsGrow
    <1>2. SheetsHeadersIn(n)' = SheetsHeadersIn(Len(sh_rows))
        <2>1. {h \in 1..n : sh_rows'[h].kind = "header"} = {h \in 1..Len(sh_rows) : sh_rows[h].kind = "header"}
            BY <1>1, SheetsRowsGrow
        <2> QED  BY <2>1 DEF SheetsHeadersIn
    <1>3. ASSUME NEW h \in 1..Len(sh_rows), NEW kind, kind # "header", SheetsAbove(h, Sheets!Here, kind)
          PROVE  Sheets!HeadingAbove(n, kind)' = h /\ h \in 1..(n - 1) /\ sh_rows'[h] = sh_rows[h]
        <2>1. Sheets!HeadingAbove(n, kind)' = Sheets!HeadingAbove(n, kind)
            BY <1>1, SheetsHeadingsStay
        <2>2. Sheets!HeadingAbove(n, kind) = h
            BY <1>1, <1>3, SheetsAboveIsRead
        <2> QED  BY <1>1, <2>1, <2>2, SheetsRowsGrow
    <1> QED  BY <1>1, <1>2, <1>3

LEMMA SheetsNutsSaid ==
    ASSUME SheetsCellsGiven, SheetsIInv, SheetsHeadingsMatch, sh_format = "nuts", NEW row \in sh_Rows["nuts"],
           sh_rows' = Append(sh_rows, row), sh_format' = sh_format, row.kind = "line",
           sh_weekday # None, row.at # None, NEW n, n = Sheets!Here
    PROVE  /\ SheetsHeaded(n)' /\ Sheets!Said(n)'.days = {Sheets!MskDay(row.at)} /\ Sheets!Said(n)'.at \in Nat
           /\ SheetsDraftOf(n)' = Sheets!Draft(row, Sheets!MskMinutes(row.at), None, None)
    <1>1. PICK h \in 1..Len(sh_rows) : SheetsAbove(h, Sheets!Here, "day") /\ sh_rows[h].day = sh_weekday
        BY DEF SheetsHeadingsMatch
    <1>2. n \in Nat /\ sh_rows'[n] = row /\ Sheets!HeadingAbove(n, "day")' = h /\ h \in 1..(n - 1) /\ sh_rows'[h] = sh_rows[h]
        <2>1. row \in sh_Rows[sh_format]
            OBVIOUS
        <2>2. n \in Nat /\ sh_rows'[n] = row
            BY <2>1, SheetsLineStandsUnder
        <2>3. Sheets!HeadingAbove(n, "day")' = h /\ h \in 1..(n - 1) /\ sh_rows'[h] = sh_rows[h]
            BY <1>1, <2>1, SheetsLineStandsUnder
        <2> QED  BY <2>2, <2>3
    <1>3. sh_rows[h] \in sh_Rows["nuts"] /\ sh_rows[h].kind = "day"
        BY <1>1 DEF SheetsIInv, SheetsAbove
    <1>4. PICK day \in Nat : day = sh_weekday
        BY <1>1, <1>3 DEF SheetsCellsGiven
    <1>5. PICK at \in Nat : at = row.at
        BY DEF SheetsCellsGiven
    <1>6. PICK msk \in Nat : msk = at + sh_Shift
        BY DEF SheetsCellsGiven
    <1> DEFINE minute == (day - 1) * sh_DayLength + msk
    <1>7. sh_DayLength \in Nat \ {0}
        BY DEF SheetsCellsGiven
    <1>8. minute \div sh_DayLength = day - 1 + (msk \div sh_DayLength) /\ minute % sh_DayLength = msk % sh_DayLength
        <2>1. PICK k \in Int : k = day - 1
            OBVIOUS
        <2>2. (k * sh_DayLength + msk) \div sh_DayLength = k + (msk \div sh_DayLength)
              /\ (k * sh_DayLength + msk) % sh_DayLength = msk % sh_DayLength
            BY <1>7, SheetsWholeDays, Zenon
        <2> QED  BY <2>1, <2>2, Zenon
    <1>9. msk % sh_DayLength \in Nat
        <2>1. msk % sh_DayLength \in 0..(sh_DayLength - 1)
            BY <1>7, Z3
        <2> QED  BY <1>7, <2>1
    <1>10. (sh_rows'[h].day - 1) * sh_DayLength + row.at + sh_Shift = minute
        <2>1. (day - 1) * sh_DayLength \in Int /\ sh_Shift \in Nat
            BY <1>7, Z3 DEF SheetsCellsGiven
        <2>2. (day - 1) * sh_DayLength + at + sh_Shift = (day - 1) * sh_DayLength + msk
            BY <1>6, <2>1
        <2> QED  BY <1>1, <1>2, <1>4, <1>5, <2>2
    <1> HIDE DEF minute
    <1>11. Sheets!Said(n)' = [days |-> {((minute \div sh_DayLength) % sh_Week) + 1},
                              at |-> minute % sh_DayLength, on |-> None, week |-> None]
        BY <1>2, <1>10, Zenon DEF Sheets!Said
    <1>12. Sheets!MskDay(row.at) = ((minute \div sh_DayLength) % sh_Week) + 1 /\ Sheets!MskMinutes(row.at) = minute % sh_DayLength
        <2>1. Sheets!MskDay(row.at) = ((day - 1 + (msk \div sh_DayLength)) % sh_Week) + 1
            BY <1>4, <1>5, <1>6, Zenon DEF Sheets!MskDay
        <2>2. Sheets!MskMinutes(row.at) = msk % sh_DayLength
            BY <1>5, <1>6, Zenon DEF Sheets!MskMinutes
        <2> QED  BY <1>8, <2>1, <2>2, Zenon
    <1>13. SheetsHeaded(n)'
        BY <1>2 DEF SheetsHeaded
    <1>14. /\ Sheets!Said(n)'.days = {Sheets!MskDay(row.at)} /\ Sheets!Said(n)'.at = Sheets!MskMinutes(row.at)
           /\ Sheets!Said(n)'.on = None /\ Sheets!Said(n)'.week = None
        <2> HIDE DEF minute
        <2>1. PICK d, t : d = ((minute \div sh_DayLength) % sh_Week) + 1 /\ t = minute % sh_DayLength
            OBVIOUS
        <2>2. Sheets!Said(n)' = [days |-> {d}, at |-> t, on |-> None, week |-> None]
            BY <1>11, <2>1, Zenon
        <2>3. Sheets!MskDay(row.at) = d /\ Sheets!MskMinutes(row.at) = t
            BY <1>12, <2>1, Zenon
        <2> QED  BY <2>2, <2>3
    <1>15. SheetsDraftOf(n)' = Sheets!Draft(row, Sheets!MskMinutes(row.at), None, None)
        BY <1>2, <1>14, Zenon DEF SheetsDraftOf, Sheets!Draft
    <1>16. Sheets!Said(n)'.at \in Nat
        BY <1>8, <1>9, <1>12, <1>14, Zenon
    <1> QED  BY <1>13, <1>14, <1>15, <1>16

LEMMA SheetsProstoSaid ==
    ASSUME SheetsCellsGiven, SheetsIInv, SheetsHeadingsMatch, sh_format = "prosto", NEW row \in sh_Rows["prosto"],
           sh_rows' = Append(sh_rows, row), sh_format' = sh_format, row.kind = "line",
           sh_section # None, sh_weekday # None, row.at # None, NEW n, n = Sheets!Here
    PROVE  /\ SheetsHeaded(n)' /\ Sheets!Said(n)'.days = {sh_weekday} /\ Sheets!Said(n)'.at \in Nat
           /\ SheetsDraftOf(n)' = Sheets!Draft(row, row.at, IF Sheets!Series THEN sh_one_off ELSE None, None)
    <1>1. row.at \in Nat
        BY DEF SheetsCellsGiven
    <1>2. n \in Nat /\ sh_rows'[n] = row /\ SheetsHeadersIn(n)' = sh_section /\ sh_section \in Nat \ {0}
        BY SheetsLineStandsUnder DEF SheetsHeadingsMatch
    <1>3. CASE Sheets!Series
        <2>1. PICK h \in 1..Len(sh_rows) : /\ SheetsAbove(h, Sheets!Here, "date") /\ sh_rows[h].day = sh_weekday
                                           /\ sh_one_off = Sheets!nearest_date(sh_rows[h].doy)
            BY <1>3 DEF SheetsHeadingsMatch
        <2>2. Sheets!HeadingAbove(n, "date")' = h /\ h \in 1..(n - 1) /\ sh_rows'[h] = sh_rows[h]
            BY <2>1, SheetsLineStandsUnder
        <2>3. SheetsHeadersIn(n)' > 1
            BY <1>2, <1>3 DEF Sheets!Series
        <2>4. Sheets!Said(n)' = [days |-> {sh_weekday}, at |-> row.at, on |-> sh_one_off, week |-> None]
            BY <1>2, <2>1, <2>2, <2>3 DEF Sheets!Said, SheetsHeadersIn
        <2>5. SheetsHeaded(n)'
            BY <2>2, <2>3 DEF SheetsHeaded
        <2>6. Sheets!Said(n)'.days = {sh_weekday} /\ Sheets!Said(n)'.at = row.at /\ Sheets!Said(n)'.on = sh_one_off /\ Sheets!Said(n)'.week = None
            BY <2>4
        <2>7. SheetsDraftOf(n)' = Sheets!Draft(row, row.at, sh_one_off, None)
            BY <1>2, <2>6, Zenon DEF SheetsDraftOf, Sheets!Draft
        <2> QED  BY <1>1, <1>3, <2>5, <2>6, <2>7
    <1>4. CASE ~Sheets!Series
        <2>1. PICK h \in 1..Len(sh_rows) : SheetsAbove(h, Sheets!Here, "day") /\ sh_rows[h].day = sh_weekday
            BY <1>4 DEF SheetsHeadingsMatch
        <2>2. Sheets!HeadingAbove(n, "day")' = h /\ h \in 1..(n - 1) /\ sh_rows'[h] = sh_rows[h]
            BY <2>1, SheetsLineStandsUnder
        <2>3. ~(SheetsHeadersIn(n)' > 1)
            BY <1>2, <1>4 DEF Sheets!Series
        <2>4. Sheets!Said(n)' = [days |-> {sh_weekday}, at |-> row.at, on |-> None, week |-> None]
            BY <1>2, <2>1, <2>2, <2>3 DEF Sheets!Said, SheetsHeadersIn
        <2>5. SheetsHeaded(n)'
            BY <2>2, <2>3 DEF SheetsHeaded
        <2>6. Sheets!Said(n)'.days = {sh_weekday} /\ Sheets!Said(n)'.at = row.at /\ Sheets!Said(n)'.on = None /\ Sheets!Said(n)'.week = None
            BY <2>4
        <2>7. SheetsDraftOf(n)' = Sheets!Draft(row, row.at, None, None)
            BY <1>2, <2>6, Zenon DEF SheetsDraftOf, Sheets!Draft
        <2> QED  BY <1>1, <1>4, <2>5, <2>6, <2>7
    <1> QED  BY <1>3, <1>4

LEMMA SheetsManualSaid ==
    ASSUME SheetsCellsGiven, SheetsIInv, sh_format = "manual", NEW row \in sh_Rows["manual"],
           sh_rows' = Append(sh_rows, row), sh_format' = sh_format, row.kind = "line", row.at # None,
           NEW n, n = Sheets!Here
    PROVE  /\ SheetsHeaded(n)' /\ Sheets!Said(n)'.days = Sheets!ManualDays(row) /\ Sheets!Said(n)'.at \in Nat
           /\ SheetsDraftOf(n)' = Sheets!Draft(row, row.at, IF row.date = None THEN None ELSE Sheets!parse_date(row.date),
                                               IF row.date = None /\ row.monthly # None THEN row.monthly.week ELSE None)
    <1>1. row.at \in Nat /\ sh_rows'[n] = row
        BY SheetsRowsGrow DEF SheetsCellsGiven
    <1> DEFINE on == IF row.date = None THEN None ELSE Sheets!parse_date(row.date)
               week == IF row.date = None /\ row.monthly # None THEN row.monthly.week ELSE None
    <1>2. week = IF row.date # None \/ row.monthly = None THEN None ELSE row.monthly.week
        OBVIOUS
    <1> HIDE DEF week
    <1>3. Sheets!Said(n)' = [days |-> Sheets!ManualDays(row), at |-> row.at, on |-> on, week |-> week]
        BY <1>1, <1>2 DEF Sheets!Said
    <1> HIDE DEF on
    <1>4. Sheets!Said(n)'.days = Sheets!ManualDays(row) /\ Sheets!Said(n)'.at = row.at /\ Sheets!Said(n)'.on = on /\ Sheets!Said(n)'.week = week
        BY <1>3
    <1>5. SheetsDraftOf(n)' = Sheets!Draft(row, row.at, on, week)
        BY <1>1, <1>4, Zenon DEF SheetsDraftOf, Sheets!Draft
    <1>6. SheetsHeaded(n)'
        BY DEF SheetsHeaded
    <1> QED  BY <1>1, <1>4, <1>5, <1>6 DEF on, week

-----------------------------------------------------------------------------
\* Every action keeps the invariant.
LEMMA SheetsRowKeeps ==
    ASSUME SheetsIInv, NEW row \in sh_Rows[sh_format], sh_rows' = Append(sh_rows, row), UNCHANGED sh_format,
           sh_format # None, SheetsLinesEntered', sh_outcome' = "reading" => SheetsHeadingsMatch'
    PROVE  SheetsIInv'
    BY SheetsRowsGrow DEF SheetsIInv

\* A row that only moves the headings.
LEMMA SheetsHeadingKeeps ==
    ASSUME SheetsIInv, NEW row \in sh_Rows[sh_format], sh_format # None,
           NEW s, NEW day, NEW on, Sheets!Heading(row, s, day, on), SheetsHeadingsMatch'
    PROVE  SheetsIInv'
    <1>1. sh_rows' = Append(sh_rows, row) /\ UNCHANGED <<sh_format, sh_outcome, sh_groups, sh_issues, sh_counted>>
        BY DEF Sheets!Heading, Sheets!Read
    <1>2. SheetsLinesEntered'
        BY <1>1, SheetsNothingCounted
    <1> QED  BY <1>1, <1>2, SheetsRowKeeps

\* A row the reading stops at.
LEMMA SheetsStopKeeps ==
    ASSUME SheetsIInv, NEW row \in sh_Rows[sh_format], sh_format # None,
           Sheets!Read(row), NEW as, as # "reading", Sheets!Stop(as)
    PROVE  SheetsIInv'
    <1>1. sh_rows' = Append(sh_rows, row) /\ UNCHANGED <<sh_format, sh_groups, sh_issues, sh_counted>> /\ sh_outcome' = as
        BY DEF Sheets!Stop, Sheets!Read
    <1>2. SheetsLinesEntered'
        BY <1>1, SheetsNothingCounted
    <1> QED  BY <1>1, <1>2, SheetsRowKeeps

\* A line, counted or skipped.
LEMMA SheetsLineKeeps ==
    ASSUME SheetsIInv, NEW row \in sh_Rows[sh_format], sh_format # None, row.kind = "line", Sheets!Read(row),
           sh_outcome = "reading", UNCHANGED <<sh_format, sh_outcome, sh_section, sh_weekday, sh_one_off>>, SheetsLinesEntered'
    PROVE  SheetsIInv'
    <1>1. sh_rows' = Append(sh_rows, row) /\ SheetsHeadingsMatch
        BY DEF Sheets!Read, SheetsIInv
    <1>2. SheetsHeadingsMatch'
        BY <1>1, SheetsHeadingsPass
    <1> QED  BY <1>1, <1>2, SheetsRowKeeps

LEMMA SheetsSkipKeeps ==
    ASSUME SheetsIInv, NEW row \in sh_Rows[sh_format], sh_format # None, row.kind = "line",
           sh_outcome = "reading", Sheets!Skip(row)
    PROVE  SheetsIInv'
    <1>1. sh_rows' = Append(sh_rows, row) /\ Sheets!Read(row)
          /\ UNCHANGED <<sh_format, sh_outcome, sh_section, sh_weekday, sh_one_off, sh_groups, sh_issues, sh_counted>>
        BY DEF Sheets!Skip, Sheets!Read
    <1>2. SheetsLinesEntered'
        BY <1>1, SheetsNothingCounted
    <1> QED  BY <1>1, <1>2, SheetsLineKeeps

LEMMA SheetsFaultyLineKeeps ==
    ASSUME SheetsIInv, NEW row \in sh_Rows[sh_format], sh_format # None, row.kind = "line",
           sh_outcome = "reading", NEW why \in Sheets!Rejecting, Sheets!Faulty(row, why)
    PROVE  SheetsIInv'
    <1>1. Sheets!Read(row) /\ UNCHANGED <<sh_format, sh_outcome, sh_section, sh_weekday, sh_one_off>>
        BY DEF Sheets!Faulty, Sheets!Count
    <1>2. SheetsLinesEntered'
        BY SheetsFaultyKeeps
    <1> QED  BY <1>1, <1>2, SheetsLineKeeps

LEMMA SheetsNutsHeaderKeeps ==
    ASSUME SheetsCellsGiven, SheetsIInv, NEW row \in sh_Rows["nuts"], Sheets!NutsHeader(row)
    PROVE  SheetsIInv'
    <1>1. sh_format = "nuts" /\ sh_format # None /\ sh_outcome = "reading" /\ row.kind = "header" /\ SheetsHeadingsMatch
        BY DEF Sheets!NutsHeader, Sheets!Reading, SheetsCellsGiven, SheetsIInv
    <1>2. CASE row.whole
        <2>1. Sheets!Heading(row, 1, sh_weekday, None)
            BY <1>2 DEF Sheets!NutsHeader
        <2>2. sh_rows' = Append(sh_rows, row) /\ UNCHANGED <<sh_format, sh_weekday>>
            BY <2>1 DEF Sheets!Heading, Sheets!Read
        <2>3. SheetsHeadingsMatch'
            BY <1>1, <2>2, SheetsHeadingsPass
        <2> QED  BY <1>1, <2>1, <2>3, SheetsHeadingKeeps
    <1>3. CASE ~row.whole
        <2>1. Sheets!Read(row) /\ Sheets!Stop("refused")
            BY <1>3 DEF Sheets!NutsHeader
        <2> QED  BY <1>1, <2>1, SheetsStopKeeps
    <1> QED  BY <1>2, <1>3

LEMMA SheetsNutsDayKeeps ==
    ASSUME SheetsCellsGiven, SheetsIInv, NEW row \in sh_Rows["nuts"], Sheets!NutsDay(row)
    PROVE  SheetsIInv'
    <1>1. /\ sh_format = "nuts" /\ sh_format # None /\ row.kind = "day"
          /\ Sheets!Heading(row, sh_section, row.day, None)
        BY DEF Sheets!NutsDay, Sheets!Reading, SheetsCellsGiven
    <1>2. sh_rows' = Append(sh_rows, row) /\ sh_format' = sh_format /\ sh_weekday' = row.day
        BY <1>1 DEF Sheets!Heading, Sheets!Read
    <1>3. \E h \in 1..Len(sh_rows') : sh_rows'[h] = row /\ SheetsAbove(h, Sheets!Here, "day")'
        BY <1>1, <1>2, SheetsHeadingRead
    <1>4. SheetsHeadingsMatch'
        BY <1>1, <1>2, <1>3 DEF SheetsHeadingsMatch
    <1> QED  BY <1>1, <1>4, SheetsHeadingKeeps

LEMMA SheetsNutsLineKeeps ==
    ASSUME SheetsCellsGiven, SheetsIInv, NEW row \in sh_Rows["nuts"], Sheets!NutsLine(row)
    PROVE  SheetsIInv'
    <1>1. /\ sh_format = "nuts" /\ sh_format # None /\ sh_outcome = "reading" /\ row.kind = "line"
          /\ SheetsHeadingsMatch /\ row \in sh_Rows[sh_format]
        BY DEF Sheets!NutsLine, Sheets!Reading, SheetsCellsGiven, SheetsIInv
    <1>2. CASE sh_section = None \/ row.name = <<>>
        <2>1. Sheets!Skip(row)
            BY <1>2 DEF Sheets!NutsLine
        <2> QED  BY <1>1, <2>1, SheetsSkipKeeps
    <1>3. CASE ~(sh_section = None \/ row.name = <<>>) /\ sh_weekday = None
        <2>1. Sheets!Faulty(row, "day") /\ "day" \in Sheets!Rejecting
            BY <1>3 DEF Sheets!NutsLine, Sheets!Rejecting
        <2> QED  BY <1>1, <2>1, SheetsFaultyLineKeeps
    <1>4. CASE ~(sh_section = None \/ row.name = <<>>) /\ sh_weekday # None /\ row.at = None
        <2>1. Sheets!Faulty(row, "time") /\ "time" \in Sheets!Rejecting
            BY <1>4 DEF Sheets!NutsLine, Sheets!Rejecting
        <2> QED  BY <1>1, <2>1, SheetsFaultyLineKeeps
    <1>5. CASE ~(sh_section = None \/ row.name = <<>>) /\ sh_weekday # None /\ row.at # None
        <2>1. PICK warnings : warnings = IF row.check \in {None, Sheets!MskMinutes(row.at)} THEN {}
                                         ELSE {<<Sheets!Here, "check">>}
            OBVIOUS
        <2>2. \A i, why : <<i, why>> \in warnings => i = Sheets!Here /\ why = "check"
            BY <2>1
        <2>3. IF row.buyin = None
              THEN Sheets!Count(row) /\ UNCHANGED sh_groups
                   /\ sh_issues' = sh_issues \cup warnings \cup {<<Sheets!Here, "buyin">>}
              ELSE Sheets!Enter(row, Sheets!Draft(row, Sheets!MskMinutes(row.at), None, None), {Sheets!MskDay(row.at)}, warnings)
            BY <1>5, <2>1, Zenon DEF Sheets!NutsLine
        <2>4. Sheets!Count(row)
            BY <2>3 DEF Sheets!Enter
        <2>5. /\ Sheets!Read(row) /\ sh_rows' = Append(sh_rows, row) /\ sh_counted' = sh_counted \cup {Sheets!Here}
              /\ UNCHANGED <<sh_format, sh_outcome, sh_section, sh_weekday, sh_one_off>>
            BY <2>4 DEF Sheets!Count, Sheets!Read
        <2>6. CASE row.buyin = None
            <3>1. UNCHANGED sh_groups /\ sh_issues' = sh_issues \cup (warnings \cup {<<Sheets!Here, "buyin">>})
                BY <2>3, <2>6
            <3>2. \A i, why : <<i, why>> \in warnings \cup {<<Sheets!Here, "buyin">>} => i = Sheets!Here
                BY <2>2
            <3>3. "buyin" \in Sheets!Rejecting /\ <<Sheets!Here, "buyin">> \in warnings \cup {<<Sheets!Here, "buyin">>}
                BY DEF Sheets!Rejecting
            <3>4. SheetsLinesEntered'
                BY <1>1, <2>5, <3>1, <3>2, <3>3, SheetsLineRejected
            <3> QED  BY <1>1, <2>5, <3>4, SheetsLineKeeps
        <2>7. CASE row.buyin # None
            <3>1. PICK n : n = Sheets!Here
                OBVIOUS
            <3>2. PICK draft, days : draft = Sheets!Draft(row, Sheets!MskMinutes(row.at), None, None)
                                     /\ days = {Sheets!MskDay(row.at)}
                OBVIOUS
            <3>3. /\ SheetsHeaded(n)' /\ Sheets!Said(n)'.days = {Sheets!MskDay(row.at)} /\ Sheets!Said(n)'.at \in Nat
                  /\ SheetsDraftOf(n)' = Sheets!Draft(row, Sheets!MskMinutes(row.at), None, None)
                BY <1>1, <1>5, <2>5, <3>1, SheetsNutsSaid
            <3>4. Sheets!Enter(row, draft, days, warnings)
                BY <2>3, <2>7, <3>2, Zenon
            <3>5. SheetsLinesEntered'
                BY <1>1, <2>2, <3>1, <3>2, <3>3, <3>4, SheetsEnterKeeps
            <3> QED  BY <1>1, <2>5, <3>5, SheetsLineKeeps
        <2> QED  BY <2>6, <2>7
    <1> QED  BY <1>2, <1>3, <1>4, <1>5

LEMMA SheetsProstoHeaderKeeps ==
    ASSUME SheetsCellsGiven, SheetsIInv, NEW row \in sh_Rows["prosto"], Sheets!ProstoHeader(row)
    PROVE  SheetsIInv'
    <1>1. sh_format = "prosto" /\ sh_format # None /\ row.kind = "header" /\ row \in sh_Rows[sh_format]
        BY DEF Sheets!ProstoHeader, Sheets!Reading, SheetsCellsGiven
    <1>2. Sheets!Heading(row, Sheets!Cardinality({i \in DOMAIN sh_rows : sh_rows[i].kind = "header"}) + 1, None, None)
        BY DEF Sheets!ProstoHeader
    <1>3. /\ sh_rows' = Append(sh_rows, row) /\ sh_format' = sh_format /\ sh_weekday' = None
          /\ sh_section' = Sheets!Cardinality({i \in DOMAIN sh_rows : sh_rows[i].kind = "header"}) + 1
        BY <1>2 DEF Sheets!Heading, Sheets!Read
    <1>4. PICK n \in Nat : n = Len(sh_rows)
        BY <1>1, <1>3, SheetsRowsGrow
    <1>5. DOMAIN sh_rows = 1..n /\ Len(sh_rows') = n + 1 /\ sh_rows'[n + 1] = row
          /\ (\A i \in 1..n : sh_rows'[i] = sh_rows[i])
        BY <1>1, <1>3, <1>4, SheetsRowsGrow DEF SheetsIInv
    <1> DEFINE H == {i \in 1..n : sh_rows[i].kind = "header"}
    <1>6. {i \in 1..(n + 1) : sh_rows'[i].kind = "header"} = H \cup {n + 1} /\ n + 1 \notin H
        BY <1>1, <1>5
    <1>7. IsFiniteSet(H)
        <2>1. IsFiniteSet(1..n) /\ H \in SUBSET (1..n)
            BY FS_Interval
        <2> QED  BY <2>1, FS_Subset
    <1>8. sh_section' = Cardinality(H) + 1
        BY <1>3, <1>5, SheetsCount
    <1>9. SheetsHeadersIn(Len(sh_rows))' = Cardinality(H \cup {n + 1})
        BY <1>5, <1>6, SheetsCount DEF SheetsHeadersIn
    <1> HIDE DEF H
    <1>10. sh_section' \in Nat \ {0} /\ sh_section' = SheetsHeadersIn(Len(sh_rows))'
        BY <1>6, <1>7, <1>8, <1>9, FS_AddElement, FS_CardinalityType
    <1>11. SheetsHeadingsMatch'
        BY <1>1, <1>3, <1>10 DEF SheetsHeadingsMatch, SheetsCellsGiven
    <1> QED  BY <1>1, <1>2, <1>11, SheetsHeadingKeeps

LEMMA SheetsProstoSidesKeeps ==
    ASSUME SheetsCellsGiven, SheetsIInv, NEW row \in sh_Rows["prosto"], Sheets!ProstoSides(row)
    PROVE  SheetsIInv'
    <1>1. sh_format = "prosto" /\ sh_format # None /\ Sheets!Heading(row, None, sh_weekday, sh_one_off)
        BY DEF Sheets!ProstoSides, Sheets!Reading, SheetsCellsGiven
    <1>2. sh_section' = None /\ sh_format' = sh_format
        BY <1>1 DEF Sheets!Heading
    <1>3. SheetsHeadingsMatch'
        BY <1>1, <1>2 DEF SheetsHeadingsMatch, Sheets!Series
    <1> QED  BY <1>1, <1>3, SheetsHeadingKeeps

LEMMA SheetsProstoDayKeeps ==
    ASSUME SheetsCellsGiven, SheetsIInv, NEW row \in sh_Rows["prosto"], Sheets!ProstoDay(row)
    PROVE  SheetsIInv'
    <1>1. /\ sh_format = "prosto" /\ sh_format # None /\ row.kind = "day" /\ SheetsHeadingsMatch
          /\ row \in sh_Rows[sh_format]
        BY DEF Sheets!ProstoDay, Sheets!Reading, SheetsCellsGiven, SheetsIInv
    <1>2. CASE sh_section = 1
        <2>1. Sheets!Heading(row, sh_section, row.day, sh_one_off)
            BY <1>2 DEF Sheets!ProstoDay
        <2>2. sh_rows' = Append(sh_rows, row) /\ UNCHANGED <<sh_format, sh_section, sh_one_off>> /\ sh_weekday' = row.day
            BY <2>1 DEF Sheets!Heading, Sheets!Read
        <2>3. \E h \in 1..Len(sh_rows') : sh_rows'[h] = row /\ SheetsAbove(h, Sheets!Here, "day")'
            BY <1>1, <2>2, SheetsHeadingRead
        <2>4. sh_section' \in Nat \ {0} /\ sh_section' = SheetsHeadersIn(Len(sh_rows))'
            BY <1>1, <1>2, <2>2, SheetsHeadersPass DEF SheetsHeadingsMatch, SheetsCellsGiven
        <2>5. ~Sheets!Series'
            BY <1>2, <2>2 DEF Sheets!Series
        <2>6. SheetsHeadingsMatch'
            BY <1>1, <2>2, <2>3, <2>4, <2>5 DEF SheetsHeadingsMatch
        <2> QED  BY <1>1, <2>1, <2>6, SheetsHeadingKeeps
    <1>3. CASE sh_section # 1
        <2>1. /\ sh_rows' = Append(sh_rows, row)
              /\ UNCHANGED <<sh_format, sh_outcome, sh_section, sh_weekday, sh_one_off, sh_groups, sh_issues, sh_counted>>
            BY <1>3 DEF Sheets!ProstoDay, Sheets!Skip, Sheets!Read
        <2>2. sh_section = None \/ Sheets!Series
            BY <1>1, <1>3 DEF SheetsHeadingsMatch, Sheets!Series
        <2>3. SheetsHeadingsMatch'
            BY <1>1, <2>1, <2>2, SheetsHeadingsPass
        <2>4. SheetsLinesEntered'
            BY <1>1, <2>1, SheetsNothingCounted
        <2> QED  BY <1>1, <2>1, <2>3, <2>4, SheetsRowKeeps
    <1> QED  BY <1>2, <1>3

LEMMA SheetsProstoDateKeeps ==
    ASSUME SheetsCellsGiven, SheetsIInv, NEW row \in sh_Rows["prosto"], Sheets!ProstoDate(row)
    PROVE  SheetsIInv'
    <1>1. /\ sh_format = "prosto" /\ sh_format # None /\ row.kind = "date" /\ SheetsHeadingsMatch
          /\ row \in sh_Rows[sh_format]
        BY DEF Sheets!ProstoDate, Sheets!Reading, SheetsCellsGiven, SheetsIInv
    <1>2. CASE ~Sheets!Series
        <2>1. /\ sh_rows' = Append(sh_rows, row)
              /\ UNCHANGED <<sh_format, sh_outcome, sh_section, sh_weekday, sh_one_off, sh_groups, sh_issues, sh_counted>>
            BY <1>2 DEF Sheets!ProstoDate, Sheets!Skip, Sheets!Read
        <2>2. SheetsHeadingsMatch'
            BY <1>1, <1>2, <2>1, SheetsHeadingsPass
        <2>3. SheetsLinesEntered'
            BY <1>1, <2>1, SheetsNothingCounted
        <2> QED  BY <1>1, <2>1, <2>2, <2>3, SheetsRowKeeps
    <1>3. CASE Sheets!Series /\ Sheets!NearestBreaks(row.doy)
        <2>1. Sheets!Read(row) /\ Sheets!Stop("broken")
            BY <1>3 DEF Sheets!ProstoDate
        <2> QED  BY <1>1, <2>1, SheetsStopKeeps
    <1>4. CASE Sheets!Series /\ ~Sheets!NearestBreaks(row.doy)
        <2>1. Sheets!Heading(row, sh_section, row.day, Sheets!nearest_date(row.doy))
            BY <1>4 DEF Sheets!ProstoDate
        <2>2. /\ sh_rows' = Append(sh_rows, row) /\ UNCHANGED <<sh_format, sh_section>> /\ sh_weekday' = row.day
              /\ sh_one_off' = Sheets!nearest_date(row.doy)
            BY <2>1 DEF Sheets!Heading, Sheets!Read
        <2>3. \E h \in 1..Len(sh_rows') : sh_rows'[h] = row /\ SheetsAbove(h, Sheets!Here, "date")'
            BY <1>1, <2>2, SheetsHeadingRead
        <2>4. sh_section' \in Nat \ {0} /\ sh_section' = SheetsHeadersIn(Len(sh_rows))'
            BY <1>1, <1>4, <2>2, SheetsHeadersPass DEF SheetsHeadingsMatch, Sheets!Series
        <2>5. Sheets!Series'
            BY <1>4, <2>2 DEF Sheets!Series
        <2>6. SheetsHeadingsMatch'
            BY <1>1, <2>2, <2>3, <2>4, <2>5 DEF SheetsHeadingsMatch
        <2> QED  BY <1>1, <2>1, <2>6, SheetsHeadingKeeps
    <1> QED  BY <1>2, <1>3, <1>4

LEMMA SheetsProstoLineKeeps ==
    ASSUME SheetsCellsGiven, SheetsIInv, NEW row \in sh_Rows["prosto"], Sheets!ProstoLine(row)
    PROVE  SheetsIInv'
    <1>1. /\ sh_format = "prosto" /\ sh_format # None /\ sh_outcome = "reading" /\ row.kind = "line"
          /\ SheetsHeadingsMatch /\ row \in sh_Rows[sh_format]
        BY DEF Sheets!ProstoLine, Sheets!Reading, SheetsCellsGiven, SheetsIInv
    <1> DEFINE skipped == \/ sh_section = None \/ row.at = None \/ row.name = <<>> \/ row.closed
                          \/ Sheets!Series /\ sh_one_off # None /\ sh_one_off < sh_Today
               homeless == sh_weekday = None \/ (Sheets!Series /\ sh_one_off = None)
    <1>2. CASE skipped
        <2>1. Sheets!Skip(row)
            BY <1>2, Zenon DEF Sheets!ProstoLine
        <2> QED  BY <1>1, <2>1, SheetsSkipKeeps
    <1>3. CASE ~skipped /\ homeless
        <2>1. Sheets!Faulty(row, "day")
            BY <1>3, Zenon DEF Sheets!ProstoLine
        <2>2. "day" \in Sheets!Rejecting
            BY DEF Sheets!Rejecting
        <2> QED  BY <1>1, <2>1, <2>2, SheetsFaultyLineKeeps
    <1>4. CASE ~skipped /\ ~homeless /\ row.buyin = None
        <2>1. Sheets!Faulty(row, "buyin")
            BY <1>4, Zenon DEF Sheets!ProstoLine
        <2>2. "buyin" \in Sheets!Rejecting
            BY DEF Sheets!Rejecting
        <2> QED  BY <1>1, <2>1, <2>2, SheetsFaultyLineKeeps
    <1>5. CASE ~skipped /\ ~homeless /\ row.buyin # None
        <2>1. PICK n : n = Sheets!Here
            OBVIOUS
        <2>2. PICK draft, days : /\ draft = Sheets!Draft(row, row.at, IF Sheets!Series THEN sh_one_off ELSE None, None)
                                 /\ days = {sh_weekday}
            OBVIOUS
        <2>3. Sheets!Enter(row, draft, days, {})
            BY <1>5, <2>2, Zenon DEF Sheets!ProstoLine
        <2>4. Sheets!Read(row) /\ sh_rows' = Append(sh_rows, row) /\ UNCHANGED <<sh_format, sh_outcome, sh_section, sh_weekday, sh_one_off>>
            BY <2>3 DEF Sheets!Enter, Sheets!Count, Sheets!Read
        <2>5. sh_section # None /\ sh_weekday # None /\ row.at # None
            BY <1>5
        <2> HIDE DEF skipped, homeless
        <2>6. /\ SheetsHeaded(n)' /\ Sheets!Said(n)'.days = days /\ Sheets!Said(n)'.at \in Nat /\ SheetsDraftOf(n)' = draft
            BY <1>1, <2>1, <2>2, <2>4, <2>5, SheetsProstoSaid
        <2>7. \A i, why : <<i, why>> \in {} => i = Sheets!Here /\ why = "check"
            OBVIOUS
        <2>8. SheetsLinesEntered'
            BY <1>1, <2>1, <2>3, <2>6, <2>7, SheetsEnterKeeps
        <2> QED  BY <1>1, <2>4, <2>8, SheetsLineKeeps
    <1> HIDE DEF skipped, homeless
    <1> QED  BY <1>2, <1>3, <1>4, <1>5

LEMMA SheetsManualLineKeeps ==
    ASSUME SheetsCellsGiven, SheetsIInv, NEW row \in sh_Rows["manual"], Sheets!ManualLine(row)
    PROVE  SheetsIInv'
    <1>1. /\ sh_format = "manual" /\ sh_format # None /\ sh_outcome = "reading" /\ row.kind = "line"
          /\ row \in sh_Rows[sh_format]
        BY DEF Sheets!ManualLine, Sheets!Reading, SheetsCellsGiven
    <1> DEFINE on == IF row.date = None THEN None ELSE Sheets!parse_date(row.date)
               week == IF row.date = None /\ row.monthly # None THEN row.monthly.week ELSE None
    <1>2. \/ Sheets!Skip(row)
          \/ \E why \in {"date", "past", "days", "time", "buyin"} : Sheets!Faulty(row, why)
          \/ Sheets!Read(row) /\ Sheets!Stop("broken")
          \/ row.at # None /\ Sheets!Enter(row, Sheets!Draft(row, row.at, on, week), Sheets!ManualDays(row), {})
        BY Zenon DEF Sheets!ManualLine
    <1>3. CASE Sheets!Skip(row)
        BY <1>1, <1>3, SheetsSkipKeeps
    <1>4. ASSUME NEW why \in {"date", "past", "days", "time", "buyin"}, Sheets!Faulty(row, why)
          PROVE  SheetsIInv'
        <2>1. why \in Sheets!Rejecting
            BY DEF Sheets!Rejecting
        <2> QED  BY <1>1, <1>4, <2>1, SheetsFaultyLineKeeps
    <1>5. CASE Sheets!Read(row) /\ Sheets!Stop("broken")
        BY <1>1, <1>5, SheetsStopKeeps
    <1>6. CASE row.at # None /\ Sheets!Enter(row, Sheets!Draft(row, row.at, on, week), Sheets!ManualDays(row), {})
        <2>1. PICK n : n = Sheets!Here
            OBVIOUS
        <2>2. PICK draft, days : draft = Sheets!Draft(row, row.at, on, week) /\ days = Sheets!ManualDays(row)
            OBVIOUS
        <2>3. Sheets!Enter(row, draft, days, {})
            BY <1>6, <2>2, Zenon
        <2>4. Sheets!Read(row) /\ sh_rows' = Append(sh_rows, row) /\ UNCHANGED <<sh_format, sh_outcome, sh_section, sh_weekday, sh_one_off>>
            BY <2>3 DEF Sheets!Enter, Sheets!Count, Sheets!Read
        <2>5. SheetsHeaded(n)' /\ Sheets!Said(n)'.days = days /\ Sheets!Said(n)'.at \in Nat /\ SheetsDraftOf(n)' = draft
            BY <1>1, <1>6, <2>1, <2>2, <2>4, SheetsManualSaid
        <2>6. \A i, why : <<i, why>> \in {} => i = Sheets!Here /\ why = "check"
            OBVIOUS
        <2>7. SheetsLinesEntered'
            BY <1>1, <2>1, <2>3, <2>5, <2>6, SheetsEnterKeeps
        <2> QED  BY <1>1, <2>4, <2>7, SheetsLineKeeps
    <1> HIDE DEF on, week
    <1> QED  BY <1>2, <1>3, <1>4, <1>5, <1>6

LEMMA SheetsIInvInit == ASSUME SheetsCellsGiven PROVE Sheets!Init => SheetsIInv
    <1> SUFFICES ASSUME Sheets!Init
                 PROVE  SheetsIInv
        OBVIOUS
    <1>1. /\ sh_format \in {"nuts", "prosto", "manual", None} /\ sh_rows = <<>> /\ sh_counted = {} /\ sh_issues = {}
          /\ sh_groups = <<>> /\ sh_weekday = None /\ (sh_format # "manual" => sh_section = None)
        BY DEF Sheets!Init
    <1>2. SheetsHeadingsMatch
        BY <1>1 DEF SheetsHeadingsMatch, Sheets!Series
    <1>3. SheetsLinesEntered
        BY <1>1 DEF SheetsLinesEntered, Sheets!Entered
    <1> QED  BY <1>1, <1>2, <1>3 DEF SheetsIInv

\* Ending, or nothing at all.
LEMMA SheetsNothingRead ==
    ASSUME SheetsIInv, UNCHANGED <<sh_format, sh_section, sh_weekday, sh_one_off, sh_groups, sh_issues, sh_counted, sh_rows>>,
           sh_outcome' = "reading" => sh_outcome = "reading"
    PROVE  SheetsIInv'
    <1>1. /\ Sheets!Here' = Sheets!Here /\ Sheets!Entered' = Sheets!Entered /\ Sheets!Series' = Sheets!Series
          /\ (\A n : SheetsHeadersIn(n)' = SheetsHeadersIn(n))
          /\ (\A h, i, kind : SheetsAbove(h, i, kind)' = SheetsAbove(h, i, kind))
          /\ (\A i, kind : Sheets!HeadingAbove(i, kind)' = Sheets!HeadingAbove(i, kind))
        BY DEF Sheets!Here, Sheets!Entered, Sheets!Series, SheetsHeadersIn, SheetsAbove, Sheets!HeadingAbove
    <1>2. (\A i : Sheets!Said(i)' = Sheets!Said(i)) /\ (\A i : SheetsHeaded(i)' = SheetsHeaded(i))
        BY <1>1 DEF Sheets!Said, SheetsHeaded
    <1>3. \A i : SheetsDraftOf(i)' = SheetsDraftOf(i)
        BY <1>2 DEF SheetsDraftOf
    <1>4. SheetsLinesEntered' = SheetsLinesEntered
        BY <1>1, <1>2, <1>3 DEF SheetsLinesEntered
    <1>5. SheetsHeadingsMatch' = SheetsHeadingsMatch
        BY <1>1 DEF SheetsHeadingsMatch
    <1> QED  BY <1>4, <1>5 DEF SheetsIInv

LEMMA SheetsIInvKept == ASSUME SheetsCellsGiven PROVE SheetsIInv /\ [Sheets!Next]_(Sheets!vars) => SheetsIInv'
    <1> SUFFICES ASSUME SheetsIInv, [Sheets!Next]_(Sheets!vars)
                 PROVE  SheetsIInv'
        OBVIOUS
    <1>1. ASSUME NEW row \in sh_Rows["nuts"], Sheets!NutsHeader(row) \/ Sheets!NutsDay(row) \/ Sheets!NutsLine(row)
          PROVE  SheetsIInv'
        BY <1>1, SheetsNutsHeaderKeeps, SheetsNutsDayKeeps, SheetsNutsLineKeeps
    <1>2. ASSUME NEW row \in sh_Rows["prosto"], \/ Sheets!ProstoHeader(row) \/ Sheets!ProstoSides(row) \/ Sheets!ProstoDay(row)
                                                \/ Sheets!ProstoDate(row) \/ Sheets!ProstoLine(row)
          PROVE  SheetsIInv'
        BY <1>2, SheetsProstoHeaderKeeps, SheetsProstoSidesKeeps, SheetsProstoDayKeeps, SheetsProstoDateKeeps, SheetsProstoLineKeeps
    <1>3. ASSUME NEW row \in sh_Rows["manual"], Sheets!ManualLine(row)
          PROVE  SheetsIInv'
        BY <1>3, SheetsManualLineKeeps
    <1>4. CASE Sheets!Finish
        <2>1. UNCHANGED <<sh_format, sh_section, sh_weekday, sh_one_off, sh_groups, sh_issues, sh_counted, sh_rows>>
              /\ sh_outcome = "reading"
            BY <1>4 DEF Sheets!Finish
        <2> QED  BY <2>1, SheetsNothingRead
    <1>5. CASE UNCHANGED Sheets!vars
        BY <1>5, SheetsNothingRead DEF Sheets!vars
    <1> QED  BY <1>1, <1>2, <1>3, <1>4, <1>5 DEF Sheets!Next

\* No tournament of a sheet is lost, doubled or moved.
LEMMA SheetsEveryLineAccounted == ASSUME SheetsCellsGiven PROVE Sheets!Spec => []Sheets!RowsAreAccounted
    BY SheetsIInvInit, SheetsIInvKept, SheetsAccountedFor, PTL DEF Sheets!Spec

\* A behaviour of the office is one of Sheets, with its steps or none.
LEMMA SheetsPart == Init /\ [][Next]_vars => Sheets!Spec
    <1>1. Init => Sheets!Init
        BY DEF Init
    <1>2. [Next]_vars => [Sheets!Next]_(Sheets!vars)
        <2>1. UNCHANGED sheetsVars => UNCHANGED Sheets!vars
            BY DEF sheetsVars, Sheets!vars
        <2> QED  BY <2>1 DEF Next, vars
    <1> QED  BY <1>1, <1>2, PTL DEF Sheets!Spec

\* No row of a sheet is lost, doubled or moved on its way into the templates
\* (parse_nuts_csv, parse_prosto_sheet, parse_manual_csv), and late registration
\* closes when its levels are played (late_reg_close_offset), for any rows.
THEOREM EveryRowAccounted == ASSUME SheetsCellsGiven PROVE Spec => []RowsAreAccounted
    BY SheetsEveryLineAccounted, SheetsPart, PTL DEF Spec, RowsAreAccounted
=============================================================================
