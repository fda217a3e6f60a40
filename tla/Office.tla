------------------------------- MODULE Office -------------------------------
(* The parts of the office that do not touch each other's rows: a behaviour   *)
(* of this module is a behaviour of one of them, chosen by part.  A sum and   *)
(* not a product, so that the states of the parts add up.  The constants and  *)
(* the variables of a part are those of its module, under the part's prefix.  *)
EXTENDS Integers, Sequences, FiniteSets

CONSTANTS
    Parts,      \* the parts a run looks at
    None,       \* NULL, in every part
    im_Uploads, im_Carriers, im_Files, im_MaxEdits,
    fd_Starts, fd_Grid, fd_Rate, fd_Rub, fd_Ruble, fd_MinorBelow, fd_PerDay, fd_LiveLookahead, fd_Manual,
    fd_Bodies, fd_PostsLimit, fd_MaxNow, fd_MaxEdits,
    wn_Managers, wn_Forms, wn_Files, wn_Within, wn_MaxWins,
    ca_Runs, ca_Limits, ca_GameOf, ca_PickSeq, ca_Fresh, ca_MaxTime, ca_MaxSnapshots,
    tg_Requests, tg_Users, tg_Chats, tg_TTL, tg_MaxTime, tg_MaxTokens, tg_MaxRequests,
    rl_Guests, rl_Players, rl_Days, rl_Absent, rl_Window, rl_StrikeWindow, rl_Ban,
    rl_GuestLimit, rl_UserLimit, rl_StrikesToBan, rl_SweepDays, rl_MaxTracks, rl_MaxTime,
    fp_Clubs, fp_Conns, fp_Requests, fp_MaxPasses, fp_MaxRequests,
    pr_Written, pr_Renewals, pr_Managers, pr_Forms, pr_MonthLengths, pr_MaxDay, pr_MaxEdits,
    pp_Label, pp_Texts, pp_Year, pp_ThisYear, pp_Today, pp_YearsOf, pp_MonthDays, pp_Far,
    th_Threads, th_Handlers, th_ManagerCount, th_Silence, th_MaxTime, th_MaxMessages,
    th_MaxRollbacks,
    se_Users, se_Superadmins, se_InitRole, se_Nicks, se_Passwords, se_SessionIds,
    se_Requests, se_Ttl, se_LoginMax, se_MaxTime, se_MaxRequests,
    sh_Week, sh_DayLength, sh_Hour, sh_Shift, sh_Break, sh_Years, sh_ThisYear, sh_Today,
    sh_Grace, sh_Half, sh_Rows, sh_MaxRows,
    cr_Players, cr_Managers, cr_Segments, cr_Bodies, cr_SleepingAfter, cr_MaxTime,
    cr_MaxEdits, cr_MaxBroadcasts,
    rf_Clubs, rf_Unions, rf_Slugs, rf_Seeded, rf_Managers, rf_ClubBodies, rf_Published,
    rf_ManualCodes, rf_EffectiveOn, rf_Retries, rf_MaxDay, rf_MaxEdits,
    pd_Users, pd_Tabs, pd_ServiceWorker, pd_Endpoints, pd_MaxSteps

VARIABLES
    part,
    im_disk, im_rows, im_carriers, im_image, im_edit, im_spoiled, im_forgotten, im_edits,
    fd_now, fd_onGrid, fd_picks, fd_posts, fd_pass, fd_taken, fd_made, fd_edits,
    wn_wins, wn_request, wn_overlap, wn_imported, wn_next,
    ca_now, ca_games, ca_open, ca_active, ca_snapshot, ca_last, ca_mixed, ca_sent,
    tg_now, tg_link, tg_issued, tg_request, tg_begun, tg_uses, tg_raced,
    rl_now, rl_tracks, rl_passed, rl_bans,
    fp_pool, fp_using, fp_holds, fp_pass, fp_fetched, fp_pending, fp_skipped, fp_passes,
    fp_requests,
    pr_today, pr_promos, pr_edit, pr_renewal, pr_edits,
    pp_text, pp_outcome, pp_draft,
    th_thread, th_messages, th_pushed, th_shown, th_txn, th_overlap, th_clock, th_rollbacks,
    se_user, se_sessions, se_attempts, se_requests, se_now, se_begun, se_ended,
    se_staleActor,
    sh_format, sh_outcome, sh_section, sh_weekday, sh_one_off, sh_groups, sh_issues,
    sh_counted, sh_tickets, sh_rows,
    cr_now, cr_player, cr_sessions, cr_asked, cr_wrote, cr_devices, cr_chats, cr_inbox,
    cr_request, cr_sent, cr_acted, cr_left, cr_edits,
    rf_today, rf_slug, rf_clubs, rf_rates, rf_request, rf_job, rf_joined, rf_edits,
    pd_user, pd_permission, pd_local, pd_used, pd_shown, pd_op, pd_rows, pd_batch,
    pd_granted, pd_told, pd_steps

imagesVars == <<im_disk, im_rows, im_carriers, im_image, im_edit, im_spoiled,
        im_forgotten, im_edits>>
feedVars == <<fd_now, fd_onGrid, fd_picks, fd_posts, fd_pass, fd_taken, fd_made,
        fd_edits>>
winsVars == <<wn_wins, wn_request, wn_overlap, wn_imported, wn_next>>
cashVars == <<ca_now, ca_games, ca_open, ca_active, ca_snapshot, ca_last, ca_mixed,
        ca_sent>>
telegramVars == <<tg_now, tg_link, tg_issued, tg_request, tg_begun, tg_uses, tg_raced>>
rateVars == <<rl_now, rl_tracks, rl_passed, rl_bans>>
fetchVars == <<fp_pool, fp_using, fp_holds, fp_pass, fp_fetched, fp_pending,
        fp_skipped, fp_passes, fp_requests>>
promosVars == <<pr_today, pr_promos, pr_edit, pr_renewal, pr_edits>>
parseVars == <<pp_text, pp_outcome, pp_draft>>
threadsVars == <<th_thread, th_messages, th_pushed, th_shown, th_txn, th_overlap,
        th_clock, th_rollbacks>>
sessionsVars == <<se_user, se_sessions, se_attempts, se_requests, se_now, se_begun,
        se_ended, se_staleActor>>
sheetsVars == <<sh_format, sh_outcome, sh_section, sh_weekday, sh_one_off, sh_groups,
        sh_issues, sh_counted, sh_tickets, sh_rows>>
crmVars == <<cr_now, cr_player, cr_sessions, cr_asked, cr_wrote, cr_devices,
        cr_chats, cr_inbox, cr_request, cr_sent, cr_acted, cr_left, cr_edits>>
referencesVars == <<rf_today, rf_slug, rf_clubs, rf_rates, rf_request, rf_job, rf_joined,
        rf_edits>>
pushVars == <<pd_user, pd_permission, pd_local, pd_used, pd_shown, pd_op, pd_rows,
        pd_batch, pd_granted, pd_told, pd_steps>>
vars == <<part, imagesVars, feedVars, winsVars, cashVars, telegramVars,
          rateVars, fetchVars, promosVars, parseVars, threadsVars,
          sessionsVars, sheetsVars, crmVars, referencesVars, pushVars>>

-----------------------------------------------------------------------------
Images == INSTANCE Images WITH
    Uploads <- im_Uploads, Carriers <- im_Carriers, Files <- im_Files,
    MaxEdits <- im_MaxEdits, disk <- im_disk, rows <- im_rows, carriers <- im_carriers,
    image <- im_image, edit <- im_edit, spoiled <- im_spoiled, forgotten <- im_forgotten,
    edits <- im_edits

Feed == INSTANCE Feed WITH
    Starts <- fd_Starts, Grid <- fd_Grid, Rate <- fd_Rate, Rub <- fd_Rub, Ruble <- fd_Ruble, MinorBelow <- fd_MinorBelow,
    PerDay <- fd_PerDay, LiveLookahead <- fd_LiveLookahead, Manual <- fd_Manual,
    Bodies <- fd_Bodies, PostsLimit <- fd_PostsLimit, MaxNow <- fd_MaxNow,
    MaxEdits <- fd_MaxEdits, now <- fd_now, onGrid <- fd_onGrid, picks <- fd_picks,
    posts <- fd_posts, pass <- fd_pass, taken <- fd_taken, made <- fd_made,
    edits <- fd_edits

Wins == INSTANCE PlayerWins WITH
    Managers <- wn_Managers, Forms <- wn_Forms, Files <- wn_Files, Within <- wn_Within,
    MaxWins <- wn_MaxWins, wins <- wn_wins, request <- wn_request, overlap <- wn_overlap,
    imported <- wn_imported, next <- wn_next

Cash == INSTANCE CashDesk WITH
    Runs <- ca_Runs, Limits <- ca_Limits, GameOf <- ca_GameOf, PickSeq <- ca_PickSeq,
    Fresh <- ca_Fresh, MaxTime <- ca_MaxTime, MaxSnapshots <- ca_MaxSnapshots,
    now <- ca_now, games <- ca_games, open <- ca_open, active <- ca_active,
    snapshot <- ca_snapshot, last <- ca_last, mixed <- ca_mixed, sent <- ca_sent

Telegram == INSTANCE TelegramLinks WITH
    Requests <- tg_Requests, Users <- tg_Users, Chats <- tg_Chats, TTL <- tg_TTL,
    MaxTime <- tg_MaxTime, MaxTokens <- tg_MaxTokens, MaxRequests <- tg_MaxRequests,
    now <- tg_now, link <- tg_link, issued <- tg_issued, request <- tg_request,
    begun <- tg_begun, uses <- tg_uses, raced <- tg_raced

Rate == INSTANCE RateLimiter WITH
    Guests <- rl_Guests, Players <- rl_Players, Days <- rl_Days, Absent <- rl_Absent,
    Window <- rl_Window, StrikeWindow <- rl_StrikeWindow, Ban <- rl_Ban,
    GuestLimit <- rl_GuestLimit, UserLimit <- rl_UserLimit,
    StrikesToBan <- rl_StrikesToBan, SweepDays <- rl_SweepDays,
    MaxTracks <- rl_MaxTracks, MaxTime <- rl_MaxTime, now <- rl_now, tracks <- rl_tracks,
    passed <- rl_passed, bans <- rl_bans

Fetch == INSTANCE FetchPass WITH
    Clubs <- fp_Clubs, Conns <- fp_Conns, Requests <- fp_Requests,
    MaxPasses <- fp_MaxPasses, MaxRequests <- fp_MaxRequests, pool <- fp_pool,
    using <- fp_using, holds <- fp_holds, pass <- fp_pass, fetched <- fp_fetched,
    pending <- fp_pending, skipped <- fp_skipped, passes <- fp_passes,
    requests <- fp_requests

Promos == INSTANCE Promos WITH
    Written <- pr_Written, Renewals <- pr_Renewals, Managers <- pr_Managers,
    Forms <- pr_Forms, MonthLengths <- pr_MonthLengths, MaxDay <- pr_MaxDay,
    MaxEdits <- pr_MaxEdits, today <- pr_today, promos <- pr_promos, edit <- pr_edit,
    renewal <- pr_renewal, edits <- pr_edits

Parse == INSTANCE PromoParse WITH
    Label <- pp_Label, Texts <- pp_Texts, Year <- pp_Year, ThisYear <- pp_ThisYear,
    Today <- pp_Today, YearsOf <- pp_YearsOf, MonthDays <- pp_MonthDays, Far <- pp_Far,
    text <- pp_text, outcome <- pp_outcome, draft <- pp_draft

Threads == INSTANCE Threads WITH
    Threads <- th_Threads, Handlers <- th_Handlers, ManagerCount <- th_ManagerCount,
    Silence <- th_Silence, MaxTime <- th_MaxTime, MaxMessages <- th_MaxMessages,
    MaxRollbacks <- th_MaxRollbacks, thread <- th_thread, messages <- th_messages,
    pushed <- th_pushed, shown <- th_shown, txn <- th_txn, overlap <- th_overlap,
    clock <- th_clock, rollbacks <- th_rollbacks

Sessions == INSTANCE Sessions WITH
    Users <- se_Users, Superadmins <- se_Superadmins, InitRole <- se_InitRole,
    Nicks <- se_Nicks, Passwords <- se_Passwords, SessionIds <- se_SessionIds,
    Requests <- se_Requests, Ttl <- se_Ttl, LoginMax <- se_LoginMax,
    MaxTime <- se_MaxTime, MaxRequests <- se_MaxRequests, user <- se_user,
    sessions <- se_sessions, attempts <- se_attempts, requests <- se_requests,
    now <- se_now, begun <- se_begun, ended <- se_ended, staleActor <- se_staleActor

Sheets == INSTANCE Sheets WITH
    Week <- sh_Week, DayLength <- sh_DayLength, Hour <- sh_Hour, Shift <- sh_Shift,
    Break <- sh_Break, Years <- sh_Years, ThisYear <- sh_ThisYear, Today <- sh_Today,
    Grace <- sh_Grace, Half <- sh_Half, Rows <- sh_Rows, MaxRows <- sh_MaxRows,
    format <- sh_format, outcome <- sh_outcome, section <- sh_section,
    weekday <- sh_weekday, one_off <- sh_one_off, groups <- sh_groups,
    issues <- sh_issues, counted <- sh_counted, tickets <- sh_tickets, rows <- sh_rows

Crm == INSTANCE Crm WITH
    Players <- cr_Players, Managers <- cr_Managers, Segments <- cr_Segments,
    Bodies <- cr_Bodies, SleepingAfter <- cr_SleepingAfter, MaxTime <- cr_MaxTime,
    MaxEdits <- cr_MaxEdits, MaxBroadcasts <- cr_MaxBroadcasts, now <- cr_now,
    player <- cr_player, sessions <- cr_sessions, asked <- cr_asked, wrote <- cr_wrote,
    devices <- cr_devices, chats <- cr_chats, inbox <- cr_inbox, request <- cr_request,
    sent <- cr_sent, acted <- cr_acted, left <- cr_left, edits <- cr_edits

References == INSTANCE References WITH
    Clubs <- rf_Clubs, Unions <- rf_Unions, Slugs <- rf_Slugs, Seeded <- rf_Seeded,
    Managers <- rf_Managers, ClubBodies <- rf_ClubBodies, Published <- rf_Published,
    ManualCodes <- rf_ManualCodes, EffectiveOn <- rf_EffectiveOn, Retries <- rf_Retries,
    MaxDay <- rf_MaxDay, MaxEdits <- rf_MaxEdits, today <- rf_today, slug <- rf_slug,
    clubs <- rf_clubs, rates <- rf_rates, request <- rf_request, job <- rf_job,
    joined <- rf_joined, edits <- rf_edits

Push == INSTANCE PushDevices WITH
    Users <- pd_Users, Tabs <- pd_Tabs, ServiceWorker <- pd_ServiceWorker,
    Endpoints <- pd_Endpoints, MaxSteps <- pd_MaxSteps, user <- pd_user,
    permission <- pd_permission, local <- pd_local, used <- pd_used, shown <- pd_shown,
    op <- pd_op, rows <- pd_rows, batch <- pd_batch, granted <- pd_granted,
    told <- pd_told, steps <- pd_steps

-----------------------------------------------------------------------------
\* The parts a behaviour does not look at stand still, in one state each.
Init ==
    /\ part \in Parts
    /\ Images!Init
    /\ Feed!Init
    /\ Wins!Init
    /\ Cash!Init
    /\ Telegram!Init
    /\ Rate!Init
    /\ Fetch!Init
    /\ Promos!Init
    /\ Threads!Init
    /\ Sessions!Init
    /\ Sheets!Init
    /\ Crm!Init
    /\ References!Init
    /\ Push!Init
    /\ part # "images" => im_carriers = {}
    /\ part # "sheets" => sh_format = None
    /\ part # "feed" => \A n \in DOMAIN fd_picks : fd_picks[n] = "none"
    /\ part # "promos" => \A p \in DOMAIN pr_promos : pr_promos[p].state = "none"
    /\ pp_outcome = "none" /\ pp_draft = None
    /\ pp_text \in IF part = "parse" THEN pp_Texts ELSE {None}

Next ==
    \/ part = "images" /\ Images!Next /\ UNCHANGED <<part, feedVars, winsVars, cashVars, telegramVars, rateVars, fetchVars,
          promosVars, parseVars, threadsVars, sessionsVars, sheetsVars, crmVars,
          referencesVars, pushVars>>
    \/ part = "feed" /\ Feed!Next /\ UNCHANGED <<part, imagesVars, winsVars, cashVars, telegramVars, rateVars, fetchVars,
          promosVars, parseVars, threadsVars, sessionsVars, sheetsVars, crmVars,
          referencesVars, pushVars>>
    \/ part = "wins" /\ Wins!Next /\ UNCHANGED <<part, imagesVars, feedVars, cashVars, telegramVars, rateVars, fetchVars,
          promosVars, parseVars, threadsVars, sessionsVars, sheetsVars, crmVars,
          referencesVars, pushVars>>
    \/ part = "cash" /\ Cash!Next /\ UNCHANGED <<part, imagesVars, feedVars, winsVars, telegramVars, rateVars, fetchVars,
          promosVars, parseVars, threadsVars, sessionsVars, sheetsVars, crmVars,
          referencesVars, pushVars>>
    \/ part = "telegram" /\ Telegram!Next /\ UNCHANGED <<part, imagesVars, feedVars, winsVars, cashVars, rateVars, fetchVars,
          promosVars, parseVars, threadsVars, sessionsVars, sheetsVars, crmVars,
          referencesVars, pushVars>>
    \/ part = "rate" /\ Rate!Next /\ UNCHANGED <<part, imagesVars, feedVars, winsVars, cashVars, telegramVars, fetchVars,
          promosVars, parseVars, threadsVars, sessionsVars, sheetsVars, crmVars,
          referencesVars, pushVars>>
    \/ part = "fetch" /\ Fetch!Next /\ UNCHANGED <<part, imagesVars, feedVars, winsVars, cashVars, telegramVars, rateVars,
          promosVars, parseVars, threadsVars, sessionsVars, sheetsVars, crmVars,
          referencesVars, pushVars>>
    \/ part = "promos" /\ Promos!Next /\ UNCHANGED <<part, imagesVars, feedVars, winsVars, cashVars, telegramVars, rateVars,
          fetchVars, parseVars, threadsVars, sessionsVars, sheetsVars, crmVars,
          referencesVars, pushVars>>
    \/ part = "parse" /\ Parse!Next /\ UNCHANGED <<part, imagesVars, feedVars, winsVars, cashVars, telegramVars, rateVars,
          fetchVars, promosVars, threadsVars, sessionsVars, sheetsVars, crmVars,
          referencesVars, pushVars>>
    \/ part = "threads" /\ Threads!Next /\ UNCHANGED <<part, imagesVars, feedVars, winsVars, cashVars, telegramVars, rateVars,
          fetchVars, promosVars, parseVars, sessionsVars, sheetsVars, crmVars,
          referencesVars, pushVars>>
    \/ part = "sessions" /\ Sessions!Next /\ UNCHANGED <<part, imagesVars, feedVars, winsVars, cashVars, telegramVars, rateVars,
          fetchVars, promosVars, parseVars, threadsVars, sheetsVars, crmVars,
          referencesVars, pushVars>>
    \/ part = "sheets" /\ Sheets!Next /\ UNCHANGED <<part, imagesVars, feedVars, winsVars, cashVars, telegramVars, rateVars,
          fetchVars, promosVars, parseVars, threadsVars, sessionsVars, crmVars,
          referencesVars, pushVars>>
    \/ part = "crm" /\ Crm!Next /\ UNCHANGED <<part, imagesVars, feedVars, winsVars, cashVars, telegramVars, rateVars,
          fetchVars, promosVars, parseVars, threadsVars, sessionsVars, sheetsVars,
          referencesVars, pushVars>>
    \/ part = "references" /\ References!Next /\ UNCHANGED <<part, imagesVars, feedVars, winsVars, cashVars, telegramVars, rateVars,
          fetchVars, promosVars, parseVars, threadsVars, sessionsVars, sheetsVars,
          crmVars, pushVars>>
    \/ part = "push" /\ Push!Next /\ UNCHANGED <<part, imagesVars, feedVars, winsVars, cashVars, telegramVars, rateVars,
          fetchVars, promosVars, parseVars, threadsVars, sessionsVars, sheetsVars,
          crmVars, referencesVars>>

\* The loop of the renewals is the one part whose progress is checked.
Fairness ==
    /\ WF_promosVars(part = "promos" /\ Promos!RenewRead)
    /\ WF_promosVars(part = "promos" /\ (Promos!RenewCommit \/ Promos!RenewFails))

Spec == Init /\ [][Next]_vars /\ Fairness

-----------------------------------------------------------------------------
(* Properties, as their modules state them.                                   *)

\* Disk, attachments and carriers agree, except for what a failed or blind
\* request left (module Images).
FilesMatchRows == Images!FilesMatchRows

\* A post taken off the feed stays off until a manager brings it back (Feed).
TakenOffStaysOff == Feed!TakenOffStaysOff

\* The majors of the day and the evening starts are exact (Feed).
ShowcaseIsExact == Feed!ShowcaseIsExact

\* "One post about the Major of the day" (Feed).
OneMajorADay == Feed!OneMajorADay

\* An import of wins doubles no win it could read (PlayerWins).
ImportAddsNoTwin == Wins!ImportAddsNoTwin

\* The cash list is one snapshot of the lobby (CashDesk).
ShownIsOneSnapshot == Cash!ShownIsOneSnapshot

\* A player loses a chat only to a request about that chat (TelegramLinks).
ChatLeavesForAReason == Telegram!ChatLeavesForAReason

\* No window lets more requests through than the limit (RateLimiter).
WindowHolds == Rate!WindowHolds

\* Nothing passes for a banned key before its ban is over (RateLimiter).
BannedStaysOut == Rate!BannedStaysOut

\* The daily pass is not locked out by an earlier one (FetchPass).
DailyPassRuns == Fetch!DailyPassRuns

\* A monthly promotion that is over gets its draft (Promos).
RenewalComes == part = "promos" => Promos!RenewalComes

\* Everything the parser is not sure of is marked (PromoParse).
UnsureIsMarked == Parse!UnsureIsMarked

\* The marks, the status and the pushes of a dialogue fit what was written (Threads).
DialoguesAreExact == Threads!DialoguesAreExact

\* No request works in a session somebody has logged out of (Sessions).
LoggedOutStaysOut == Sessions!LoggedOutStaysOut

\* The team keeps an admin (Sessions).
AdminRemains == Sessions!AdminRemains

\* No tournament of a sheet is lost, doubled or moved (Sheets).
RowsAreAccounted == Sheets!RowsAreAccounted

\* A broadcast goes to the players of its segment and to nobody else (Crm).
BroadcastFitsSegment == Crm!BroadcastFitsSegment

\* Unions and manual rates give way for a reason only (References).
ReferencesGiveWay == References!ReferencesGiveWay

\* A phone shows what was switched on there, and nothing once it is switched off (PushDevices).
PhoneObeysItsSwitch == Push!PhoneObeysItsSwitch
=============================================================================
