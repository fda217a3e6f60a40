CONSTANTS
  Parts = {"images", "feed", "wins", "cash", "telegram", "rate", "fetch", "promos", "parse", "threads", "sessions", "sheets", "crm", "references", "push"}
  None = None
  r1 = r1  r2 = r2
  u1 = u1  u2 = u2
  f1 = f1  f2 = f2  f3 = f3
  x1 = x1  x2 = x2

  im_Uploads = {r1, r2}
  im_Carriers = {x1, x2}
  im_Files = {f1, f2, f3}
  im_MaxEdits = 4

  fd_Starts <- MCStarts
  fd_Grid <- MCGrid
  fd_Rate <- MCRate
  fd_Rub <- MCRub
  fd_Ruble = 2
  fd_MinorBelow = 2
  fd_PerDay = 1
  fd_LiveLookahead = 4
  fd_Manual = {x1}
  fd_Bodies <- MCBodies
  fd_PostsLimit = 2
  fd_MaxNow = 6
  fd_MaxEdits = 2

  wn_Managers = {r1, r2}
  wn_Forms <- MCForms
  wn_Files <- MCWeeks
  wn_Within <- MCWithin
  wn_MaxWins = 3

  ca_Runs = {r1, r2}
  ca_Limits = {"l1", "l2"}
  ca_GameOf <- MCGameOf
  ca_PickSeq <- MCPickSeq
  ca_Fresh = 1
  ca_MaxTime = 1
  ca_MaxSnapshots = 2

  tg_Requests = {r1, r2}
  tg_Users = {u1, u2}
  tg_Chats = {x1, x2}
  tg_TTL = 1
  tg_MaxTime = 1
  tg_MaxTokens = 2
  tg_MaxRequests = 5

  rl_Guests = {u1}
  rl_Players = {u2}
  rl_Days = {1, 2}
  rl_Absent = None
  rl_Window = 1
  rl_StrikeWindow = 2
  rl_Ban = 2
  rl_GuestLimit = 1
  rl_UserLimit = 2
  rl_StrikesToBan = 2
  rl_SweepDays = 1
  rl_MaxTracks = 1
  rl_MaxTime = 4

  fp_Clubs = {x1, x2}
  fp_Conns = {f1, f2}
  fp_Requests = {r1}
  fp_MaxPasses = 3
  fp_MaxRequests = 3

  pr_Written = {1, 2}
  pr_Renewals = {3, 4, 5}
  pr_Managers = {r1, r2}
  pr_Forms <- MCPromoForms
  pr_MonthLengths <- MCMonthLengths
  pr_MaxDay = 3
  pr_MaxEdits = 2

  pp_Label = x1
  pp_Texts <- MCTexts
  pp_Year = 6
  pp_ThisYear = 2
  pp_Today = 3
  pp_YearsOf <- MCYearsOf
  pp_MonthDays = 3
  pp_Far = 2

  th_Threads = {x1}
  th_Handlers = {r1, r2}
  th_ManagerCount = 2
  th_Silence = 1
  th_MaxTime = 4
  th_MaxMessages = 3
  th_MaxRollbacks = 1

  se_Users = {u1, u2}
  se_Superadmins = {}
  se_InitRole <- MCInitRole
  se_Nicks = {u1, x1}
  se_Passwords = {1}
  se_SessionIds = {f1, f2}
  se_Requests = {r1, r2}
  se_Ttl = 1
  se_LoginMax = 1
  se_MaxTime = 1
  se_MaxRequests = 5

  sh_Week = 3
  sh_DayLength = 24
  sh_Hour = 6
  sh_Shift = 8
  sh_Break = 1
  sh_Years <- MCYears
  sh_ThisYear = 2
  sh_Today = 15
  sh_Grace = 2
  sh_Half = 4
  sh_Rows <- MCSheetRows
  sh_MaxRows = 5

  cr_Players = {u1, u2}
  cr_Managers = {r1}
  cr_Segments <- MCSegments
  cr_Bodies <- MCCards
  cr_SleepingAfter = 1
  cr_MaxTime = 2
  cr_MaxEdits = 2
  cr_MaxBroadcasts = 1

  rf_Clubs = {x1}
  rf_Unions = {f1, f2}
  rf_Slugs = {"s1", "s2"}
  rf_Seeded <- MCSeeded
  rf_Managers = {r1, r2}
  rf_ClubBodies <- MCClubBodies
  rf_Published = {"USD"}
  rf_ManualCodes = {"USD"}
  rf_EffectiveOn <- MCEffectiveOn
  rf_Retries = 2
  rf_MaxDay = 2
  rf_MaxEdits = 3

  pd_Users = {u1, u2}
  pd_Tabs = {r1}
  pd_ServiceWorker = x1
  pd_Endpoints = {f1, f2}
  pd_MaxSteps = 5
SPECIFICATION Spec
CHECK_DEADLOCK FALSE
INVARIANTS FilesMatchRows TakenOffStaysOff ShowcaseIsExact ImportAddsNoTwin ShownIsOneSnapshot WindowHolds  LoggedOutStaysOut AdminRemains  BroadcastFitsSegment PhoneObeysItsSwitch 
PROPERTIES ChatLeavesForAReason BannedStaysOut RenewalComes ReferencesGiveWay
