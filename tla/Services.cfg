CONSTANTS
  Clients = {c1, c2}
  Keys = {k1, k2}
  Lasting = {k2}
  None = None
  Left = Left
  Capacity = 1
  Cooldown = 2
  MaxFlips = 2
  MaxCrashes = 1
  Scenes = {"marks", "sessions", "quota", "guests", "expenses", "public", "calls", "cache", "research", "numbers",
            "enrichment", "drafts", "exports", "replan", "covers", "photos", "page", "gateways"}
  Actors = {a1, a2}
  Tokens = {s1, s2}
  Addresses = {i1, i2}
  WinCapacity = 2
  LoginLimit = 1
  MinuteLimit = 1
  DayLimit = 1
  Long = 3
  Day = 3
  Faults <- MCFaults
  MaxNow = 4
  MaxAsked <- MCMaxAsked
  Guests = {g1, g2}
  Invitations = {v1, v2}
  Expenses = {e1}
  Nobody = Nobody
  MaxLinks = 1
  MaxEdits = 1
  MaxForks = 1
  Callers = {w1, w2}
  Topics = {p1, p2}
  Known = {p1}
  Lanes = {"interactive"}
  Interval <- MCInterval
  MaxWait = 2
  Attempts = 2
  Backoff = 1
  Threshold = 1
  OpenFor = 2
  GoodTtl = 2
  BadTtl = 1
  MaxEntries = 1
  Horizon = 4
  MaxCalls = 3
  MaxTurns = 1
  Domains = {"attraction", "food"}
  MaxResearch = 2
  MaxRetrievals = 2
  MaxLlm = 2
  MaxTokens = 2
  ToolMax = 2
  PerTool = 2
  ToolRetries = 1
  LlmAttempts = 2
  Rounds = 2
  Enough = 1
  MaxWords = 1
  Publishers = {q1, q2}
  Rooms = {m1, m2}
  FloorMax = 1
  MaxPublished = 3
  MaxTroubles = 2
  Places = {x1, x2}
  Booked = {x1}
  Enrichments = {n1}
  Tabs = {b1, b2}
  MaxPlaced = 2
  Trips <- MCTrips
  MaxTripDays = 3
  FirstHour = 7
  LastHour = 22
  EndOfDay = 24
  NoTime = 99
  Sayings <- MCSayings
  Decisions <- MCDecisions
  NewDays <- MCNewDays
  HotelTable <- MCHotelTable
  MaxCards = 1
  Exports = {r1, r2}
  PrintSlots = 1
  Printers = 1
  MaxMishaps = 1
  Jobs <- MCJobs
  Shop <- MCShop
  Travel <- MCTravel
  DayStart = 9
  DayEnd = 18
  MaxSights = 2
  MaxBusy = 8
  SearchMax = 4
  Pickers = {o1, o2, o3}
  Pictures = {j1}
  Spots = {z1, z2}
  Lookers = {l1, l2}
  PhotoMax = 1
  MaxLooks = 4
  Calls = {y1, y2}
  MaxVersion = 4
  Gateways = {t1, t2}
  Hosts = {h1, h2}
  Secrets = {f1, f2}
  Editors = {d1, d2}
  Legs = {x3, x4}
  ClientCapacity = 1
SPECIFICATION ServicesSpec
INVARIANTS OutageExclusive LocalMarkHasHolder LogoutHolds DayQuotaKept ProviderSpared LimitsAreFair NumbersRise UsedKept AnswerIsSound ExportIsKept LockedKept PicturesRight PageSettles LegsPayRight
PROPERTIES InvitationsExact ForkShowsTemplate
CHECK_DEADLOCK FALSE
