\* Six events on four days and two months, three bills of two days, pages of two
\* rows, three URLs; writers and readers are explored apart.
CONSTANTS
  Event <- MCEvent
  Bill <- MCBill
  FirstDay = 4
  LastDay = 7
  Ttl = 5
  MaxSyncs = 2
  MonthDays <- MCMonthDays
  BreakdownLimit = 200
  Season = 2
  History = 4
  Horizon = 4
  DefaultOrg = "acme"
  RangeDays <- MCRangeDays
  SaneTags = {"pr"}
  PageSize = 2
  Typed <- MCTyped
  MaxVisits = 3
SPECIFICATION Spec
CONSTRAINT HalfAtATime
CHECK_DEADLOCK FALSE
INVARIANTS
  UnreadRollupsAgree
  WalkShowsAll
  FormMatchesUrl
  UnreadReconAgree
  UnreadForecastFollows
  MergesInvisible
