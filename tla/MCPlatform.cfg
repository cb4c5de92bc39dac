CONSTANTS
  ServerIDs = {x1, x2}
  KeyIDs = {1, 2, 3, 4, 5, 6}
  KeyLife = 4
  TokenLife = 2
  MaxTime = 6
  MaxTokens = 1
  NoKey = NoKey
  Nobody = Nobody
  DeadSession = DeadSession
  EventIDs = {1, 2, 3, 4}
  MaxSize = 2
  MaxSaves = 2
  SitePages = {p1}
  SitePosts = {p1}
  SiteEditors = {x1, x2}
  SiteDates = {1}
  LastSecond = 2
  LastEdition = 2
  NoCopy = NoCopy
  NoEdit = NoEdit
  NoView = NoView
  FileIDs = {1, 2}
  Texts = {1, 2}
  FileSizes = {0, 1, 2}
  SmallFile = 1
  Downloads = {x1, x2}
  NoRange = NoRange
  Malformed = Malformed
  OpenEnd = OpenEnd
  NoDownload = NoDownload
  NoAnswer = NoAnswer
  NoKept = NoKept
  ProductIDs = {k1, k2}
  ProductPageIDs = {1, 2, 3}
  CouponIDs = {c1}
  Codes = {o1}
  Managers = {x1, x2}
  MaxTexts = 3
  NoTask = NoTask
  NoLeaf = NoLeaf
  NoCoupon = NoCoupon
SPECIFICATION MCSpec
SYMMETRY Symmetry
INVARIANTS
  PlatformTypeOK
  TasksRunOnce
  KeysOutliveTokens
  EventsAreKept
  AnswersAreRight
  CatalogueIsKept
CHECK_DEADLOCK FALSE
