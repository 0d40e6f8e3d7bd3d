SPECIFICATION Spec
SYMMETRY Symmetry
CHECK_DEADLOCK FALSE
CONSTANTS
  Requests = {r1, r2, r3}
  Areas = {"scheduler", "registration", "members", "albums", "photoStream", "activities"}
  Schedules = {"upcoming", "starting", "older"}
  Configured <- MCConfigured
  Settings = {"s1", "s2"}
  Profiles = {"ann"}
  Roles = {pr, it}
  MaxTime = 4
  OldSettings <- MCOldSettings
  NewDtos <- MCNewDtos
  EditDtos <- MCEditDtos
  Deadlines = {3}
  None = None
  Accounts = {"g", "d", "e", "l"}
  ProviderOf <- MCProviderOf
  EmailOf <- MCEmailOf
  Emails = {"x", "y"}
  NoEmail = NoEmail
  Nobody = Nobody
  ProfileIds = {1, 2, 3}
  TokenIds = {1, 2, 3}
  People = {"ann", "bob"}
  StudentIds = {"s1", "s2", "s3"}
  Years = {1}
  NoProfile = NoProfile
  Candidates <- MCCandidates
  StudentRows = {1, 2, 3, 4, 5}
  OldStudents <- MCOldStudents
  OldUsers <- MCOldUsers
  TeamYears = {1, 2}
  Teams = {"t", "u"}
  Outsider = "nobody"
  RoleIds = {1, 2, 3, 4, 5, 6, 7, 8}
  OldGuilds <- MCOldGuilds
  OldTeams <- MCOldTeams
  AlbumIds = {1, 2, 3, 4, 5}
  Folders = {"f", "g"}
  NoFolder = NoFolder
  NoAlbum = NoAlbum
  Members = {"m", "n"}
  Photos = {"a", "b"}
  NoPhoto = NoPhoto
  HasEmail = {"m"}
  Sizes = {10, 220, 480, 1200, 2160}
  Thumbnail = 220
  Preview = 2160
  NoSize = 0
  UploadEnabled = TRUE
  Applicants = {"ann"}
  FormRoles = {"m", "r"}
  FormCollections = {"c", "d"}
  NoCollection = NoCollection
  Questions = {"q", "u"}
  AnswerIds = {1, 2, 3}
  Texts = {"yes", "---"}
  Meaningless = {"---"}
  Unanswered = Unanswered
  Bodies <- MCBodies
  OldForms <- MCOldForms
  Activity = {"x", "y"}
  TagTitles = {"sport", "music"}
  TagIds = {1, 2, 3, 4}
  Videos = {"v"}
  Owners = {"a", "b"}
  Uids = {"ann", "bob"}
  GroupNames = {"staff", "pr"}
  FullNames = {"Ann"}
  NoName = "none"
  Passwords = {"old", "new"}
  Searches <- MCSearches
  OldAccounts <- MCOldAccounts
  AnyValue = "*"
  Meetings = {"x", "y"}
  Events <- MCEvents
  OldCalendars <- MCOldCalendars
  Plans <- MCPlans
  Unit = 2
  Attempts = 2
  LastTick = 5
INVARIANTS
  EveryJobIsScheduled
  AccountsKeepTheirProfile
  RanksDiffer
  MembersStayWithinLimits
  AlbumsHaveTasks
  RankingsStand
  CopiesAreGood
  ActivitiesHaveTheirTags
