CONSTANTS
  Applicants = {a1, a2}
  Requests = {p1, p2}
  Events = {e1, e2, e3}
  Roles <- MCRoles
  Collections = {"form"}
  Times = {0, 1}
  Rows <- MCRows
  RoleOf <- MCRoleOf
  TimeOf <- MCTimeOf
  CollectionOf <- MCCollectionOf
  Mandatory = {"hr"}
  InitialRows <- MCRows
  InitialRoles = {"dev"}
  Kinds = {"book", "cancel", "select", "answer"}
  Serial = TRUE
  MayCrash = FALSE
  CalendarOn = TRUE
  CalendarFails = FALSE
  NoOne = NoOne
  Absent = Absent
  NoEvent = NoEvent
  NoTime = NoTime
  NoCollection = NoCollection
SPECIFICATION Spec
SYMMETRY Symmetry
INVARIANTS OneSlotPerApplicant BookingsMatchRoles NoOrphanEvent
