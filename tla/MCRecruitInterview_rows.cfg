CONSTANTS
  Applicants = {a1, a2}
  Requests = {p1, p2}
  Events = {e1}
  Roles <- MCRoles
  Collections = {"form"}
  Times = {0, 1}
  Rows <- MCRows
  RoleOf <- MCRoleOf
  TimeOf <- MCTimeOf
  CollectionOf <- MCCollectionOf
  Mandatory = {"hr"}
  InitialRows <- FirstRows
  InitialRoles = {"dev"}
  Kinds = {"book", "cancel", "add", "remove", "clock"}
  Serial = FALSE
  MayCrash = TRUE
  CalendarOn = FALSE
  CalendarFails = FALSE
  NoOne = NoOne
  Absent = Absent
  NoEvent = NoEvent
  NoTime = NoTime
  NoCollection = NoCollection
SPECIFICATION Spec
SYMMETRY Symmetry
INVARIANTS TypeOK
PROPERTIES BookingsAreComplete AllocationSpec
