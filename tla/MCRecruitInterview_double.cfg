CONSTANTS
  Applicants = {a1}
  Requests = {p1, p2}
  Events = {e1}
  Roles <- MCRoles
  Collections = {"form"}
  Times = {0, 1}
  Rows <- MCRows
  RoleOf <- MCRoleOf
  TimeOf <- MCTimeOf
  CollectionOf <- MCCollectionOf
  Mandatory = {"hr"}
  InitialRows <- MCRows
  InitialRoles = {"dev"}
  Kinds = {"book"}
  Serial = FALSE
  MayCrash = FALSE
  CalendarOn = FALSE
  CalendarFails = FALSE
  NoOne = NoOne
  Absent = Absent
  NoEvent = NoEvent
  NoTime = NoTime
  NoCollection = NoCollection
SPECIFICATION Spec
INVARIANTS OneSlotPerApplicant
