CONSTANTS
  Photos = {1, 2}
  Imported = {2}
  Albums = {"loose", "strict"}
  Contents = {"good", "bad"}
  ContentOf <- AllBad
  Reviewers = {"ann", "bob"}
  TakenBy <- MCTakenBy
  Grade <- MCGrade
  Processes = {w1}
  Copies = 1
  Requests = {q1, q2}
  Attempts = 2
  Kinds = {"upload", "import", "delete", "move", "approve", "reject"}
  RejectReasons = {"other"}
  MayFail = FALSE
  MayCrash = FALSE
  Nobody = Nobody
  NoContent = NoContent
CHECK_DEADLOCK FALSE
SPECIFICATION Spec
INVARIANTS OneCopy
PROPERTY LifecycleSpec
SYMMETRY Symmetry
