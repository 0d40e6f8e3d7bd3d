CONSTANTS
  Photos = {2}
  Imported = {}
  Albums = {"loose"}
  Contents = {"good", "bad"}
  ContentOf <- SameContent
  Reviewers = {"ann", "bob"}
  TakenBy <- MCTakenBy
  Grade <- MCGrade
  Processes = {w1}
  Copies = 1
  Requests = {q1, q2}
  Attempts = 2
  Kinds = {"upload", "approve", "reprocess"}
  RejectReasons = {"other"}
  MayFail = FALSE
  MayCrash = FALSE
  Nobody = Nobody
  NoContent = NoContent
CHECK_DEADLOCK FALSE
SPECIFICATION Spec
PROPERTY ReviewsSurviveReprocessing
