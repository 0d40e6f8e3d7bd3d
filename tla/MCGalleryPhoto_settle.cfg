CONSTANTS
  Photos = {1}
  Imported = {}
  Albums = {"loose", "strict"}
  Contents = {"good", "bad"}
  ContentOf <- AllBad
  Reviewers = {"ann", "bob"}
  TakenBy <- MCTakenBy
  Grade <- MCGrade
  Processes = {w1}
  Copies = 1
  Requests = {q1}
  Attempts = 2
  Kinds = {"upload", "reject", "reprocess", "reset"}
  RejectReasons = {"other"}
  MayFail = TRUE
  MayCrash = FALSE
  Nobody = Nobody
  NoContent = NoContent
CHECK_DEADLOCK FALSE
SPECIFICATION FairSpec
PROPERTY EveryPhotoSettles
