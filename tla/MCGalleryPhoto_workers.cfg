CONSTANTS
  Photos = {1, 2}
  Imported = {2}
  Albums = {"loose"}
  Contents = {"good", "bad"}
  ContentOf <- SameContent
  Reviewers = {"ann", "bob"}
  TakenBy <- MCTakenBy
  Grade <- MCGrade
  Processes = {w1, w2}
  Copies = 2
  Requests = {q1}
  Attempts = 2
  Kinds = {"upload", "import"}
  RejectReasons = {"other"}
  MayFail = TRUE
  MayCrash = TRUE
  Nobody = Nobody
  NoContent = NoContent
CHECK_DEADLOCK FALSE
SPECIFICATION Spec
INVARIANTS TypeOK ProcessedPhotosAreReady DuplicatesAreOlder
