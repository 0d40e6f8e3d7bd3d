--------------------------- MODULE GalleryPhotoProofs ---------------------------
(***************************************************************************)
(* Theorems about GalleryPhoto, for every set of photos, albums, contents, *)
(* requests and worker processes, and whatever may fail or crash.          *)
(***************************************************************************)
EXTENDS GalleryPhoto, FiniteSetTheorems, TLAPS

(***************************************************************************)
(* Type correctness. What runs, runs in some process: that is who reports  *)
(* when it fails.                                                          *)
(***************************************************************************)
RunnersAreProcesses == \A j \in Jobs : Running(j) => job[j].by \in Processes

Typed == TypeOK /\ RunnersAreProcesses

(* The rows that the statements write. *)
LEMMA BlankType ==
  ASSUME NEW a \in Albums, NEW c \in Contents \cup {NoContent}
  PROVE  Blank(a, c) \in RowType
  BY DEF Blank, RowType, Reasons

LEMMA ValidatedType ==
  ASSUME NEW r \in RowType, NEW c \in Contents, NEW reason \in Reasons
  PROVE  [r EXCEPT !.md5 = c, !.validated = TRUE, !.reason = reason] \in RowType
  BY DEF RowType

LEMMA RejectedType ==
  ASSUME NEW r \in RowType, NEW reason \in Reasons
  PROVE  [r EXCEPT !.reason = reason] \in RowType
  BY DEF RowType

LEMMA ProcessedType ==
  ASSUME NEW r \in RowType
  PROVE  [r EXCEPT !.processed = TRUE] \in RowType
  BY DEF RowType

LEMMA FailedType ==
  ASSUME NEW r \in RowType, NEW v \in BOOLEAN, NEW c \in BOOLEAN
  PROVE  [r EXCEPT !.failed = TRUE, !.validated = @ \/ v, !.processed = @ \/ c] \in RowType
  BY DEF RowType

LEMMA ReviewedType ==
  ASSUME NEW r \in RowType, NEW who \in Reviewers \cup {Nobody}, NEW reason \in Reasons
  PROVE  [r EXCEPT !.reviewer = who, !.reason = reason] \in RowType
  BY DEF RowType

LEMMA MovedType ==
  ASSUME NEW r \in RowType, NEW a \in Albums
  PROVE  [r EXCEPT !.album = a] \in RowType
  BY DEF RowType

LEMMA SavedType ==
  ASSUME NEW r \in RowType, NEW read \in RowType, NEW columns \in SUBSET Columns
  PROVE  [c \in Columns |-> IF c \in columns THEN read[c] ELSE r[c]] \in RowType
  BY DEF RowType, Columns

(* The jobs. *)
LEMMA RetriedJobType ==
  ASSUME NEW r \in JobType, NEW tries \in 0..Attempts - 1, NEW stalled \in BOOLEAN
  PROVE  [r EXCEPT !.tries = tries, !.stalled = stalled] \in JobType
  BY DEF JobType

LEMMA NewJobType ==
  ASSUME NEW a \in Albums, NEW tries \in 0..Attempts - 1, NEW stalled \in BOOLEAN
  PROVE  /\ NewJob(a) \in JobType
         /\ [NewJob(a) EXCEPT !.tries = tries, !.stalled = stalled] \in JobType
<1>1. 0 \in 0..Attempts - 1
  BY ConstantsAssumption
<1>2. NewJob(a) \in JobType
  BY <1>1 DEF NewJob, JobType
<1> QED
  BY <1>2, RetriedJobType

(* A job that is there. *)
LEMMA JobThere ==
  ASSUME TypeOK, NEW j \in Jobs, job[j].step # "none"
  PROVE  /\ job[j] \in JobType
         /\ job[j].album \in Albums
         /\ job[j].tries \in 0..Attempts - 1
         /\ job[j].stalled \in BOOLEAN
         /\ PhotoOf(j) \in Photos
         /\ QueueOf(j) \in Queues
  BY DEF TypeOK, NoJob, JobType, Jobs, PhotoOf, QueueOf

LEMMA AddedType ==
  ASSUME TypeOK, NEW queue, NEW S, NEW a \in Albums
  PROVE  Added(queue, S, a) \in [Jobs -> JobType \cup {NoJob}]
<1>1. 0 \in 0..Attempts - 1 /\ FALSE \in BOOLEAN
  BY ConstantsAssumption
<1>2. NewJob(a) \in JobType
  BY <1>1, NewJobType
<1> QED
  BY <1>2 DEF TypeOK, Added

LEMMA RetriedType ==
  ASSUME TypeOK, NEW j \in Jobs, job[j].step # "none"
  PROVE  Retried(j) \in JobType \cup {NoJob}
<1>1. CASE job[j].tries + 1 < Attempts
  <2>1. job[j].tries + 1 \in 0..Attempts - 1
    BY <1>1, JobThere, ConstantsAssumption
  <2> QED
    BY <1>1, <2>1, JobThere, NewJobType DEF Retried
<1>2. CASE ~(job[j].tries + 1 < Attempts)
  BY <1>2 DEF Retried
<1> QED
  BY <1>1, <1>2

(* The requests. *)
LEMMA RequestTypes ==
  /\ NoRequest \in RequestType \cup {NoRequest}
  /\ \A S \in SUBSET Photos, a \in Albums :
       [step |-> "enqueue", photos |-> S, album |-> a] \in RequestType
  /\ \A S \in SUBSET Photos, who \in Reviewers, kind \in {"approve", "reject"} :
       [step |-> kind, photos |-> S, who |-> who] \in RequestType
  /\ \A S \in SUBSET Photos, read \in RowType :
       [step |-> "save", photos |-> S, read |-> read] \in RequestType
  /\ \A S \in SUBSET Photos, read \in RowType, columns \in SUBSET Columns :
       [step |-> "write", photos |-> S, read |-> read, columns |-> columns] \in RequestType
  BY DEF RequestType

LEMMA RequestThere ==
  ASSUME TypeOK, NEW q \in Requests
  PROVE  /\ req[q].step = "enqueue" => req[q].photos \in SUBSET Photos /\ req[q].album \in Albums
         /\ req[q].step \in {"approve", "reject"} =>
              req[q].photos \in SUBSET Photos /\ req[q].who \in Reviewers
         /\ req[q].step = "save" => req[q].photos \in SUBSET Photos /\ req[q].read \in RowType
         /\ req[q].step = "write" =>
              /\ req[q].photos \in SUBSET Photos /\ req[q].read \in RowType
              /\ req[q].columns \in SUBSET Columns
<1>1. req[q] \in RequestType \cup {NoRequest}
  BY DEF TypeOK
<1> HIDE DEF RowType
<1> QED
  BY <1>1 DEF RequestType, NoRequest

(* There is a rank left for rows that are inserted. *)
LEMMA RankLeft ==
  ASSUME TypeOK, NEW S \in SUBSET Photos, S # {}, S \cap Inserted = {}
  PROVE  1 + Cardinality({born[x] : x \in Inserted}) \in 1..Cardinality(Photos)
<1> DEFINE image == {born[x] : x \in Inserted}
           f == [x \in Inserted |-> born[x]]
<1>1. PICK p \in S : p \notin Inserted
  OBVIOUS
<1>2. Inserted \in SUBSET (Photos \ {p})
  BY <1>1 DEF Inserted
<1>3. /\ IsFiniteSet(Photos \ {p})
      /\ Cardinality(Photos \ {p}) = Cardinality(Photos) - 1
  BY <1>1, ConstantsAssumption, FS_RemoveElement
<1>4. IsFiniteSet(Inserted) /\ Cardinality(Inserted) <= Cardinality(Photos) - 1
  BY <1>2, <1>3, FS_Subset
<1>5. f \in Surjection(Inserted, image)
  BY DEF Surjection
<1>6. IsFiniteSet(image) /\ Cardinality(image) <= Cardinality(Inserted)
  BY <1>4, <1>5, FS_Surjection
<1>7. /\ Cardinality(image) \in Nat
      /\ Cardinality(Inserted) \in Nat
      /\ Cardinality(Photos) \in Nat
  BY <1>4, <1>6, ConstantsAssumption, FS_CardinalityType
<1> QED
  BY <1>4, <1>6, <1>7

LEMMA InitType == Init => TypeOK
<1> SUFFICES ASSUME Init PROVE TypeOK
  OBVIOUS
<1>1. Cardinality(Photos) \in Nat
  BY ConstantsAssumption, FS_CardinalityType
<1>2. ASSUME NEW p \in Photos
      PROVE  row[p] \in RowType
  <2>1. (CHOOSE a \in Albums : TRUE) \in Albums
    BY ConstantsAssumption
  <2> QED
    BY <2>1, BlankType DEF Init
<1> QED
  BY <1>1, <1>2 DEF Init, TypeOK

LEMMA ArriveType ==
  ASSUME TypeOK, NEW q \in Requests, NEW kind, NEW S \in SUBSET Photos, NEW a \in Albums,
         Arrive(q, kind, S, a)
  PROVE  TypeOK'
<1>1. ASSUME NEW p \in Photos
      PROVE  /\ row'[p] \in RowType
             /\ born'[p] \in 0..Cardinality(Photos)
  <2>1. Blank(a, ContentOf[p]) \in RowType /\ Blank(a, NoContent) \in RowType
    BY ConstantsAssumption, BlankType
  <2>2. 1 + Cardinality({born[x] : x \in Inserted}) \in 0..Cardinality(Photos)
    BY RankLeft DEF Arrive
  <2> QED
    BY <2>1, <2>2 DEF Arrive, TypeOK
<1>2. req' \in [Requests -> RequestType \cup {NoRequest}]
  BY RequestTypes DEF Arrive, TypeOK
<1> QED
  BY <1>1, <1>2 DEF Arrive, TypeOK

LEMMA RequestActionTypes ==
  ASSUME TypeOK, NEW q \in Requests,
         Enqueue(q) \/ WriteReview(q) \/ SaveDiff(q) \/ SaveWrite(q) \/ ServerCrash(q)
  PROVE  TypeOK'
<1>1. CASE Enqueue(q)
  <2>1. job' \in [Jobs -> JobType \cup {NoJob}]
    BY <1>1, RequestThere, AddedType DEF Enqueue
  <2> QED
    BY <1>1, <2>1 DEF Enqueue, TypeOK
<1>2. CASE WriteReview(q)
  <2>1. PICK reason \in RejectReasons :
          row' = [p \in Photos |->
                    IF p \notin req[q].photos THEN row[p]
                    ELSE [row[p] EXCEPT
                            !.reviewer = req[q].who,
                            !.reason = IF req[q].step = "reject" THEN reason ELSE @]]
    BY <1>2 DEF WriteReview
  <2>2. ASSUME NEW p \in Photos
        PROVE  row'[p] \in RowType
    <3>1. reason \in Reasons /\ row[p] \in RowType /\ row[p].reason \in Reasons
      BY ConstantsAssumption DEF TypeOK, RowType
    <3>2. req[q].who \in Reviewers \cup {Nobody}
      BY <1>2, RequestThere DEF WriteReview
    <3> QED
      BY <2>1, <3>1, <3>2, ReviewedType
  <2> QED
    BY <1>2, <2>1, <2>2 DEF WriteReview, TypeOK
<1>3. CASE SaveDiff(q)
  <2>1. PICK p \in req[q].photos :
          LET changed == {c \in Columns : req[q].read[c] # row[p][c]} IN
          req' = [req EXCEPT ![q] =
                    [step |-> "write", photos |-> {p}, read |-> req[q].read,
                     columns |-> changed]]
    BY <1>3 DEF SaveDiff
  <2>2. {p} \in SUBSET Photos /\ req[q].read \in RowType
    BY <1>3, RequestThere DEF SaveDiff
  <2>3. req' \in [Requests -> RequestType \cup {NoRequest}]
    BY <2>1, <2>2, RequestTypes DEF TypeOK
  <2> QED
    BY <1>3, <2>3 DEF SaveDiff, TypeOK
<1>4. CASE SaveWrite(q)
  <2>1. /\ req[q].photos \in SUBSET Photos
        /\ req[q].read \in RowType
        /\ req[q].columns \in SUBSET Columns
        /\ req[q].read.album \in Albums
    BY <1>4, RequestThere DEF SaveWrite, RowType
  <2>2. ASSUME NEW p \in Photos
        PROVE  row'[p] \in RowType
    <3>1. row[p] \in RowType
      BY DEF TypeOK
    <3>2. [c \in Columns |-> IF c \in req[q].columns THEN req[q].read[c] ELSE row[p][c]]
            \in RowType
      BY <2>1, <3>1, SavedType
    <3> QED
      BY <1>4, <3>1, <3>2 DEF SaveWrite
  <2>3. req' \in [Requests -> RequestType \cup {NoRequest}]
    BY <1>4, <2>1, RequestTypes DEF SaveWrite, TypeOK
  <2> QED
    BY <1>4, <2>2, <2>3 DEF SaveWrite, TypeOK
<1>5. CASE ServerCrash(q)
  BY <1>5 DEF ServerCrash, TypeOK
<1> QED
  BY <1>1, <1>2, <1>3, <1>4, <1>5

LEMMA WorkTypes ==
  ASSUME Typed, NEW j \in Jobs, Work(j) \/ AttemptFails(j)
  PROVE  TypeOK'
<1> USE DEF Typed
<1>0. job[j] \in JobType /\ PhotoOf(j) \in Photos /\ QueueOf(j) \in Queues
  BY JobThere DEF Work, VFind, VCommit, VQueue, CStore, CUpdate, AttemptFails, Running
<1>1. CASE VFind(j)
  <2>1. PICK dups \in Nonrecent(PhotoOf(j)) :
          job' = [job EXCEPT ![j].step = "commit", ![j].dups = dups]
    BY <1>1 DEF VFind
  <2>2. dups \in SUBSET Photos
    BY DEF Nonrecent
  <2>3. [job[j] EXCEPT !.step = "commit", !.dups = dups] \in JobType
    BY <1>0, <2>2 DEF JobType
  <2> QED
    BY <1>1, <2>1, <2>3 DEF VFind, TypeOK
<1>2. CASE VCommit(j)
  <2>1. Verdict(j) \in Reasons
    <3>1. Grade[job[j].album, ContentOf[PhotoOf(j)]] \in Grades
      <4>1. job[j].album \in Albums /\ ContentOf[PhotoOf(j)] \in Contents
        BY <1>0, ConstantsAssumption DEF JobType
      <4> QED
        BY <4>1, ConstantsAssumption
    <3> QED
      BY <3>1 DEF Verdict, Reasons, Grades
  <2>2. ASSUME NEW x \in Photos
        PROVE  row'[x] \in RowType
    <3>1. row[x] \in RowType /\ row[x].reason \in Reasons /\ ContentOf[x] \in Contents
      BY ConstantsAssumption DEF TypeOK, RowType
    <3>2. "duplicated" \in Reasons
      BY DEF Reasons
    <3> QED
      BY <1>2, <2>1, <3>1, <3>2, ValidatedType, RejectedType DEF VCommit
  <2>3. [job[j] EXCEPT !.step = "queue", !.dups = {}] \in JobType
    BY <1>0 DEF JobType
  <2> QED
    BY <1>2, <2>2, <2>3 DEF VCommit, TypeOK
<1>3. CASE VQueue(j)
  <2>1. Added("conversion", {PhotoOf(j)}, job[j].album) \in [Jobs -> JobType \cup {NoJob}]
    BY <1>0, AddedType DEF JobType
  <2> QED
    BY <1>3, <2>1 DEF VQueue, TypeOK
<1>4. CASE CStore(j)
  <2>1. [job[j] EXCEPT !.step = "stored"] \in JobType
    BY <1>0 DEF JobType
  <2> QED
    BY <1>0, <1>4, <2>1 DEF CStore, TypeOK
<1>5. CASE CUpdate(j)
  <2>1. [row[PhotoOf(j)] EXCEPT !.processed = TRUE] \in RowType
    BY <1>0, ProcessedType DEF TypeOK
  <2> QED
    BY <1>5, <2>1 DEF CUpdate, TypeOK
<1>6. CASE AttemptFails(j)
  <2>1. Retried(j) \in JobType \cup {NoJob}
    BY <1>6, RetriedType DEF AttemptFails, Running
  <2>2. job[j].by \in Processes
    BY <1>6 DEF AttemptFails, RunnersAreProcesses
  <2> QED
    BY <1>0, <1>6, <2>1, <2>2 DEF AttemptFails, TypeOK
<1> QED
  BY <1>1, <1>2, <1>3, <1>4, <1>5, <1>6 DEF Work

LEMMA ModeratorTypes ==
  ASSUME TypeOK
  PROVE  /\ \A q \in Requests, kind \in {"approve", "reject"}, p \in Photos, who \in Reviewers :
              Review(q, kind, p, who) => TypeOK'
         /\ \A q \in Requests, p \in Photos : Reprocess(q, p) => TypeOK'
         /\ \A p \in Photos : ResetApprovals(p) \/ DeletePhoto(p) => TypeOK'
         /\ \A S \in SUBSET Photos, a \in Albums : MovePhotos(S, a) => TypeOK'
         /\ \A r \in reports : OnFailed(r) => TypeOK'
<1>1. ASSUME NEW q \in Requests, NEW kind \in {"approve", "reject"}, NEW p \in Photos,
             NEW who \in Reviewers, Review(q, kind, p, who)
      PROVE  TypeOK'
  <2>1. [step |-> kind, photos |-> {p}, who |-> who] \in RequestType
    BY RequestTypes
  <2> QED
    BY <1>1, <2>1 DEF Review, TypeOK
<1>2. ASSUME NEW q \in Requests, NEW p \in Photos, Reprocess(q, p)
      PROVE  TypeOK'
  <2>1. row[p].album \in Albums /\ row[p].md5 \in Contents \cup {NoContent}
    BY DEF TypeOK, RowType
  <2>2. [step |-> "save", photos |-> {p}, read |-> Blank(row[p].album, row[p].md5)]
          \in RequestType
    BY <2>1, BlankType, RequestTypes
  <2> QED
    BY <1>2, <2>2 DEF Reprocess, TypeOK
<1>3. ASSUME NEW p \in Photos, ResetApprovals(p)
      PROVE  TypeOK'
  <2>1. "none" \in Reasons
    BY DEF Reasons
  <2>2. [row[p] EXCEPT !.reviewer = Nobody, !.reason = "none"] \in RowType
    BY <2>1, ReviewedType DEF TypeOK
  <2> QED
    BY <1>3, <2>2 DEF ResetApprovals, TypeOK
<1>4. ASSUME NEW p \in Photos, DeletePhoto(p)
      PROVE  TypeOK'
  BY <1>4 DEF DeletePhoto, TypeOK
<1>5. ASSUME NEW S \in SUBSET Photos, NEW a \in Albums, MovePhotos(S, a)
      PROVE  TypeOK'
  <2>1. \A p \in Photos : [row[p] EXCEPT !.album = a] \in RowType
    BY MovedType DEF TypeOK
  <2> QED
    BY <1>5, <2>1 DEF MovePhotos, TypeOK
<1>6. ASSUME NEW r \in reports, OnFailed(r)
      PROVE  TypeOK'
  <2>1. r.photo \in Photos
    BY DEF TypeOK
  <2>2. [row[r.photo] EXCEPT !.failed = TRUE,
                             !.validated = @ \/ (r.queue = "validation"),
                             !.processed = @ \/ (r.queue = "conversion")] \in RowType
    BY <2>1, FailedType DEF TypeOK
  <2> QED
    BY <1>6, <2>1, <2>2 DEF OnFailed, TypeOK
<1> QED
  BY <1>1, <1>2, <1>3, <1>4, <1>5, <1>6

LEMMA CrashType ==
  ASSUME TypeOK, NEW w \in Processes, WorkerCrash(w)
  PROVE  TypeOK'
<1>1. ASSUME NEW j \in Jobs
      PROVE  job'[j] \in JobType \cup {NoJob}
  <2>1. CASE Running(j) /\ job[j].by = w /\ ~job[j].stalled
    <3>1. [NewJob(job[j].album) EXCEPT !.tries = job[j].tries, !.stalled = TRUE] \in JobType
      BY <2>1, JobThere, NewJobType DEF Running
    <3> QED
      BY <2>1, <3>1 DEF WorkerCrash
  <2>2. CASE ~(Running(j) /\ job[j].by = w /\ ~job[j].stalled)
    BY <2>2 DEF WorkerCrash, TypeOK
  <2> QED
    BY <2>1, <2>2
<1>2. reports' \subseteq [queue : Queues, photo : Photos, by : Processes]
  <2>1. PICK told \in SUBSET Jobs, v \in Processes :
          /\ \A j \in told : Running(j)
          /\ reports' = {r \in reports : r.by # w} \cup
               {[queue |-> QueueOf(j), photo |-> PhotoOf(j), by |-> v] : j \in told}
    BY DEF WorkerCrash
  <2>2. \A j \in told : QueueOf(j) \in Queues /\ PhotoOf(j) \in Photos
    BY <2>1, JobThere DEF Running
  <2> QED
    BY <2>1, <2>2 DEF TypeOK
<1>3. job' = [j \in Jobs |-> job'[j]]
  BY DEF WorkerCrash
<1> QED
  BY <1>1, <1>2, <1>3 DEF WorkerCrash, TypeOK

LEMMA TakeType ==
  ASSUME TypeOK, NEW j \in Jobs, NEW w \in Processes, Take(j, w)
  PROVE  TypeOK'
<1>1. job[j] \in JobType
  BY JobThere DEF Take
<1>2. \A step \in {"validate", "convert"} : [job[j] EXCEPT !.by = w, !.step = step] \in JobType
  BY <1>1 DEF JobType
<1> QED
  BY <1>2 DEF Take, TypeOK

(* A job keeps its process while it runs, and gets one when it is taken. *)
LEMMA NextRunners ==
  ASSUME Typed, [Next]_vars
  PROVE  RunnersAreProcesses'
<1> SUFFICES ASSUME NEW i \in Jobs, Running(i)'
             PROVE  job'[i].by \in Processes
  BY DEF RunnersAreProcesses
<1> USE DEF Typed
<1>0. Running(i) => job[i].by \in Processes
  BY DEF RunnersAreProcesses
<1>1. CASE job' = job
  BY <1>0, <1>1 DEF Running
<1>2. ASSUME NEW queue, NEW S, NEW a, job' = Added(queue, S, a)
      PROVE  job'[i].by \in Processes
  BY <1>0, <1>2 DEF Added, Running, NewJob
<1>3. ASSUME NEW j \in Jobs, Work(j) \/ AttemptFails(j)
      PROVE  job'[i].by \in Processes
  <2>1. job[j] \in JobType
    BY <1>3, JobThere
       DEF Work, VFind, VCommit, VQueue, CStore, CUpdate, AttemptFails, Running
  <2>2. job \in [Jobs -> JobType \cup {NoJob}]
    BY DEF TypeOK
  <2>3. CASE VFind(j) \/ VCommit(j) \/ CStore(j) \/ CUpdate(j)
    <3>1. job[j].step \in {"validate", "commit", "convert", "stored"}
      BY <2>3 DEF VFind, VCommit, CStore, CUpdate
    <3>2. \/ job'[i] = job[i]
          \/ i = j /\ job'[i].step = "none"
          \/ i = j /\ job'[i].by = job[j].by
      <4>1. CASE VFind(j)
        BY <2>1, <2>2, <4>1 DEF VFind, JobType
      <4>2. CASE VCommit(j)
        BY <2>1, <2>2, <4>2 DEF VCommit, NoJob, JobType
      <4>3. CASE CStore(j) \/ CUpdate(j)
        BY <2>1, <2>2, <4>3 DEF CStore, CUpdate, NoJob, JobType
      <4> QED
        BY <2>3, <4>1, <4>2, <4>3
    <3> QED
      BY <1>0, <3>1, <3>2 DEF Running
  <2>4. CASE VQueue(j)
    BY <1>0, <2>2, <2>4 DEF VQueue, Running, NoJob, Added, NewJob
  <2>5. CASE AttemptFails(j)
    <3>1. Retried(j).step \in {"none", "waiting"}
      BY <2>1 DEF Retried, NewJob, NoJob
    <3> QED
      BY <1>0, <2>2, <2>5, <3>1 DEF AttemptFails, Running
  <2> QED
    BY <1>3, <2>3, <2>4, <2>5 DEF Work
<1>4. ASSUME NEW j \in Jobs, NEW w \in Processes, Take(j, w)
      PROVE  job'[i].by \in Processes
  BY <1>0, <1>4, JobThere DEF Take, Running, JobType, TypeOK
<1>5. ASSUME NEW w \in Processes, WorkerCrash(w)
      PROVE  job'[i].by \in Processes
  BY <1>0, <1>5 DEF WorkerCrash, Running, NewJob, NoJob
<1>6. CASE \E q \in Requests : Handle(q) \/ ServerCrash(q)
  BY <1>1, <1>2, <1>6 DEF Handle, Enqueue, WriteReview, SaveDiff, SaveWrite, ServerCrash
<1>7. CASE \/ \E q \in Requests, a \in Albums :
                ImportFiles(q, a) \/ \E p \in Photos : UploadFile(q, p, a)
           \/ \E q \in Requests, p \in Photos :
                \/ Reprocess(q, p)
                \/ \E who \in Reviewers, kind \in {"approve", "reject"} :
                     Review(q, kind, p, who)
           \/ \E r \in reports : OnFailed(r)
           \/ \E p \in Photos : ResetApprovals(p) \/ DeletePhoto(p)
           \/ \E S \in SUBSET Photos, a \in Albums : MovePhotos(S, a)
           \/ UNCHANGED vars
  BY <1>1, <1>7
     DEF ImportFiles, UploadFile, Arrive, Reprocess, Review, OnFailed, ResetApprovals,
         DeletePhoto, MovePhotos, vars
<1> QED
  BY <1>3, <1>4, <1>5, <1>6, <1>7 DEF Next

LEMMA NextTyped ==
  ASSUME Typed, [Next]_vars
  PROVE  Typed'
<1> SUFFICES TypeOK'
  BY NextRunners DEF Typed
<1> USE DEF Typed
<1>1. ASSUME NEW q \in Requests, NEW a \in Albums, ImportFiles(q, a)
      PROVE  TypeOK'
  BY <1>1, ArriveType, ConstantsAssumption DEF ImportFiles
<1>2. ASSUME NEW q \in Requests, NEW a \in Albums, NEW p \in Photos, UploadFile(q, p, a)
      PROVE  TypeOK'
  BY <1>2, ArriveType DEF UploadFile
<1>3. CASE \E q \in Requests : Handle(q) \/ ServerCrash(q)
  BY <1>3, RequestActionTypes DEF Handle
<1>4. CASE \E j \in Jobs : Work(j) \/ AttemptFails(j) \/ \E w \in Processes : Take(j, w)
  BY <1>4, WorkTypes, TakeType
<1>5. CASE UNCHANGED vars
  BY <1>5 DEF vars, TypeOK
<1> QED
  BY <1>1, <1>2, <1>3, <1>4, <1>5, ModeratorTypes, CrashType DEF Next

LEMMA InitTyped == Init => Typed
  BY InitType DEF Init, Typed, RunnersAreProcesses, Running, NoJob

(* Rows, jobs, reports and requests have their types. *)
THEOREM TypeCorrect == Spec => []TypeOK
<1>1. Spec => []Typed
  BY InitTyped, NextTyped, PTL DEF Spec
<1>2. Typed => TypeOK
  BY DEF Typed
<1> QED
  BY <1>1, <1>2, PTL
-------------------------------------------------------------------------------
(***************************************************************************)
(* What a step does to one row, column by column.                          *)
(***************************************************************************)

Arrives(p) ==
  /\ p \notin Inserted
  /\ \E a \in Albums, c \in {NoContent, ContentOf[p]} : row'[p] = Blank(a, c)

Keeps(p) ==
  /\ row'[p].failed = row[p].failed
  /\ row'[p].validated = row[p].validated
  /\ row'[p].processed = row[p].processed
  /\ row'[p].md5 = row[p].md5

Validates(p) ==
  \E j \in Jobs :
    /\ VCommit(j) /\ PhotoOf(j) = p
    /\ row'[p].failed = row[p].failed
    /\ row'[p].validated
    /\ row'[p].processed = row[p].processed
    /\ row'[p].md5 = ContentOf[p]
    /\ row'[p].reason = IF Verdict(j) = "none" THEN row[p].reason ELSE Verdict(j)
    /\ row'[p].reviewer = row[p].reviewer

Duplicates(p) ==
  \E j \in Jobs :
    /\ VCommit(j) /\ p # PhotoOf(j) /\ p \in job[j].dups
    /\ Keeps(p)
    /\ row'[p].reason = "duplicated"
    /\ row'[p].reviewer = row[p].reviewer

Reviews(p) ==
  /\ \E q \in Requests : WriteReview(q) /\ p \in req[q].photos
  /\ row'[p].reviewer \in Reviewers
  /\ row'[p].reason \in RejectReasons \cup {row[p].reason}

Resets(p) == "reset" \in Kinds /\ row'[p].reviewer = Nobody /\ row'[p].reason = "none"

Moves(p) == row'[p].reviewer = row[p].reviewer /\ row'[p].reason = row[p].reason

Moderates(p) == Keeps(p) /\ (Reviews(p) \/ Resets(p) \/ Moves(p))

Converts(p) ==
  \E j \in Jobs :
    /\ CUpdate(j) /\ PhotoOf(j) = p
    /\ row'[p].failed = row[p].failed
    /\ row'[p].validated = row[p].validated
    /\ row'[p].processed
    /\ row'[p].md5 = row[p].md5
    /\ row'[p].reason = row[p].reason
    /\ row'[p].reviewer = row[p].reviewer

Fails(p) ==
  /\ row'[p].failed
  /\ row[p].validated => row'[p].validated
  /\ row'[p].md5 = row[p].md5
  /\ row'[p].reason = row[p].reason
  /\ row'[p].reviewer = row[p].reviewer

Saves(p) ==
  \E q \in Requests :
    /\ SaveWrite(q) /\ p \in req[q].photos
    /\ row'[p].md5 \in {row[p].md5, req[q].read.md5}
    /\ row'[p].reason \in {row[p].reason, req[q].read.reason}

RowStep(p) ==
  \/ row'[p] = row[p]
  \/ Arrives(p) \/ Validates(p) \/ Duplicates(p) \/ Moderates(p) \/ Converts(p)
  \/ Fails(p) \/ Saves(p)

LEMMA RowSteps ==
  ASSUME Typed, [Next]_vars, NEW p \in Photos
  PROVE  RowStep(p)
<1> USE DEF Typed
<1>0. row \in [Photos -> RowType] /\ row[p] \in RowType
  BY DEF TypeOK
<1>1. ASSUME NEW q \in Requests, NEW kind, NEW S \in SUBSET Photos, NEW a \in Albums,
             Arrive(q, kind, S, a)
      PROVE  RowStep(p)
  <2>1. CASE p \in S
    <3>1. p \notin Inserted
      BY <1>1, <2>1 DEF Arrive
    <3>2. row'[p] = Blank(a, IF kind = "upload" THEN ContentOf[p] ELSE NoContent)
      BY <1>1, <2>1 DEF Arrive
    <3> QED
      BY <3>1, <3>2 DEF RowStep, Arrives
  <2>2. CASE p \notin S
    BY <1>0, <1>1, <2>2 DEF Arrive, RowStep
  <2> QED
    BY <2>1, <2>2
<1>2. ASSUME NEW q \in Requests, WriteReview(q)
      PROVE  RowStep(p)
  <2>1. PICK reason \in RejectReasons :
          row' = [x \in Photos |->
                    IF x \notin req[q].photos THEN row[x]
                    ELSE [row[x] EXCEPT
                            !.reviewer = req[q].who,
                            !.reason = IF req[q].step = "reject" THEN reason ELSE @]]
    BY <1>2 DEF WriteReview
  <2>2. CASE p \in req[q].photos
    <3>1. row'[p] = [row[p] EXCEPT !.reviewer = req[q].who,
                        !.reason = IF req[q].step = "reject" THEN reason ELSE @]
      BY <2>1, <2>2
    <3>2. /\ row'[p].reason \in RejectReasons \cup {row[p].reason}
          /\ row'[p].reviewer = req[q].who
      BY <1>0, <3>1 DEF RowType
    <3>3. Keeps(p)
      BY <1>0, <3>1 DEF RowType, Keeps
    <3>4. req[q].who \in Reviewers
      BY <1>2, RequestThere DEF WriteReview
    <3> QED
      BY <1>2, <2>2, <3>2, <3>3, <3>4 DEF Reviews, Moderates, RowStep
  <2>3. CASE p \notin req[q].photos
    BY <2>1, <2>3 DEF RowStep
  <2> QED
    BY <2>2, <2>3
<1>3. ASSUME NEW q \in Requests, SaveWrite(q)
      PROVE  RowStep(p)
  <2>1. CASE p \in req[q].photos
    <3>1. /\ row'[p].md5 \in {row[p].md5, req[q].read.md5}
          /\ row'[p].reason \in {row[p].reason, req[q].read.reason}
      BY <1>3, <2>1 DEF SaveWrite, Columns
    <3> QED
      BY <1>3, <2>1, <3>1 DEF Saves, RowStep
  <2>2. CASE p \notin req[q].photos
    BY <1>3, <2>2 DEF SaveWrite, RowStep
  <2> QED
    BY <2>1, <2>2
<1>4. ASSUME NEW j \in Jobs, VCommit(j)
      PROVE  RowStep(p)
  <2>1. CASE p = PhotoOf(j)
    <3>1. row'[p] = [row[p] EXCEPT !.md5 = ContentOf[p], !.validated = TRUE,
                        !.reason = IF Verdict(j) = "none" THEN @ ELSE Verdict(j)]
      BY <1>4, <2>1 DEF VCommit
    <3>2. /\ row'[p].failed = row[p].failed
          /\ row'[p].validated
          /\ row'[p].processed = row[p].processed
          /\ row'[p].md5 = ContentOf[p]
          /\ row'[p].reason = IF Verdict(j) = "none" THEN row[p].reason ELSE Verdict(j)
          /\ row'[p].reviewer = row[p].reviewer
      BY <1>0, <3>1 DEF RowType
    <3> QED
      BY <1>4, <2>1, <3>2 DEF Validates, RowStep
  <2>2. CASE p # PhotoOf(j) /\ p \in job[j].dups
    <3>1. row'[p] = [row[p] EXCEPT !.reason = "duplicated"]
      BY <1>4, <2>2 DEF VCommit
    <3>2. /\ Keeps(p) /\ row'[p].reason = "duplicated"
          /\ row'[p].reviewer = row[p].reviewer
      BY <1>0, <3>1 DEF RowType, Keeps
    <3> QED
      BY <1>4, <2>2, <3>2 DEF Duplicates, RowStep
  <2>3. CASE p # PhotoOf(j) /\ p \notin job[j].dups
    BY <1>4, <2>3 DEF VCommit, RowStep
  <2> QED
    BY <2>1, <2>2, <2>3
<1>5. ASSUME NEW j \in Jobs, CUpdate(j)
      PROVE  RowStep(p)
  <2>1. CASE p = PhotoOf(j)
    <3>1. row'[p] = [row[p] EXCEPT !.processed = TRUE]
      BY <1>0, <1>5, <2>1 DEF CUpdate
    <3>2. /\ row'[p].failed = row[p].failed
          /\ row'[p].validated = row[p].validated
          /\ row'[p].processed
          /\ row'[p].md5 = row[p].md5
          /\ row'[p].reason = row[p].reason
          /\ row'[p].reviewer = row[p].reviewer
      BY <1>0, <3>1 DEF RowType
    <3> QED
      BY <1>5, <2>1, <3>2 DEF Converts, RowStep
  <2>2. CASE p # PhotoOf(j)
    BY <1>0, <1>5, <2>2 DEF CUpdate, RowStep
  <2> QED
    BY <2>1, <2>2
<1>6. ASSUME NEW r \in reports, OnFailed(r)
      PROVE  RowStep(p)
  <2>1. CASE p = r.photo
    <3>1. row'[p] = [row[p] EXCEPT !.failed = TRUE,
                                   !.validated = @ \/ (r.queue = "validation"),
                                   !.processed = @ \/ (r.queue = "conversion")]
      BY <1>0, <1>6, <2>1 DEF OnFailed
    <3>2. Fails(p)
      BY <1>0, <3>1 DEF RowType, Fails
    <3> QED
      BY <3>2 DEF RowStep
  <2>2. CASE p # r.photo
    BY <1>0, <1>6, <2>2 DEF OnFailed, RowStep
  <2> QED
    BY <2>1, <2>2
<1>7. ASSUME NEW x \in Photos, ResetApprovals(x)
      PROVE  RowStep(p)
  <2>1. CASE p = x
    <3>1. row'[p] = [row[p] EXCEPT !.reviewer = Nobody, !.reason = "none"]
      BY <1>0, <1>7, <2>1 DEF ResetApprovals
    <3>2. Keeps(p) /\ row'[p].reviewer = Nobody /\ row'[p].reason = "none"
      BY <1>0, <3>1 DEF RowType, Keeps
    <3> QED
      BY <1>7, <3>2 DEF Resets, Moderates, RowStep, ResetApprovals
  <2>2. CASE p # x
    BY <1>0, <1>7, <2>2 DEF ResetApprovals, RowStep
  <2> QED
    BY <2>1, <2>2
<1>8. ASSUME NEW S \in SUBSET Photos, NEW a \in Albums, MovePhotos(S, a)
      PROVE  RowStep(p)
  <2>1. CASE p \in S
    <3>1. row'[p] = [row[p] EXCEPT !.album = a]
      BY <1>8, <2>1 DEF MovePhotos
    <3>2. Keeps(p) /\ Moves(p)
      BY <1>0, <3>1 DEF RowType, Keeps, Moves
    <3> QED
      BY <3>2 DEF Moderates, RowStep
  <2>2. CASE p \notin S
    BY <1>8, <2>2 DEF MovePhotos, RowStep
  <2> QED
    BY <2>1, <2>2
<1>9. CASE row' = row
  BY <1>9 DEF RowStep
<1>10. CASE \E q \in Requests : Handle(q) \/ ServerCrash(q)
  BY <1>2, <1>3, <1>9, <1>10 DEF Handle, Enqueue, SaveDiff, ServerCrash
<1>11. CASE \E j \in Jobs : Work(j) \/ AttemptFails(j) \/ \E w \in Processes : Take(j, w)
  BY <1>4, <1>5, <1>9, <1>11 DEF Work, VFind, VQueue, CStore, AttemptFails, Take
<1>12. CASE \E q \in Requests, a \in Albums :
              ImportFiles(q, a) \/ \E x \in Photos : UploadFile(q, x, a)
  BY <1>1, <1>12, ConstantsAssumption DEF ImportFiles, UploadFile
<1>13. CASE \/ \E q \in Requests, x \in Photos :
                 \/ Reprocess(q, x)
                 \/ \E who \in Reviewers, kind \in {"approve", "reject"} :
                      Review(q, kind, x, who)
            \/ \E x \in Photos : DeletePhoto(x)
            \/ \E w \in Processes : WorkerCrash(w)
            \/ UNCHANGED vars
  BY <1>9, <1>13 DEF Reprocess, Review, DeletePhoto, WorkerCrash, vars
<1> QED
  BY <1>6, <1>7, <1>8, <1>10, <1>11, <1>12, <1>13 DEF Next
-------------------------------------------------------------------------------
(***************************************************************************)
(* What a step does to one job.                                            *)
(***************************************************************************)

Appears(j) ==
  \/ \E q \in Requests :
       Enqueue(q) /\ QueueOf(j) = "validation" /\ PhotoOf(j) \in req[q].photos
  \/ \E i \in Jobs :
       VQueue(i) /\ QueueOf(j) = "conversion" /\ PhotoOf(j) = PhotoOf(i)

JobStep(j) ==
  \/ job'[j] = job[j]
  \/ job'[j].step = "none"
  \/ job'[j].step = "waiting" /\ (Appears(j) \/ Running(j))
  \/ \E w \in Processes : Take(j, w)
  \/ VFind(j)
  \/ VCommit(j) /\ job'[j].step = "queue"
  \/ CStore(j)

LEMMA JobSteps ==
  ASSUME Typed, [Next]_vars, NEW j \in Jobs
  PROVE  JobStep(j)
<1>0. job \in [Jobs -> JobType \cup {NoJob}]
  BY DEF Typed, TypeOK
<1>1. ASSUME NEW queue, NEW S, NEW a,
             Added(queue, S, a)[j] # job[j]
      PROVE  /\ QueueOf(j) = queue /\ PhotoOf(j) \in S
             /\ Added(queue, S, a)[j].step = "waiting"
  BY <1>1 DEF Added, NewJob
<1>2. ASSUME NEW q \in Requests, Enqueue(q)
      PROVE  JobStep(j)
  <2>1. job' = Added("validation", req[q].photos, req[q].album)
    BY <1>2 DEF Enqueue
  <2>2. CASE job'[j] = job[j]
    BY <2>2 DEF JobStep
  <2>3. CASE job'[j] # job[j]
    <3>1. /\ QueueOf(j) = "validation" /\ PhotoOf(j) \in req[q].photos
          /\ job'[j].step = "waiting"
      BY <1>1, <2>1, <2>3
    <3> QED
      BY <1>2, <3>1 DEF JobStep, Appears
  <2> QED
    BY <2>2, <2>3
<1>3. ASSUME NEW i \in Jobs, VQueue(i)
      PROVE  JobStep(j)
  <2>1. CASE i = j
    <3>1. job'[j] = NoJob
      BY <1>3, <2>1 DEF VQueue, Added
    <3> QED
      BY <3>1 DEF JobStep, NoJob
  <2>2. CASE i # j
    <3>1. job'[j] = Added("conversion", {PhotoOf(i)}, job[i].album)[j]
      BY <1>3, <2>2 DEF VQueue, Added
    <3> QED
      BY <1>1, <1>3, <3>1 DEF JobStep, Appears
  <2> QED
    BY <2>1, <2>2
<1>4. ASSUME NEW i \in Jobs, VFind(i) \/ VCommit(i) \/ CStore(i) \/ CUpdate(i)
      PROVE  JobStep(j)
  <2>1. CASE i # j
    <3>1. job'[j] = job[j]
      BY <1>0, <1>4, <2>1 DEF VFind, VCommit, CStore, CUpdate
    <3> QED
      BY <3>1 DEF JobStep
  <2>2. CASE i = j
    <3>1. CASE VCommit(j)
      <4>1. job'[j].step \in {"none", "queue"}
        <5>1. job[j] \in JobType
          BY <3>1, JobThere DEF VCommit, Typed
        <5>2. job'[j] = NoJob \/ job'[j] = [job[j] EXCEPT !.step = "queue", !.dups = {}]
          BY <1>0, <3>1 DEF VCommit
        <5>3. [job[j] EXCEPT !.step = "queue", !.dups = {}].step = "queue"
          BY <5>1 DEF JobType
        <5>4. NoJob.step = "none"
          BY DEF NoJob
        <5> QED
          BY <5>2, <5>3, <5>4
      <4> QED
        BY <3>1, <4>1 DEF JobStep
    <3>2. CASE CUpdate(j)
      <4>1. job'[j].step = "none"
        BY <1>0, <3>2 DEF CUpdate, NoJob
      <4> QED
        BY <4>1 DEF JobStep
    <3> QED
      BY <1>4, <2>2, <3>1, <3>2 DEF JobStep
  <2> QED
    BY <2>1, <2>2
<1>5. ASSUME NEW i \in Jobs, AttemptFails(i)
      PROVE  JobStep(j)
  <2>1. i # j => job'[j] = job[j]
    BY <1>0, <1>5 DEF AttemptFails
  <2>2. i = j => Running(j) /\ job'[j].step \in {"none", "waiting"}
    BY <1>0, <1>5 DEF AttemptFails, Retried, NewJob, NoJob
  <2> QED
    BY <2>1, <2>2 DEF JobStep
<1>6. ASSUME NEW i \in Jobs, NEW w \in Processes, Take(i, w)
      PROVE  JobStep(j)
  <2>1. i # j => job'[j] = job[j]
    BY <1>0, <1>6 DEF Take
  <2> QED
    BY <1>6, <2>1 DEF JobStep
<1>7. ASSUME NEW w \in Processes, WorkerCrash(w)
      PROVE  JobStep(j)
  BY <1>0, <1>7 DEF WorkerCrash, JobStep, NewJob, NoJob
<1>8. CASE job' = job
  BY <1>8 DEF JobStep
<1>9. CASE \E q \in Requests : Handle(q) \/ ServerCrash(q)
  BY <1>2, <1>8, <1>9 DEF Handle, WriteReview, SaveDiff, SaveWrite, ServerCrash
<1>10. CASE \/ \E q \in Requests, a \in Albums :
                 ImportFiles(q, a) \/ \E p \in Photos : UploadFile(q, p, a)
            \/ \E q \in Requests, p \in Photos :
                 \/ Reprocess(q, p)
                 \/ \E who \in Reviewers, kind \in {"approve", "reject"} :
                      Review(q, kind, p, who)
            \/ \E r \in reports : OnFailed(r)
            \/ \E p \in Photos : ResetApprovals(p) \/ DeletePhoto(p)
            \/ \E S \in SUBSET Photos, a \in Albums : MovePhotos(S, a)
            \/ UNCHANGED vars
  BY <1>8, <1>10
     DEF ImportFiles, UploadFile, Arrive, Reprocess, Review, OnFailed, ResetApprovals,
         DeletePhoto, MovePhotos, vars
<1> QED
  BY <1>3, <1>4, <1>5, <1>6, <1>7, <1>9, <1>10 DEF Next, Work
-------------------------------------------------------------------------------
(***************************************************************************)
(* A row knows the MD5 of its own file or none, and so does what a request *)
(* has read of it.                                                         *)
(***************************************************************************)

Md5s(p) == {NoContent, ContentOf[p]}
ReadAgrees(q) ==
  req[q].step \in {"save", "write"} =>
    /\ req[q].read.reason = "none"
    /\ \A p \in req[q].photos : req[q].read.md5 \in Md5s(p)

Md5Inv ==
  /\ \A p \in Photos : row[p].md5 \in Md5s(p)
  /\ \A q \in Requests : ReadAgrees(q)

LEMMA BlankRow ==
  ASSUME NEW a \in Albums, NEW c
  PROVE  /\ Blank(a, c).md5 = c
         /\ Blank(a, c).reason = "none"
         /\ Blank(a, c).validated = FALSE
         /\ Blank(a, c).processed = FALSE
         /\ Blank(a, c).failed = FALSE
  BY DEF Blank

LEMMA BlankReviewer ==
  ASSUME NEW a \in Albums, NEW c
  PROVE  Blank(a, c).reviewer = Nobody
  BY DEF Blank

LEMMA ArrivedRow ==
  ASSUME NEW p, Arrives(p)
  PROVE  /\ row'[p].md5 \in Md5s(p)
         /\ row'[p].reason = "none"
         /\ row'[p].reviewer = Nobody
         /\ row'[p].validated = FALSE
         /\ row'[p].processed = FALSE
         /\ row'[p].failed = FALSE
<1>1. PICK a \in Albums, c \in Md5s(p) : row'[p] = Blank(a, c)
  BY DEF Arrives, Md5s
<1>2. /\ Blank(a, c).md5 = c
      /\ Blank(a, c).reason = "none"
      /\ Blank(a, c).reviewer = Nobody
  BY BlankRow, BlankReviewer
<1>3. /\ Blank(a, c).validated = FALSE
      /\ Blank(a, c).processed = FALSE
      /\ Blank(a, c).failed = FALSE
  BY BlankRow
<1> QED
  BY <1>1, <1>2, <1>3

LEMMA InitMd5 == Init => Md5Inv
<1> SUFFICES ASSUME Init PROVE Md5Inv
  OBVIOUS
<1>1. (CHOOSE a \in Albums : TRUE) \in Albums
  BY ConstantsAssumption
<1>2. \A p \in Photos : row[p].md5 = NoContent
  BY <1>1, BlankRow DEF Init
<1> QED
  BY <1>2 DEF Init, Md5Inv, Md5s, ReadAgrees, NoRequest

LEMMA NextReads ==
  ASSUME Typed, Md5Inv, [Next]_vars, NEW q \in Requests
  PROVE  ReadAgrees(q)'
<1> SUFFICES ASSUME req'[q].step \in {"save", "write"}
             PROVE  /\ req'[q].read.reason = "none"
                    /\ \A x \in req'[q].photos : req'[q].read.md5 \in Md5s(x)
  BY DEF ReadAgrees, Md5s
<1>0. ReadAgrees(q) /\ req \in [Requests -> RequestType \cup {NoRequest}]
  BY DEF Md5Inv, Typed, TypeOK
<1>1. CASE req'[q] = req[q]
  BY <1>0, <1>1 DEF ReadAgrees
<1>2. ASSUME NEW p \in Photos, Reprocess(q, p)
      PROVE  /\ req'[q].read.reason = "none"
             /\ \A x \in req'[q].photos : req'[q].read.md5 \in Md5s(x)
  <2>1. row[p].album \in Albums /\ row[p].md5 \in Md5s(p)
    BY DEF Md5Inv, Typed, TypeOK, RowType
  <2>2. req'[q] = [step |-> "save", photos |-> {p}, read |-> Blank(row[p].album, row[p].md5)]
    BY <1>0, <1>2 DEF Reprocess
  <2>3. /\ req'[q].photos = {p}
        /\ req'[q].read = Blank(row[p].album, row[p].md5)
    BY <2>2
  <2>4. req'[q].read.reason = "none" /\ req'[q].read.md5 = row[p].md5
    BY <2>3 DEF Blank
  <2> QED
    BY <2>1, <2>3, <2>4
<1>3. CASE SaveDiff(q)
  <2>1. PICK p \in req[q].photos :
          LET changed == {c \in Columns : req[q].read[c] # row[p][c]} IN
          req' = [req EXCEPT ![q] =
                    [step |-> "write", photos |-> {p}, read |-> req[q].read,
                     columns |-> changed]]
    BY <1>3 DEF SaveDiff
  <2>2. req'[q].photos = {p} /\ req'[q].read = req[q].read
    BY <1>0, <2>1
  <2> QED
    BY <1>0, <1>3, <2>2 DEF ReadAgrees, SaveDiff
<1>4. ASSUME NEW p \in Requests, Handle(p) \/ ServerCrash(p)
      PROVE  req'[q] = req[q] \/ SaveDiff(q)
  <2>1. CASE req' = [req EXCEPT ![p] = NoRequest]
    BY <1>0, <2>1 DEF NoRequest
  <2>2. CASE SaveDiff(p)
    <3>1. p # q => req'[q] = req[q]
      BY <1>0, <2>2 DEF SaveDiff
    <3> QED
      BY <2>2, <3>1
  <2>3. CASE SaveWrite(p)
    BY <1>0, <2>3 DEF SaveWrite
  <2> QED
    BY <1>4, <2>1, <2>2, <2>3 DEF Handle, Enqueue, WriteReview, ServerCrash
<1>5. ASSUME NEW p \in Requests, NEW kind, NEW S, NEW a, Arrive(p, kind, S, a)
      PROVE  req'[q] = req[q]
  BY <1>0, <1>5 DEF Arrive
<1>6. ASSUME NEW r \in Requests, NEW p \in Photos,
             \/ Reprocess(r, p)
             \/ \E who \in Reviewers, kind \in {"approve", "reject"} : Review(r, kind, p, who)
      PROVE  req'[q] = req[q] \/ Reprocess(q, p)
  BY <1>0, <1>6 DEF Reprocess, Review
<1>7. CASE \E j \in Jobs : Work(j) \/ AttemptFails(j) \/ \E w \in Processes : Take(j, w)
  BY <1>1, <1>7 DEF Work, VFind, VCommit, VQueue, CStore, CUpdate, AttemptFails, Take
<1>8. CASE \/ \E r \in reports : OnFailed(r)
           \/ \E p \in Photos : ResetApprovals(p) \/ DeletePhoto(p)
           \/ \E S \in SUBSET Photos, a \in Albums : MovePhotos(S, a)
           \/ \E w \in Processes : WorkerCrash(w)
           \/ UNCHANGED vars
  BY <1>1, <1>8
     DEF OnFailed, ResetApprovals, DeletePhoto, MovePhotos, WorkerCrash, vars
<1> QED
  BY <1>1, <1>2, <1>3, <1>4, <1>5, <1>6, <1>7, <1>8 DEF Next, ImportFiles, UploadFile

LEMMA NextMd5 ==
  ASSUME Typed, Md5Inv, [Next]_vars
  PROVE  Md5Inv'
<1>1. ASSUME NEW p \in Photos
      PROVE  row'[p].md5 \in Md5s(p)
  <2>0. row[p].md5 \in Md5s(p) /\ RowStep(p)
    BY RowSteps DEF Md5Inv
  <2>1. CASE Arrives(p)
    BY <2>1, ArrivedRow
  <2>2. CASE Saves(p)
    <3>1. PICK q \in Requests :
            /\ SaveWrite(q) /\ p \in req[q].photos
            /\ row'[p].md5 \in {row[p].md5, req[q].read.md5}
      BY <2>2 DEF Saves
    <3>2. req[q].read.md5 \in Md5s(p)
      BY <3>1 DEF SaveWrite, Md5Inv, ReadAgrees
    <3> QED
      BY <2>0, <3>1, <3>2
  <2>3. CASE Validates(p)
    BY <2>3 DEF Validates, Md5s
  <2> QED
    BY <2>0, <2>1, <2>2, <2>3
       DEF RowStep, Duplicates, Moderates, Keeps, Converts, Fails
<1>2. \A p \in Photos : row'[p].md5 \in Md5s(p)'
  BY <1>1 DEF Md5s
<1> QED
  BY <1>2, NextReads DEF Md5Inv
-------------------------------------------------------------------------------
(***************************************************************************)
(* Duplicates: those that a job has found are beaten by another copy that  *)
(* was inserted no earlier, and nothing changes that.                      *)
(***************************************************************************)

Beaten(p) ==
  \E x \in Inserted \ {p} : ContentOf[x] = ContentOf[p] /\ born[x] >= born[p]
DupsAreBeaten(j) ==
  job[j].step = "commit" => \A p \in job[j].dups : p \in Inserted /\ Beaten(p)

DupInv ==
  /\ \A p \in Photos : row[p].reason = "duplicated" => p \in Inserted /\ Beaten(p)
  /\ \A j \in Jobs : DupsAreBeaten(j)

LEMMA RanksStay ==
  ASSUME Typed, [Next]_vars, NEW p \in Inserted
  PROVE  p \in Inserted' /\ born'[p] = born[p]
<1> USE DEF Typed, TypeOK, Inserted
<1>1. CASE born' = born
  BY <1>1
<1>2. ASSUME NEW q \in Requests, NEW kind, NEW S, NEW a, Arrive(q, kind, S, a)
      PROVE  born'[p] = born[p]
  BY <1>2 DEF Arrive
<1>3. CASE \E q \in Requests, a \in Albums :
             ImportFiles(q, a) \/ \E x \in Photos : UploadFile(q, x, a)
  BY <1>2, <1>3 DEF ImportFiles, UploadFile
<1>4. CASE \E q \in Requests : Handle(q) \/ ServerCrash(q)
  BY <1>1, <1>4 DEF Handle, Enqueue, WriteReview, SaveDiff, SaveWrite, ServerCrash
<1>5. CASE \E j \in Jobs : Work(j) \/ AttemptFails(j) \/ \E w \in Processes : Take(j, w)
  BY <1>1, <1>5 DEF Work, VFind, VCommit, VQueue, CStore, CUpdate, AttemptFails, Take
<1> QED
  BY <1>1, <1>3, <1>4, <1>5
     DEF Next, Reprocess, Review, OnFailed, ResetApprovals, DeletePhoto, MovePhotos,
         WorkerCrash, vars

LEMMA StaysBeaten ==
  ASSUME Typed, [Next]_vars, NEW p \in Inserted, Beaten(p)
  PROVE  p \in Inserted' /\ Beaten(p)'
<1>1. PICK x \in Inserted \ {p} : ContentOf[x] = ContentOf[p] /\ born[x] >= born[p]
  BY DEF Beaten
<1> QED
  BY <1>1, RanksStay DEF Beaten

(* What the query of a validation returns, without the first of it. *)
LEMMA FoundAreBeaten ==
  ASSUME Typed, Md5Inv, NEW p \in Photos, NEW dups \in Nonrecent(p), NEW y \in dups
  PROVE  y \in Inserted /\ Beaten(y)
<1> DEFINE copies == {x \in Photos : Copy(p, x)}
<1>1. PICK x \in copies : dups = copies \ {x} /\ \A z \in copies : born[x] >= born[z]
  BY DEF Nonrecent
<1>2. ASSUME NEW z \in copies
      PROVE  z \in Inserted /\ ContentOf[z] = ContentOf[p]
  <2>1. z \in Inserted /\ (z = p \/ row[z].md5 = ContentOf[p])
    BY DEF Copy, Live
  <2>2. row[z].md5 \in {NoContent, ContentOf[z]}
    BY DEF Md5Inv, Md5s
  <2>3. ContentOf[p] # NoContent
    BY ConstantsAssumption
  <2> QED
    BY <2>1, <2>2, <2>3
<1> QED
  BY <1>1, <1>2 DEF Beaten

LEMMA InitDup == Init => DupInv
<1> SUFFICES ASSUME Init PROVE DupInv
  OBVIOUS
<1>1. (CHOOSE a \in Albums : TRUE) \in Albums
  BY ConstantsAssumption
<1>2. \A p \in Photos : row[p].reason = "none"
  BY <1>1, BlankRow DEF Init
<1> QED
  BY <1>2 DEF Init, DupInv, DupsAreBeaten, NoJob

LEMMA NextDup ==
  ASSUME "duplicated" \notin RejectReasons, Typed, Md5Inv, DupInv, [Next]_vars
  PROVE  DupInv'
<1>1. ASSUME NEW p \in Photos, row'[p].reason = "duplicated"
      PROVE  p \in Inserted' /\ Beaten(p)'
  <2> SUFFICES p \in Inserted /\ Beaten(p)
    BY StaysBeaten
  <2>0. RowStep(p) /\ (row[p].reason = "duplicated" => p \in Inserted /\ Beaten(p))
    BY RowSteps DEF DupInv
  <2>1. CASE Arrives(p)
    BY <1>1, <2>1, ArrivedRow
  <2>2. CASE Validates(p)
    <3>1. PICK j \in Jobs :
            /\ VCommit(j) /\ PhotoOf(j) = p
            /\ row'[p].reason = IF Verdict(j) = "none" THEN row[p].reason ELSE Verdict(j)
      BY <2>2 DEF Validates
    <3>2. CASE p \in job[j].dups
      BY <3>1, <3>2 DEF DupInv, DupsAreBeaten, VCommit
    <3>3. CASE p \notin job[j].dups
      <4>1. job[j].step # "none"
        BY <3>1 DEF VCommit
      <4>2. job[j].album \in Albums /\ ContentOf[p] \in Contents
        BY <4>1, JobThere, ConstantsAssumption DEF Typed
      <4>3. Grade[job[j].album, ContentOf[p]] \in Grades
        BY <4>2, ConstantsAssumption
      <4>4. Verdict(j) = Grade[job[j].album, ContentOf[p]]
        BY <3>1, <3>3 DEF Verdict
      <4>5. Verdict(j) # "duplicated"
        BY <4>3, <4>4 DEF Grades
      <4> QED
        BY <1>1, <2>0, <3>1, <4>5
    <3> QED
      BY <3>2, <3>3
  <2>3. CASE Duplicates(p)
    BY <2>3 DEF Duplicates, DupInv, DupsAreBeaten, VCommit
  <2>4. CASE Moderates(p)
    BY <1>1, <2>0, <2>4 DEF Moderates, Reviews, Resets, Moves
  <2>5. CASE Saves(p)
    BY <1>1, <2>0, <2>5 DEF Saves, SaveWrite, Md5Inv, ReadAgrees
  <2> QED
    BY <1>1, <2>0, <2>1, <2>2, <2>3, <2>4, <2>5 DEF RowStep, Converts, Fails
<1>2. ASSUME NEW j \in Jobs, job'[j].step = "commit", NEW y \in job'[j].dups
      PROVE  y \in Inserted' /\ Beaten(y)'
  <2> SUFFICES y \in Inserted /\ Beaten(y)
    BY StaysBeaten
  <2>1. CASE job'[j] = job[j]
    BY <1>2, <2>1 DEF DupInv, DupsAreBeaten
  <2>2. CASE VFind(j)
    <3>1. PICK dups \in Nonrecent(PhotoOf(j)) :
            job' = [job EXCEPT ![j].step = "commit", ![j].dups = dups]
      BY <2>2 DEF VFind
    <3>2. job[j] \in JobType /\ PhotoOf(j) \in Photos
      BY <2>2, JobThere DEF VFind, Typed
    <3>3. job'[j] = [job[j] EXCEPT !.step = "commit", !.dups = dups]
      BY <3>1 DEF Typed, TypeOK
    <3>4. job'[j].dups = dups
      BY <3>2, <3>3 DEF JobType
    <3> QED
      BY <1>2, <3>2, <3>4, FoundAreBeaten
  <2>3. ASSUME NEW w \in Processes, Take(j, w)
        PROVE  FALSE
    <3>1. job[j] \in JobType /\ job \in [Jobs -> JobType \cup {NoJob}]
      BY <2>3, JobThere DEF Take, Typed, TypeOK
    <3> QED
      BY <1>2, <2>3, <3>1 DEF Take, JobType
  <2>4. CASE CStore(j)
    <3>1. job[j] \in JobType /\ job \in [Jobs -> JobType \cup {NoJob}]
      BY <2>4, JobThere DEF CStore, Typed, TypeOK
    <3> QED
      BY <1>2, <2>4, <3>1 DEF CStore, JobType
  <2> QED
    BY <1>2, <2>1, <2>2, <2>3, <2>4, JobSteps DEF JobStep
<1> QED
  BY <1>1, <1>2 DEF DupInv, DupsAreBeaten

(* If no moderator rejects a photo as a duplicate, one that is rejected so has
   another copy that was uploaded or imported no earlier, in whatever order jobs,
   retries, moderators and crashes follow each other. *)
THEOREM DuplicatesAlwaysOlder ==
  ASSUME "duplicated" \notin RejectReasons
  PROVE  Spec => []DuplicatesAreOlder
<1> DEFINE Inv == Typed /\ Md5Inv /\ DupInv
<1>1. Init => Inv
  BY InitTyped, InitMd5, InitDup
<1>2. Inv /\ [Next]_vars => Inv'
  BY NextTyped, NextMd5, NextDup
<1>3. Inv => DuplicatesAreOlder
  BY DEF DupInv, DuplicatesAreOlder, Beaten, Inserted
<1> QED
  <2> HIDE DEF Inv
  <2> QED
    BY <1>1, <1>2, <1>3, PTL DEF Spec
-------------------------------------------------------------------------------
(***************************************************************************)
(* Processed photos, while nobody reprocesses any: what a job has done for *)
(* its photo stays done.                                                   *)
(***************************************************************************)

Valid(p) == row[p].validated /\ row[p].md5 = ContentOf[p]

RequestFits(q) ==
  /\ req[q].step \notin {"save", "write"}
  /\ req[q].step = "enqueue" => req[q].photos \subseteq Inserted

JobFits(j) ==
  /\ job[j].step # "none" => PhotoOf(j) \in Inserted
  /\ job[j].step \in {"validate", "commit", "queue"} => QueueOf(j) = "validation"
  /\ job[j].step \in {"convert", "stored"} => QueueOf(j) = "conversion"
  /\ job[j].step = "queue" => Valid(PhotoOf(j))
  /\ job[j].step # "none" /\ QueueOf(j) = "conversion" => Valid(PhotoOf(j))
  /\ job[j].step = "stored" => PhotoOf(j) \in stored

ReadyInv ==
  /\ \A q \in Requests : RequestFits(q)
  /\ \A j \in Jobs : JobFits(j)
  /\ \A p \in Photos :
       row[p].processed /\ ~row[p].failed => p \in Inserted /\ p \in stored /\ Valid(p)

LEMMA InitReady == Init => ReadyInv
<1> SUFFICES ASSUME Init PROVE ReadyInv
  OBVIOUS
<1>1. (CHOOSE a \in Albums : TRUE) \in Albums
  BY ConstantsAssumption
<1>2. \A p \in Photos : row[p].processed = FALSE
  BY <1>1, BlankRow DEF Init
<1> QED
  BY <1>2 DEF Init, ReadyInv, RequestFits, JobFits, NoRequest, NoJob

LEMMA ValidStays ==
  ASSUME Typed, ReadyInv, [Next]_vars, NEW p \in Inserted, Valid(p)
  PROVE  Valid(p)'
<1> USE DEF Valid
<1>1. RowStep(p)
  BY RowSteps DEF Inserted
<1>2. ~Arrives(p)
  BY DEF Arrives
<1>3. ~Saves(p)
  BY DEF Saves, SaveWrite, ReadyInv, RequestFits
<1> QED
  BY <1>1, <1>2, <1>3
     DEF RowStep, Validates, Duplicates, Moderates, Keeps, Converts, Fails

LEMMA StoredStays ==
  ASSUME [Next]_vars
  PROVE  stored \subseteq stored'
<1>1. CASE \E q \in Requests : Handle(q) \/ ServerCrash(q)
  BY <1>1 DEF Handle, Enqueue, WriteReview, SaveDiff, SaveWrite, ServerCrash
<1>2. CASE \E j \in Jobs : Work(j) \/ AttemptFails(j) \/ \E w \in Processes : Take(j, w)
  BY <1>2 DEF Work, VFind, VCommit, VQueue, CStore, CUpdate, AttemptFails, Take
<1>3. CASE \E q \in Requests, a \in Albums :
             ImportFiles(q, a) \/ \E x \in Photos : UploadFile(q, x, a)
  BY <1>3 DEF ImportFiles, UploadFile, Arrive
<1> QED
  BY <1>1, <1>2, <1>3
     DEF Next, Reprocess, Review, OnFailed, ResetApprovals, DeletePhoto, MovePhotos,
         WorkerCrash, vars

(* What a step does to one request. *)
LEMMA RequestSteps ==
  ASSUME "reprocess" \notin Kinds, Typed, ReadyInv, [Next]_vars, NEW q \in Requests
  PROVE  RequestFits(q)'
<1>0. RequestFits(q) /\ req \in [Requests -> RequestType \cup {NoRequest}]
  BY DEF ReadyInv, Typed, TypeOK
<1>1. Inserted \subseteq Inserted'
  BY RanksStay
<1>2. CASE req'[q] = req[q]
  BY <1>0, <1>1, <1>2 DEF RequestFits
<1>3. CASE req'[q] = NoRequest
  BY <1>3 DEF RequestFits, NoRequest
<1>4. ASSUME NEW p \in Requests, NEW kind, NEW S \in SUBSET Photos, NEW a \in Albums,
             Arrive(p, kind, S, a)
      PROVE  RequestFits(q)'
  <2>1. CASE p = q
    <3>1. req'[q] = [step |-> "enqueue", photos |-> S, album |-> a]
      BY <1>0, <1>4, <2>1 DEF Arrive
    <3>2. S \subseteq Inserted'
      <4>1. 1 + Cardinality({born[x] : x \in Inserted}) \in 1..Cardinality(Photos)
        BY <1>4, RankLeft DEF Arrive, Typed
      <4>2. Cardinality(Photos) \in Nat
        BY ConstantsAssumption, FS_CardinalityType
      <4>3. 1 + Cardinality({born[x] : x \in Inserted}) > 0
        BY <4>1, <4>2
      <4>4. \A x \in S : born'[x] = 1 + Cardinality({born[y] : y \in Inserted})
        BY <1>4 DEF Arrive
      <4> QED
        BY <4>3, <4>4 DEF Inserted
    <3> QED
      BY <3>1, <3>2 DEF RequestFits
  <2>2. CASE p # q
    BY <1>0, <1>2, <1>4, <2>2 DEF Arrive
  <2> QED
    BY <2>1, <2>2
<1>5. CASE \E p \in Requests : Handle(p) \/ ServerCrash(p)
  <2>1. PICK p \in Requests : Handle(p) \/ ServerCrash(p)
    BY <1>5
  <2>2. RequestFits(p)
    BY DEF ReadyInv
  <2>3. req' = [req EXCEPT ![p] = NoRequest]
    BY <2>1, <2>2
       DEF RequestFits, Handle, Enqueue, WriteReview, SaveDiff, SaveWrite, ServerCrash
  <2> QED
    BY <1>0, <1>2, <1>3, <2>3
<1>6. ASSUME NEW p \in Requests, NEW kind \in {"approve", "reject"}, NEW x \in Photos,
             NEW who \in Reviewers, Review(p, kind, x, who)
      PROVE  RequestFits(q)'
  <2>1. CASE p = q
    <3>1. req'[q] = [step |-> kind, photos |-> {x}, who |-> who]
      BY <1>0, <1>6, <2>1 DEF Review
    <3> QED
      BY <3>1 DEF RequestFits
  <2>2. CASE p # q
    BY <1>0, <1>2, <1>6, <2>2 DEF Review
  <2> QED
    BY <2>1, <2>2
<1>7. CASE \E p \in Requests, a \in Albums :
             ImportFiles(p, a) \/ \E x \in Photos : UploadFile(p, x, a)
  BY <1>4, <1>7, ConstantsAssumption DEF ImportFiles, UploadFile
<1>8. CASE \E j \in Jobs : Work(j) \/ AttemptFails(j) \/ \E w \in Processes : Take(j, w)
  BY <1>2, <1>8 DEF Work, VFind, VCommit, VQueue, CStore, CUpdate, AttemptFails, Take
<1> QED
  BY <1>2, <1>5, <1>6, <1>7, <1>8
     DEF Next, Reprocess, OnFailed, ResetApprovals, DeletePhoto, MovePhotos,
         WorkerCrash, vars

(* What a job needs stays, and a step that needs more provides it. *)
LEMMA JobStays ==
  ASSUME Typed, ReadyInv, [Next]_vars, NEW j \in Jobs, job[j].step # "none"
  PROVE  /\ PhotoOf(j) \in Inserted'
         /\ Valid(PhotoOf(j)) => Valid(PhotoOf(j))'
         /\ PhotoOf(j) \in stored => PhotoOf(j) \in stored'
<1>1. PhotoOf(j) \in Inserted
  BY DEF ReadyInv, JobFits
<1> QED
  BY <1>1, RanksStay, ValidStays, StoredStays

LEMMA NextJobs ==
  ASSUME Typed, ReadyInv, [Next]_vars, NEW j \in Jobs
  PROVE  JobFits(j)'
<1> SUFFICES ASSUME job'[j].step # "none"
             PROVE  JobFits(j)'
  BY DEF JobFits
<1>0. /\ JobFits(j) /\ JobStep(j)
      /\ job \in [Jobs -> JobType \cup {NoJob}]
      /\ QueueOf(j) \in {"validation", "conversion"}
  BY JobSteps DEF ReadyInv, Typed, TypeOK, Jobs, Queues, QueueOf
<1>1. CASE job'[j] = job[j]
  BY <1>0, <1>1, JobStays DEF JobFits
<1>2. CASE job'[j].step = "waiting" /\ Running(j)
  BY <1>0, <1>2, JobStays DEF JobFits, Running
<1>3. CASE job'[j].step = "waiting" /\ Appears(j)
  <2>1. CASE \E q \in Requests :
               Enqueue(q) /\ QueueOf(j) = "validation" /\ PhotoOf(j) \in req[q].photos
    <3>1. PhotoOf(j) \in Inserted
      BY <2>1 DEF Enqueue, ReadyInv, RequestFits
    <3> QED
      BY <1>3, <2>1, <3>1, RanksStay DEF JobFits
  <2>2. ASSUME NEW i \in Jobs, VQueue(i), QueueOf(j) = "conversion", PhotoOf(j) = PhotoOf(i)
        PROVE  JobFits(j)'
    <3>1. PhotoOf(j) \in Inserted /\ Valid(PhotoOf(j))
      BY <2>2 DEF VQueue, ReadyInv, JobFits
    <3> QED
      BY <1>3, <2>2, <3>1, RanksStay, ValidStays DEF JobFits
  <2> QED
    BY <1>3, <2>1, <2>2 DEF Appears
<1>4. ASSUME NEW w \in Processes, Take(j, w)
      PROVE  JobFits(j)'
  <2>1. job[j] \in JobType /\ job[j].step = "waiting"
    BY <1>4, JobThere DEF Take, Typed
  <2>2. job'[j].step = IF QueueOf(j) = "validation" THEN "validate" ELSE "convert"
    BY <1>0, <1>4, <2>1 DEF Take, JobType
  <2> QED
    BY <1>0, <2>1, <2>2, JobStays DEF JobFits
<1>5. CASE VFind(j)
  <2>1. job[j] \in JobType /\ job[j].step = "validate"
    BY <1>5, JobThere DEF VFind, Typed
  <2>2. job'[j].step = "commit"
    BY <1>0, <1>5, <2>1 DEF VFind, JobType
  <2> QED
    BY <1>0, <2>1, <2>2, JobStays DEF JobFits
<1>6. CASE VCommit(j) /\ job'[j].step = "queue"
  <2>1. job[j].step = "commit" /\ PhotoOf(j) \in Photos
    BY <1>6, JobThere DEF VCommit, Typed
  <2>2. row'[PhotoOf(j)] = [row[PhotoOf(j)] EXCEPT
          !.md5 = ContentOf[PhotoOf(j)], !.validated = TRUE,
          !.reason = IF Verdict(j) = "none" THEN @ ELSE Verdict(j)]
    BY <1>6, <2>1 DEF VCommit
  <2>3. row[PhotoOf(j)] \in RowType
    BY <2>1 DEF Typed, TypeOK
  <2>4. row'[PhotoOf(j)].validated /\ row'[PhotoOf(j)].md5 = ContentOf[PhotoOf(j)]
    BY <2>2, <2>3 DEF RowType
  <2> QED
    BY <1>0, <1>6, <2>1, <2>4, JobStays DEF JobFits, Valid
<1>7. CASE CStore(j)
  <2>1. job[j] \in JobType /\ job[j].step = "convert"
    BY <1>7, JobThere DEF CStore, Typed
  <2>2. job'[j].step = "stored" /\ PhotoOf(j) \in stored'
    BY <1>0, <1>7, <2>1 DEF CStore, JobType
  <2> QED
    BY <1>0, <2>1, <2>2, JobStays DEF JobFits
<1> QED
  BY <1>0, <1>1, <1>2, <1>3, <1>4, <1>5, <1>6, <1>7 DEF JobStep

LEMMA NextProcessed ==
  ASSUME Typed, ReadyInv, [Next]_vars
  PROVE  \A p \in Photos : row'[p].processed /\ ~row'[p].failed =>
                              p \in Inserted' /\ p \in stored' /\ Valid(p)'
<1> SUFFICES ASSUME NEW p \in Photos, row'[p].processed, ~row'[p].failed
             PROVE  p \in Inserted' /\ p \in stored' /\ Valid(p)'
  OBVIOUS
<1>0. RowStep(p)
  BY RowSteps
<1>1. ~Arrives(p)
  BY ArrivedRow
<1>2. ~Saves(p)
  BY DEF Saves, SaveWrite, ReadyInv, RequestFits
<1>3. CASE Converts(p)
  <2>1. PICK j \in Jobs : CUpdate(j) /\ PhotoOf(j) = p
    BY <1>3 DEF Converts
  <2>2. p \in stored /\ Valid(p) /\ p \in Inserted
    BY <2>1 DEF CUpdate, ReadyInv, JobFits
  <2> QED
    BY <2>2, ValidStays, StoredStays, RanksStay
<1>4. CASE row[p].processed /\ ~row[p].failed
  <2>1. p \in Inserted /\ p \in stored /\ Valid(p)
    BY <1>4 DEF ReadyInv
  <2> QED
    BY <2>1, ValidStays, StoredStays, RanksStay
<1> QED
  BY <1>0, <1>1, <1>2, <1>3, <1>4
     DEF RowStep, Validates, Duplicates, Moderates, Keeps, Fails

LEMMA NextReady ==
  ASSUME "reprocess" \notin Kinds, Typed, ReadyInv, [Next]_vars
  PROVE  ReadyInv'
  BY RequestSteps, NextJobs, NextProcessed DEF ReadyInv

(* While nobody reprocesses photos, one that is processed and has not failed has its
   preview and thumbnail and was validated, whichever attempts, reports and
   processes fail and in whatever order. *)
THEOREM ProcessedAlwaysReady ==
  ASSUME "reprocess" \notin Kinds
  PROVE  Spec => []ProcessedPhotosAreReady
<1> DEFINE Inv == Typed /\ ReadyInv
<1>1. Init => Inv
  BY InitTyped, InitReady
<1>2. Inv /\ [Next]_vars => Inv'
  BY NextTyped, NextReady
<1>3. Inv => ProcessedPhotosAreReady
  BY DEF ReadyInv, ProcessedPhotosAreReady, Inserted, Valid
<1> QED
  <2> HIDE DEF Inv
  <2> QED
    BY <1>1, <1>2, <1>3, PTL DEF Spec
-------------------------------------------------------------------------------
(***************************************************************************)
(* One copy, with one worker process: it runs one validation at a time, so *)
(* no other photo is validated between its query and its commit.           *)
(***************************************************************************)

OneRunning ==
  \A i, j \in Jobs : Running(i) /\ Running(j) /\ QueueOf(i) = QueueOf(j) => i = j

Candidate(p) == p \notin deleted /\ row[p].reason = "none" /\ ~row[p].failed
Kept(p) == Candidate(p) /\ row[p].validated

(* The validation of j has found the copies that are kept, unless its own photo
   will not be kept. *)
FindsKept(j) ==
  job[j].step = "commit" /\ Candidate(PhotoOf(j)) /\ PhotoOf(j) \notin job[j].dups =>
    \A p \in Photos \ {PhotoOf(j)} :
      Kept(p) /\ ContentOf[p] = ContentOf[PhotoOf(j)] => p \in job[j].dups

CopyInv ==
  /\ OneRunning
  /\ \A p \in Photos :
       row[p].validated /\ ~row[p].failed => p \in Inserted /\ Valid(p)
  /\ \A j \in Jobs : FindsKept(j)
  /\ \A p1, p2 \in Photos :
       Kept(p1) /\ Kept(p2) /\ p1 # p2 => ContentOf[p1] # ContentOf[p2]

LEMMA InitCopies == Init => CopyInv
<1> SUFFICES ASSUME Init PROVE CopyInv
  OBVIOUS
<1>1. (CHOOSE a \in Albums : TRUE) \in Albums
  BY ConstantsAssumption
<1>2. \A p \in Photos : row[p].validated = FALSE
  BY <1>1, BlankRow DEF Init
<1> QED
  BY <1>2 DEF Init, CopyInv, OneRunning, Running, FindsKept, Kept, NoJob

(* A job runs on, or is taken. *)
LEMMA RunsOn ==
  ASSUME Typed, [Next]_vars, NEW j \in Jobs, Running(j)'
  PROVE  Running(j) \/ \E w \in Processes : Take(j, w)
  BY JobSteps DEF JobStep, Running, VFind, VCommit, CStore

LEMMA TakesOne ==
  ASSUME Typed, NEW i \in Jobs, NEW j \in Jobs, i # j, NEW w \in Processes, Take(j, w)
  PROVE  job'[i] = job[i]
  BY DEF Take, Typed, TypeOK

LEMMA NextRunning ==
  ASSUME \A w1, w2 \in Processes : w1 = w2, Typed, OneRunning, [Next]_vars
  PROVE  OneRunning'
<1> SUFFICES ASSUME NEW i \in Jobs, NEW j \in Jobs,
                    Running(i)', Running(j)', QueueOf(i) = QueueOf(j), i # j
             PROVE  FALSE
  BY DEF OneRunning, QueueOf
<1>1. ASSUME NEW a \in Jobs, NEW b \in Jobs, a # b, QueueOf(a) = QueueOf(b),
             Running(a)', NEW w \in Processes, Take(b, w)
      PROVE  FALSE
  <2>1. Running(a)
    BY <1>1, TakesOne DEF Running
  <2>2. job[a].by = w
    BY <1>1, <2>1 DEF Typed, RunnersAreProcesses
  <2> QED
    BY <1>1, <2>1, <2>2 DEF Take
<1>2. Running(i) /\ Running(j)
  BY <1>1, RunsOn
<1> QED
  BY <1>2 DEF OneRunning

LEMMA DeletedStay ==
  ASSUME [Next]_vars
  PROVE  deleted \subseteq deleted'
<1>1. CASE \E q \in Requests : Handle(q) \/ ServerCrash(q)
  BY <1>1 DEF Handle, Enqueue, WriteReview, SaveDiff, SaveWrite, ServerCrash
<1>2. CASE \E j \in Jobs : Work(j) \/ AttemptFails(j) \/ \E w \in Processes : Take(j, w)
  BY <1>2 DEF Work, VFind, VCommit, VQueue, CStore, CUpdate, AttemptFails, Take
<1>3. CASE \E q \in Requests, a \in Albums :
             ImportFiles(q, a) \/ \E x \in Photos : UploadFile(q, x, a)
  BY <1>3 DEF ImportFiles, UploadFile, Arrive
<1> QED
  BY <1>1, <1>2, <1>3
     DEF Next, Reprocess, Review, OnFailed, ResetApprovals, DeletePhoto, MovePhotos,
         WorkerCrash, vars

(* Without resets a photo that is out stays out, *)
LEMMA CandidateBefore ==
  ASSUME "reset" \notin Kinds, Typed, ReadyInv, [Next]_vars, NEW p \in Inserted,
         Candidate(p)'
  PROVE  Candidate(p)
<1>0. RowStep(p) /\ p \notin deleted
  BY RowSteps, DeletedStay DEF Inserted, Candidate
<1>1. ~Arrives(p)
  BY DEF Arrives
<1>2. ~Saves(p)
  BY DEF Saves, SaveWrite, ReadyInv, RequestFits
<1>3. ~Duplicates(p) /\ ~Fails(p)
  BY DEF Duplicates, Fails, Candidate
<1>4. CASE Validates(p)
  BY <1>0, <1>4 DEF Validates, Candidate
<1>5. CASE Moderates(p)
  BY <1>0, <1>5, ConstantsAssumption DEF Moderates, Reviews, Resets, Moves, Keeps, Candidate
<1> QED
  BY <1>0, <1>1, <1>2, <1>3, <1>4, <1>5 DEF RowStep, Converts, Candidate

(* and one is kept only by its own validation. *)
LEMMA KeptBefore ==
  ASSUME "reset" \notin Kinds, Typed, ReadyInv, CopyInv, [Next]_vars, NEW p \in Photos,
         Kept(p)'
  PROVE  Kept(p) \/ \E j \in Jobs : VCommit(j) /\ PhotoOf(j) = p
<1>0. RowStep(p) /\ p \notin deleted
  BY RowSteps, DeletedStay DEF Candidate, Kept
<1>1. ~Arrives(p)
  BY ArrivedRow DEF Kept
<1>2. ~Saves(p)
  BY DEF Saves, SaveWrite, ReadyInv, RequestFits
<1>3. ~Duplicates(p) /\ ~Fails(p)
  BY DEF Duplicates, Fails, Candidate, Kept
<1>4. CASE Moderates(p)
  BY <1>0, <1>4, ConstantsAssumption DEF Moderates, Reviews, Resets, Moves, Keeps, Candidate, Kept
<1> QED
  BY <1>0, <1>1, <1>2, <1>3, <1>4 DEF RowStep, Validates, Converts, Candidate, Kept

LEMMA NextValidated ==
  ASSUME Typed, ReadyInv, CopyInv, [Next]_vars, NEW p \in Photos,
         row'[p].validated, ~row'[p].failed
  PROVE  p \in Inserted' /\ Valid(p)'
<1>0. RowStep(p)
  BY RowSteps
<1>1. ~Arrives(p)
  BY ArrivedRow
<1>2. ~Saves(p)
  BY DEF Saves, SaveWrite, ReadyInv, RequestFits
<1>3. CASE Validates(p)
  <2>1. p \in Inserted
    BY <1>3 DEF Validates, VCommit, ReadyInv, JobFits
  <2> QED
    BY <1>3, <2>1, RanksStay DEF Validates, Valid
<1>4. CASE row[p].validated /\ ~row[p].failed
  <2>1. p \in Inserted /\ Valid(p)
    BY <1>4 DEF CopyInv
  <2> QED
    BY <2>1, ValidStays, RanksStay
<1> QED
  BY <1>0, <1>1, <1>2, <1>3, <1>4
     DEF RowStep, Duplicates, Moderates, Keeps, Converts, Fails

(* Two validations do not run at once. *)
LEMMA OneCommit ==
  ASSUME CopyInv, ReadyInv, NEW i \in Jobs, NEW j \in Jobs,
         job[i].step = "commit", job[j].step = "commit"
  PROVE  i = j
<1>1. QueueOf(i) = QueueOf(j)
  BY DEF ReadyInv, JobFits
<1> QED
  BY <1>1 DEF CopyInv, OneRunning, Running

LEMMA NextFinds ==
  ASSUME "reset" \notin Kinds, Typed, Md5Inv, ReadyInv, CopyInv, [Next]_vars, NEW j \in Jobs
  PROVE  FindsKept(j)'
<1> DEFINE p == PhotoOf(j)
<1> SUFFICES ASSUME job'[j].step = "commit", Candidate(p)', p \notin job'[j].dups,
                    NEW y \in Photos \ {p}, Kept(y)', ContentOf[y] = ContentOf[p]
             PROVE  y \in job'[j].dups
  BY DEF FindsKept, PhotoOf
<1>0. job \in [Jobs -> JobType \cup {NoJob}]
  BY DEF Typed, TypeOK
<1>1. CASE job'[j] = job[j]
  <2>1. p \in Inserted
    BY <1>1 DEF ReadyInv, JobFits
  <2>2. Candidate(p)
    BY <2>1, CandidateBefore
  <2>3. ~ \E i \in Jobs : VCommit(i) /\ PhotoOf(i) = y
    BY <1>1, OneCommit DEF VCommit
  <2>4. Kept(y)
    BY <2>3, KeptBefore
  <2> QED
    BY <1>1, <2>2, <2>4 DEF CopyInv, FindsKept
<1>2. CASE VFind(j)
  <2>1. PICK dups \in Nonrecent(p) :
          job' = [job EXCEPT ![j].step = "commit", ![j].dups = dups]
    BY <1>2 DEF VFind
  <2>2. job[j] \in JobType /\ p \in Photos
    BY <1>2, JobThere DEF VFind, Typed
  <2>3. job'[j].dups = dups
    <3>1. job'[j] = [job[j] EXCEPT !.step = "commit", !.dups = dups]
      BY <1>0, <2>1
    <3> QED
      BY <2>2, <3>1 DEF JobType
  <2>4. Kept(y) /\ Candidate(p)
    BY <1>2 DEF VFind, Kept, Candidate
  <2>5. y \in Live /\ row[y].md5 = ContentOf[p]
    BY <2>4 DEF CopyInv, Kept, Candidate, Valid, Live
  <2>6. p \in Live
    BY <1>2, <2>4 DEF VFind, ReadyInv, JobFits, Candidate, Live
  <2>7. Copy(p, y) /\ Copy(p, p)
    BY <2>4, <2>5, <2>6 DEF Copy, Kept, Candidate
  <2>8. PICK x \in Photos : dups = {z \in Photos : Copy(p, z)} \ {x}
    BY <2>1, <2>2, <2>7 DEF Nonrecent
  <2> QED
    BY <2>2, <2>3, <2>7, <2>8
<1>3. ASSUME NEW w \in Processes, Take(j, w)
      PROVE  FALSE
  <2>1. job[j] \in JobType
    BY <1>3, JobThere DEF Take, Typed
  <2> QED
    BY <1>0, <1>3, <2>1 DEF Take, JobType
<1>4. CASE CStore(j)
  <2>1. job[j] \in JobType
    BY <1>4, JobThere DEF CStore, Typed
  <2> QED
    BY <1>0, <1>4, <2>1 DEF CStore, JobType
<1> QED
  BY <1>1, <1>2, <1>3, <1>4, JobSteps DEF JobStep

(* Once a validation commits, the other copies are out, or its own photo is. *)
LEMMA CommitLeavesOne ==
  ASSUME "reset" \notin Kinds, Typed, ReadyInv, CopyInv, [Next]_vars,
         NEW j \in Jobs, VCommit(j), Kept(PhotoOf(j))',
         NEW y \in Photos, y # PhotoOf(j), ContentOf[y] = ContentOf[PhotoOf(j)]
  PROVE  ~Kept(y)'
<1> DEFINE p == PhotoOf(j)
<1> SUFFICES ASSUME Kept(y)'
             PROVE  FALSE
  OBVIOUS
<1>1. p \in Photos /\ p \in Inserted /\ row[p] \in RowType /\ row[y] \in RowType
  BY JobThere DEF VCommit, Typed, TypeOK, ReadyInv, JobFits
<1>2. Candidate(p)
  BY <1>1, CandidateBefore DEF Kept
<1>3. p \notin job[j].dups
  <2> SUFFICES ASSUME p \in job[j].dups
               PROVE  FALSE
    OBVIOUS
  <2>1. Verdict(j) = "duplicated"
    BY DEF Verdict
  <2>2. row'[p] = [row[p] EXCEPT !.md5 = ContentOf[p], !.validated = TRUE,
                                 !.reason = "duplicated"]
    BY <1>1, <2>1 DEF VCommit
  <2>3. row'[p].reason = "duplicated"
    BY <1>1, <2>2 DEF RowType
  <2> QED
    BY <2>3 DEF Kept, Candidate
<1>4. ~ \E i \in Jobs : VCommit(i) /\ PhotoOf(i) = y
  BY OneCommit DEF VCommit
<1>5. Kept(y)
  BY <1>4, KeptBefore
<1>6. y \in job[j].dups
  BY <1>2, <1>3, <1>5 DEF CopyInv, FindsKept, VCommit
<1>7. row'[y] = [row[y] EXCEPT !.reason = "duplicated"]
  BY <1>6 DEF VCommit
<1>8. row'[y].reason = "duplicated"
  BY <1>1, <1>7 DEF RowType
<1> QED
  BY <1>8 DEF Kept, Candidate

LEMMA NextCopies ==
  ASSUME \A w1, w2 \in Processes : w1 = w2, "reset" \notin Kinds,
         Typed, Md5Inv, ReadyInv, CopyInv, [Next]_vars
  PROVE  CopyInv'
<1>1. ASSUME NEW p1 \in Photos, NEW p2 \in Photos, Kept(p1)', Kept(p2)', p1 # p2
      PROVE  ContentOf[p1] # ContentOf[p2]
  <2>1. CASE \E j \in Jobs : VCommit(j) /\ PhotoOf(j) \in {p1, p2}
    BY <1>1, <2>1, CommitLeavesOne
  <2>2. CASE ~ \E j \in Jobs : VCommit(j) /\ PhotoOf(j) \in {p1, p2}
    <3>1. Kept(p1) /\ Kept(p2)
      BY <1>1, <2>2, KeptBefore
    <3> QED
      BY <1>1, <3>1 DEF CopyInv
  <2> QED
    BY <2>1, <2>2
<1>2. OneRunning'
  BY NextRunning DEF CopyInv
<1> QED
  BY <1>1, <1>2, NextValidated, NextFinds DEF CopyInv

(* One worker process keeps one copy of a content at most, whatever is uploaded,
   imported, retried, reviewed or deleted meanwhile and wherever the process dies,
   while nobody resets or reprocesses photos. *)
THEOREM OneCopyAlways ==
  ASSUME \A w1, w2 \in Processes : w1 = w2,
         "reset" \notin Kinds, "reprocess" \notin Kinds
  PROVE  Spec => []OneCopy
<1> DEFINE Inv == Typed /\ Md5Inv /\ ReadyInv /\ CopyInv
<1>1. Init => Inv
  BY InitTyped, InitMd5, InitReady, InitCopies
<1>2. Inv /\ [Next]_vars => Inv'
  BY NextTyped, NextMd5, NextReady, NextCopies
<1>3. Inv => OneCopy
  BY DEF CopyInv, OneCopy, Kept, Candidate, Live, Inserted
<1> QED
  <2> HIDE DEF Inv
  <2> QED
    BY <1>1, <1>2, <1>3, PTL DEF Spec
-------------------------------------------------------------------------------
(***************************************************************************)
(* The refinement: photos only take the edges of PhotoLifecycle.           *)
(***************************************************************************)

(* What was reviewed, or is about to be, was validated. *)
ReviewInv ==
  /\ \A p \in Photos : row[p].reviewer # Nobody => p \in Inserted /\ row[p].validated
  /\ \A q \in Requests :
       req[q].step \in {"approve", "reject"} =>
         \A p \in req[q].photos : p \in Inserted /\ row[p].validated

LEMMA InitReviews == Init => ReviewInv
<1> SUFFICES ASSUME Init PROVE ReviewInv
  OBVIOUS
<1>1. (CHOOSE a \in Albums : TRUE) \in Albums
  BY ConstantsAssumption
<1>2. \A p \in Photos : row[p].reviewer = Nobody
  BY <1>1 DEF Init, Blank
<1> QED
  BY <1>2 DEF Init, ReviewInv, NoRequest

LEMMA ValidatedStays ==
  ASSUME Typed, ReadyInv, [Next]_vars, NEW p \in Inserted, row[p].validated
  PROVE  p \in Inserted' /\ row'[p].validated
<1>1. RowStep(p) /\ p \in Inserted'
  BY RowSteps, RanksStay DEF Inserted
<1>2. ~Arrives(p)
  BY DEF Arrives
<1>3. ~Saves(p)
  BY DEF Saves, SaveWrite, ReadyInv, RequestFits
<1> QED
  BY <1>1, <1>2, <1>3
     DEF RowStep, Validates, Duplicates, Moderates, Keeps, Converts, Fails

LEMMA NextReviews ==
  ASSUME "reprocess" \notin Kinds, Typed, ReadyInv, ReviewInv, [Next]_vars
  PROVE  ReviewInv'
<1>1. ASSUME NEW p \in Photos, row'[p].reviewer # Nobody
      PROVE  p \in Inserted' /\ row'[p].validated
  <2>0. RowStep(p)
    BY RowSteps
  <2>1. ~Arrives(p)
    BY <1>1, ArrivedRow
  <2>2. ~Saves(p)
    BY DEF Saves, SaveWrite, ReadyInv, RequestFits
  <2>3. CASE Reviews(p)
    BY <2>3, ValidatedStays DEF Reviews, WriteReview, ReviewInv
  <2>4. CASE row'[p].reviewer = row[p].reviewer
    BY <1>1, <2>4, ValidatedStays DEF ReviewInv
  <2> QED
    BY <1>1, <2>0, <2>1, <2>2, <2>3, <2>4
       DEF RowStep, Validates, Duplicates, Moderates, Resets, Moves, Converts, Fails
<1>2. ASSUME NEW q \in Requests, req'[q].step \in {"approve", "reject"}, NEW p \in req'[q].photos
      PROVE  p \in Inserted' /\ row'[p].validated
  <2>0. req \in [Requests -> RequestType \cup {NoRequest}]
    BY DEF Typed, TypeOK
  <2>1. CASE req'[q] = req[q]
    BY <1>2, <2>1, ValidatedStays DEF ReviewInv
  <2>2. ASSUME NEW r \in Requests, NEW kind, NEW x \in Photos, NEW who \in Reviewers,
               Review(r, kind, x, who)
        PROVE  p \in Inserted' /\ row'[p].validated
    <3>1. CASE r = q
      <4>1. req'[q] = [step |-> kind, photos |-> {x}, who |-> who]
        BY <2>0, <2>2, <3>1 DEF Review
      <4>2. p = x
        BY <1>2, <4>1
      <4> QED
        BY <2>2, <4>2, ValidatedStays DEF Review, Reviewable, Live
    <3>2. CASE r # q
      BY <2>0, <2>1, <2>2, <3>2 DEF Review
    <3> QED
      BY <3>1, <3>2
  <2>3. ASSUME NEW r \in Requests, Handle(r) \/ ServerCrash(r)
        PROVE  p \in Inserted' /\ row'[p].validated
    <3>1. req' = [req EXCEPT ![r] = NoRequest]
      <4>1. RequestFits(r)
        BY DEF ReadyInv
      <4> QED
        BY <2>3, <4>1
           DEF RequestFits, Handle, Enqueue, WriteReview, SaveDiff, SaveWrite, ServerCrash
    <3>2. r # q
      BY <1>2, <2>0, <3>1 DEF NoRequest
    <3> QED
      BY <2>0, <2>1, <3>1, <3>2
  <2>4. ASSUME NEW r \in Requests, NEW kind, NEW S, NEW a, Arrive(r, kind, S, a)
        PROVE  p \in Inserted' /\ row'[p].validated
    <3>1. r # q
      <4> SUFFICES ASSUME r = q PROVE FALSE
        OBVIOUS
      <4>1. req'[q] = [step |-> "enqueue", photos |-> S, album |-> a]
        BY <2>0, <2>4 DEF Arrive
      <4> QED
        BY <1>2, <4>1
    <3> QED
      BY <2>0, <2>1, <2>4, <3>1 DEF Arrive
  <2>5. CASE \E r \in Requests, a \in Albums :
               ImportFiles(r, a) \/ \E x \in Photos : UploadFile(r, x, a)
    BY <2>4, <2>5 DEF ImportFiles, UploadFile
  <2>6. CASE \E j \in Jobs : Work(j) \/ AttemptFails(j) \/ \E w \in Processes : Take(j, w)
    BY <2>1, <2>6 DEF Work, VFind, VCommit, VQueue, CStore, CUpdate, AttemptFails, Take
  <2> QED
    BY <2>1, <2>2, <2>3, <2>5, <2>6
       DEF Next, Reprocess, OnFailed, ResetApprovals, DeletePhoto, MovePhotos,
           WorkerCrash, vars
<1> QED
  BY <1>1, <1>2 DEF ReviewInv

(* A row is inserted by Arrive only. *)
LEMMA InsertedArrive ==
  ASSUME Typed, [Next]_vars, NEW p \in Photos, p \notin Inserted, p \in Inserted'
  PROVE  Arrives(p)
<1>0. born \in [Photos -> 0..Cardinality(Photos)] /\ row \in [Photos -> RowType]
  BY DEF Typed, TypeOK
<1>1. ~(born' = born)
  BY DEF Inserted
<1>2. ASSUME NEW q \in Requests, NEW kind, NEW S \in SUBSET Photos, NEW a \in Albums,
             Arrive(q, kind, S, a)
      PROVE  Arrives(p)
  <2>1. p \in S
    BY <1>2 DEF Arrive, Inserted
  <2>2. row'[p] = Blank(a, IF kind = "upload" THEN ContentOf[p] ELSE NoContent)
    BY <1>2, <2>1 DEF Arrive
  <2> QED
    BY <2>2 DEF Arrives
<1>3. CASE \E q \in Requests, a \in Albums :
             ImportFiles(q, a) \/ \E x \in Photos : UploadFile(q, x, a)
  BY <1>2, <1>3, ConstantsAssumption DEF ImportFiles, UploadFile
<1>4. CASE \E q \in Requests : Handle(q) \/ ServerCrash(q)
  BY <1>1, <1>4 DEF Handle, Enqueue, WriteReview, SaveDiff, SaveWrite, ServerCrash
<1>5. CASE \E j \in Jobs : Work(j) \/ AttemptFails(j) \/ \E w \in Processes : Take(j, w)
  BY <1>1, <1>5 DEF Work, VFind, VCommit, VQueue, CStore, CUpdate, AttemptFails, Take
<1> QED
  BY <1>1, <1>3, <1>4, <1>5
     DEF Next, Reprocess, Review, OnFailed, ResetApprovals, DeletePhoto, MovePhotos,
         WorkerCrash, vars

(* The edges, by the columns that the getter looks at. *)
LEMMA EdgeOfStep ==
  ASSUME "reprocess" \notin Kinds, Typed, ReadyInv, ReviewInv, [Next]_vars,
         NEW p \in Inserted, StateOf(p)' # StateOf(p)
  PROVE  <<StateOf(p), StateOf(p)'>> \in Lifecycle!Edges
<1>0. RowStep(p) /\ p \in Inserted' /\ p \in Photos
  BY RowSteps, RanksStay DEF Inserted
<1>1. StateOf(p)' =
        IF row'[p].failed THEN "failed"
        ELSE IF row'[p].reason # "none" THEN "rejected"
        ELSE IF row'[p].reviewer # Nobody THEN "approved"
        ELSE IF row'[p].processed THEN "processed"
        ELSE IF row'[p].validated THEN "accepted" ELSE "created"
  BY <1>0 DEF StateOf
<1>2. StateOf(p) =
        IF row[p].failed THEN "failed"
        ELSE IF row[p].reason # "none" THEN "rejected"
        ELSE IF row[p].reviewer # Nobody THEN "approved"
        ELSE IF row[p].processed THEN "processed"
        ELSE IF row[p].validated THEN "accepted" ELSE "created"
  BY DEF StateOf
<1>3. /\ row[p].reviewer # Nobody => row[p].validated
      /\ row[p].processed /\ ~row[p].failed => row[p].validated
  BY <1>0 DEF ReviewInv, ReadyInv, Valid
<1>4. ~Arrives(p) /\ ~Saves(p) /\ row'[p] # row[p]
  BY <1>1, <1>2 DEF Arrives, Saves, SaveWrite, ReadyInv, RequestFits
<1> USE DEF Lifecycle!Edges, Lifecycle!States
<1>5. CASE Fails(p)
  BY <1>1, <1>2, <1>5 DEF Fails
<1>6. CASE Duplicates(p)
  BY <1>1, <1>2, <1>6 DEF Duplicates, Keeps
<1>7. CASE Converts(p)
  <2>1. row[p].validated
    BY <1>7 DEF Converts, CUpdate, ReadyInv, JobFits, Valid
  <2> QED
    BY <1>1, <1>2, <1>7, <2>1 DEF Converts
<1>8. CASE Validates(p)
  BY <1>1, <1>2, <1>3, <1>8 DEF Validates
<1>9. CASE Keeps(p) /\ Reviews(p)
  <2>1. row[p].validated /\ row'[p].reviewer # Nobody
    BY <1>9, ConstantsAssumption DEF Reviews, WriteReview, ReviewInv
  <2>2. row[p].reason # "none" => row'[p].reason # "none"
    BY <1>9, ConstantsAssumption DEF Reviews
  <2> QED
    BY <1>1, <1>2, <1>9, <2>1, <2>2 DEF Keeps
<1>10. CASE Keeps(p) /\ Resets(p)
  BY <1>1, <1>2, <1>3, <1>10 DEF Keeps, Resets
<1>11. CASE Keeps(p) /\ Moves(p)
  BY <1>1, <1>2, <1>11 DEF Keeps, Moves
<1> QED
  BY <1>0, <1>4, <1>5, <1>6, <1>7, <1>8, <1>9, <1>10, <1>11 DEF RowStep, Moderates

LEMMA NextMoves ==
  ASSUME "reprocess" \notin Kinds, Typed, ReadyInv, ReviewInv, [Next]_vars
  PROVE  Lifecycle!Move
<1>1. ASSUME NEW p \in Photos
      PROVE  /\ StateOf(p)' \in Lifecycle!States
             /\ StateOf(p)' # StateOf(p) => <<StateOf(p), StateOf(p)'>> \in Lifecycle!Edges
  <2>1. StateOf(p)' \in Lifecycle!States
    BY DEF StateOf, Lifecycle!States
  <2>2. CASE p \in Inserted
    BY <2>1, <2>2, EdgeOfStep
  <2>3. CASE p \notin Inserted /\ p \notin Inserted'
    BY <2>1, <2>3 DEF StateOf
  <2>4. CASE p \notin Inserted /\ p \in Inserted'
    <3>1. Arrives(p)
      BY <2>4, InsertedArrive
    <3>2. StateOf(p)' = "created"
      BY <2>4, <3>1, ArrivedRow DEF StateOf
    <3>3. StateOf(p) = "absent"
      BY <2>4 DEF StateOf
    <3> QED
      BY <2>1, <3>2, <3>3 DEF Lifecycle!Edges
  <2> QED
    BY <2>2, <2>3, <2>4
<1>2. [p \in Photos |-> StateOf(p)]' = [p \in Photos |-> StateOf(p)']
  OBVIOUS
<1> QED
  BY <1>1, <1>2 DEF Lifecycle!Move

(* GalleryPhoto implements PhotoLifecycle while nobody reprocesses photos: nothing
   is approved or processed before it was accepted, failure is for ever, and a
   rejected photo comes back by a reset only. *)
THEOREM FollowsLifecycle ==
  ASSUME "reprocess" \notin Kinds
  PROVE  Spec => LifecycleSpec
<1> DEFINE Inv == Typed /\ ReadyInv /\ ReviewInv
<1>1. Init => Inv
  BY InitTyped, InitReady, InitReviews
<1>2. Inv /\ [Next]_vars => Inv'
  BY NextTyped, NextReady, NextReviews
<1>3. Inv /\ [Next]_vars => Lifecycle!Move
  BY NextMoves
<1>4. Init => Lifecycle!Init
  BY DEF Init, Lifecycle!Init, StateOf, Inserted
<1> QED
  <2> HIDE DEF Inv
  <2> QED
    BY <1>1, <1>2, <1>3, <1>4, PTL DEF Spec, LifecycleSpec, Lifecycle!Spec
===============================================================================
