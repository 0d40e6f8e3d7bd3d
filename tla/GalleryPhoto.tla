----------------------------- MODULE GalleryPhoto -----------------------------
(***************************************************************************)
(* The way of a photo into the gallery (src/gallery/photo): it is uploaded *)
(* or imported, validated and converted by workers that take jobs from two *)
(* BullMQ queues, and reviewed, reprocessed, moved, reset or deleted by    *)
(* moderators meanwhile.                                                   *)
(*                                                                         *)
(* The rows are in PostgreSQL (READ COMMITTED); the only transaction of    *)
(* several statements is that of the validation, which holds the row lock  *)
(* of its photo from VFind to VCommit. A worker process runs one job of    *)
(* each queue at a time. Its handler of the queue's 'failed' event runs on *)
(* its own, after every failed attempt: those are the reports.             *)
(***************************************************************************)
EXTENDS Integers, FiniteSets

CONSTANTS
  Photos,        \* photos that may be uploaded (bound)
  Imported,      \* those of them that an import finds in its directory
  Albums,        \* gallery albums
  Contents,      \* file contents, as the MD5 tells them apart
  ContentOf,     \* [Photos -> Contents]
  Reviewers,     \* profiles
  TakenBy,       \* [Photos -> Reviewers \cup {Nobody}]: the photographer
  Grade,         \* [Albums \X Contents -> Grades]: the album's upload rules
  Processes,     \* worker processes
  Copies,        \* jobs of one photo that can be in one queue (bound)
  Requests,      \* HTTP requests that can be in flight together (bound)
  Attempts,      \* attempts of a job: 2 in the queue options
  Kinds,         \* which endpoints the requests of a run may call
  RejectReasons, \* reasons the moderators of a run give
  MayFail,       \* TRUE: an attempt can throw (storage, image, Redis)
  MayCrash,      \* TRUE: a process can die
  Nobody, NoContent

Reasons == {"none", "duplicated", "resolution", "timestamp", "other"}
Grades == {"none", "resolution", "timestamp"}
AllKinds == {"upload", "import", "approve", "reject", "reprocess", "reset",
             "move", "delete"}

ASSUME ConstantsAssumption ==
  /\ IsFiniteSet(Photos)
  /\ Imported \subseteq Photos
  /\ Albums # {}
  /\ ContentOf \in [Photos -> Contents]
  /\ TakenBy \in [Photos -> Reviewers \cup {Nobody}]
  /\ Grade \in [Albums \X Contents -> Grades]
  /\ Attempts \in Nat \ {0} /\ Copies \in Nat \ {0}
  /\ Kinds \subseteq AllKinds
  /\ RejectReasons \subseteq Reasons \ {"none"}
  /\ {MayFail, MayCrash} \subseteq BOOLEAN
  /\ Nobody \notin Reviewers /\ NoContent \notin Contents

VARIABLES
  row,       \* gallery_photos, as committed
  born,      \* created_at, as a rank; 0: not inserted
  deleted,   \* rows with deleted_at
  stored,    \* photos whose preview and thumbnail are in the storage
  job,       \* the jobs of the two queues
  reports,   \* handlers of 'failed' events that have not run yet
  req        \* the requests

vars == <<row, born, deleted, stored, job, reports, req>>

Queues == {"validation", "conversion"}
Columns == {"album", "md5", "validated", "processed", "reviewer", "reason",
            "failed"}
RowType ==
  [album : Albums, md5 : Contents \cup {NoContent}, validated : BOOLEAN,
   processed : BOOLEAN, reviewer : Reviewers \cup {Nobody}, reason : Reasons,
   failed : BOOLEAN]
(* job.data is the photo as it was when the job was added. *)
Jobs == Queues \X Photos \X (1..Copies)
JobType ==
  [album : Albums, tries : 0..Attempts - 1,
   stalled : BOOLEAN, dups : SUBSET Photos,
   step : {"waiting", "validate", "commit", "queue", "convert", "stored"},
   by : Processes \cup {Nobody}]
NoJob == [step |-> "none"]
RequestType ==
  [step : {"enqueue"}, photos : SUBSET Photos, album : Albums]
  \cup [step : {"approve", "reject"}, photos : SUBSET Photos, who : Reviewers]
  \cup [step : {"save"}, photos : SUBSET Photos, read : RowType]
  \cup [step : {"write"}, photos : SUBSET Photos, read : RowType,
        columns : SUBSET Columns]
NoRequest == [step |-> "none"]

TypeOK ==
  /\ row \in [Photos -> RowType]
  /\ born \in [Photos -> 0..Cardinality(Photos)]
  /\ deleted \subseteq Photos
  /\ stored \subseteq Photos
  /\ job \in [Jobs -> JobType \cup {NoJob}]
  /\ reports \subseteq [queue : Queues, photo : Photos, by : Processes]
  /\ req \in [Requests -> RequestType \cup {NoRequest}]

Blank(a, c) ==
  [album |-> a, md5 |-> c, validated |-> FALSE, processed |-> FALSE,
   reviewer |-> Nobody, reason |-> "none", failed |-> FALSE]

Init ==
  /\ row = [p \in Photos |-> Blank(CHOOSE a \in Albums : TRUE, NoContent)]
  /\ born = [p \in Photos |-> 0]
  /\ deleted = {}
  /\ stored = {}
  /\ job = [j \in Jobs |-> NoJob]
  /\ reports = {}
  /\ req = [q \in Requests |-> NoRequest]

-------------------------------------------------------------------------------
(* The entity. *)

Inserted == {p \in Photos : born[p] > 0}
Live == Inserted \ deleted

(* The getter `state` of the entity; "absent": there is no row. *)
StateOf(p) ==
  IF p \notin Inserted THEN "absent"
  ELSE IF row[p].failed THEN "failed"
  ELSE IF row[p].reason # "none" THEN "rejected"
  ELSE IF row[p].reviewer # Nobody THEN "approved"
  ELSE IF row[p].processed THEN "processed"
  ELSE IF row[p].validated THEN "accepted" ELSE "created"

QueueOf(j) == j[1]
PhotoOf(j) == j[2]
Running(j) == job[j].step \notin {"none", "waiting"}

(* The transaction of a validation has written the row of its photo. *)
Locked(p) == \E j \in Jobs : job[j].step = "commit" /\ PhotoOf(j) = p

(* The queues with a new job for each photo of S, if there is room. *)
NewJob(a) == [album |-> a, tries |-> 0, stalled |-> FALSE, dups |-> {},
              step |-> "waiting", by |-> Nobody]
Room(queue, p) == {k \in 1..Copies : job[<<queue, p, k>>] = NoJob}
Added(queue, S, a) ==
  [j \in Jobs |->
     IF /\ QueueOf(j) = queue /\ PhotoOf(j) \in S
        /\ j[3] = CHOOSE k \in Room(queue, PhotoOf(j)) : TRUE
       THEN NewJob(a) ELSE job[j]]

-------------------------------------------------------------------------------
(* Uploads and imports: the rows are inserted by one statement, the jobs are
   added afterwards, all together. An upload knows the MD5 of its file. *)

Arrive(q, kind, S, a) ==
  /\ kind \in Kinds
  /\ req[q] = NoRequest
  /\ S # {} /\ S \cap Inserted = {}
  /\ row' = [p \in Photos |->
               IF p \in S
                 THEN Blank(a, IF kind = "upload" THEN ContentOf[p] ELSE NoContent)
                 ELSE row[p]]
  /\ born' = [p \in Photos |->
                IF p \in S THEN 1 + Cardinality({born[x] : x \in Inserted})
                           ELSE born[p]]
  /\ req' = [req EXCEPT ![q] = [step |-> "enqueue", photos |-> S, album |-> a]]
  /\ UNCHANGED <<deleted, stored, job, reports>>

UploadFile(q, p, a) == p \notin Imported /\ Arrive(q, "upload", {p}, a)
ImportFiles(q, a) == Arrive(q, "import", Imported, a)

Enqueue(q) ==
  /\ req[q].step = "enqueue"
  /\ \A p \in req[q].photos : Room("validation", p) # {}
  /\ job' = Added("validation", req[q].photos, req[q].album)
  /\ req' = [req EXCEPT ![q] = NoRequest]
  /\ UNCHANGED <<row, born, deleted, stored, reports>>

-------------------------------------------------------------------------------
(* Workers. *)

(* A worker process takes a waiting job when it runs none of that queue. *)
Take(j, w) ==
  /\ job[j].step = "waiting"
  /\ \A i \in Jobs : ~(Running(i) /\ QueueOf(i) = QueueOf(j) /\ job[i].by = w)
  /\ job' = [job EXCEPT ![j].by = w,
                        ![j].step = IF QueueOf(j) = "validation" THEN "validate"
                                                                ELSE "convert"]
  /\ UNCHANGED <<row, born, deleted, stored, reports, req>>

\* mutant: looks for copies before the row of the photo has its md5
CopyBeforeUpdate(p, x) ==
  x \in Live /\ row[x].reason = "none" /\ ~row[x].failed /\ row[x].md5 = ContentOf[p]

(* rejectNonrecentDuplicatedFiles: the copies it finds but the newest one; the
   rows of an import are of the same age, and any of them may come first. *)
Copy(p, x) ==
  /\ x \in Live
  /\ row[x].reason = "none" /\ ~row[x].failed
  /\ x = p \/ row[x].md5 = ContentOf[p]
\* mutant: ordered by createdAt ASC
Recent(p) ==
  LET copies == {x \in Photos : Copy(p, x)} IN
  IF copies = {} THEN {{}}
  ELSE {copies \ {x} : x \in {y \in copies : \A z \in copies : born[y] <= born[z]}}
Nonrecent(p) ==
  LET copies == {x \in Photos : Copy(p, x)} IN
  IF copies = {} THEN {{}}
  ELSE {copies \ {x} : x \in {y \in copies : \A z \in copies : born[y] >= born[z]}}

(* The transaction begins, writes the row of its photo and looks for copies. *)
VFind(j) ==
  /\ job[j].step = "validate"
  /\ ~Locked(PhotoOf(j))
  /\ \E dups \in Nonrecent(PhotoOf(j)) :
       job' = [job EXCEPT ![j].step = "commit", ![j].dups = dups]
  /\ UNCHANGED <<row, born, deleted, stored, reports, req>>

(* j has to wait for the row that the transaction of i has written. PostgreSQL
   aborts a transaction that waits in a circle (of two, as the runs have). *)
WaitsFor(j, i) ==
  job[j].step = "commit" /\ job[i].step = "commit" /\ i # j
    /\ PhotoOf(i) \in job[j].dups
Deadlocked(j) == \E i \in Jobs : WaitsFor(j, i) /\ WaitsFor(i, j)

(* What the rules of the album say of photo p, unless it was a duplicate. *)
Verdict(j) ==
  IF PhotoOf(j) \in job[j].dups THEN "duplicated"
                               ELSE Grade[job[j].album, ContentOf[PhotoOf(j)]]

VCommit(j) ==
  LET p == PhotoOf(j) IN
  /\ job[j].step = "commit"
  /\ \A i \in Jobs : ~WaitsFor(j, i)
  /\ row' = [x \in Photos |->
               IF x = p
                 THEN [row[p] EXCEPT !.md5 = ContentOf[p], !.validated = TRUE,
                         !.reason = IF Verdict(j) = "none" THEN @ ELSE Verdict(j)]
               ELSE IF x \in job[j].dups
                 THEN [row[x] EXCEPT !.reason = "duplicated"] ELSE row[x]]
  /\ job' = [job EXCEPT ![j] = IF Verdict(j) = "none"
                                 THEN [job[j] EXCEPT !.step = "queue", !.dups = {}]
                                 ELSE NoJob]
  /\ UNCHANGED <<born, deleted, stored, reports, req>>

\* mutant: the conversion is never queued
VForget(j) ==
  /\ job[j].step = "queue"
  /\ job' = [job EXCEPT ![j] = NoJob]
  /\ UNCHANGED <<row, born, deleted, stored, reports, req>>

(* The photo is handed to the converter and the validation is complete. *)
VQueue(j) ==
  /\ job[j].step = "queue"
  /\ Room("conversion", PhotoOf(j)) # {}
  /\ job' = [Added("conversion", {PhotoOf(j)}, job[j].album) EXCEPT ![j] = NoJob]
  /\ UNCHANGED <<row, born, deleted, stored, reports, req>>

\* mutant: the uploads of preview and thumbnail are not awaited
CStoreLater(j) ==
  /\ job[j].step = "convert"
  /\ stored' \in {stored, stored \cup {PhotoOf(j)}}
  /\ job' = [job EXCEPT ![j].step = "stored"]
  /\ UNCHANGED <<row, born, deleted, reports, req>>

CStore(j) ==
  /\ job[j].step = "convert"
  /\ stored' = stored \cup {PhotoOf(j)}
  /\ job' = [job EXCEPT ![j].step = "stored"]
  /\ UNCHANGED <<row, born, deleted, reports, req>>

CUpdate(j) ==
  /\ job[j].step = "stored"
  /\ ~Locked(PhotoOf(j))
  /\ row' = [row EXCEPT ![PhotoOf(j)].processed = TRUE]
  /\ job' = [job EXCEPT ![j] = NoJob]
  /\ UNCHANGED <<born, deleted, stored, reports, req>>

\* mutant: counts the retries and not the attempts
RetriedOnceMore(j) ==
  IF job[j].tries < Attempts
    THEN [NewJob(job[j].album) EXCEPT !.tries = job[j].tries + 1,
                                      !.stalled = job[j].stalled]
    ELSE NoJob

(* BullMQ: another attempt while there is one left. *)
Retried(j) ==
  IF job[j].tries + 1 < Attempts
    THEN [NewJob(job[j].album) EXCEPT !.tries = job[j].tries + 1,
                                      !.stalled = job[j].stalled]
    ELSE NoJob

(* An attempt throws: its transaction is rolled back, and the 'failed' event
   goes to the handler of the same process, attempts left or not. *)
AttemptFails(j) ==
  /\ Running(j)
  /\ MayFail \/ Deadlocked(j)
  /\ job' = [job EXCEPT ![j] = Retried(j)]
  /\ reports' = reports \cup
       {[queue |-> QueueOf(j), photo |-> PhotoOf(j), by |-> job[j].by]}
  /\ UNCHANGED <<row, born, deleted, stored, req>>

(* onFailed of the validator and of the converter. *)
OnFailed(r) ==
  /\ r \in reports
  /\ ~Locked(r.photo)
  /\ row' = [row EXCEPT ![r.photo].failed = TRUE,
                        ![r.photo].validated = @ \/ r.queue = "validation",
                        ![r.photo].processed = @ \/ r.queue = "conversion"]
  /\ reports' = reports \ {r}
  /\ UNCHANGED <<born, deleted, stored, job, req>>

-------------------------------------------------------------------------------
(* Moderators. *)

\* mutant: photos that are pending for validation may be reviewed
ReviewableUnvalidated(p, who) ==
  /\ p \in Live /\ ~row[p].failed
  /\ row[p].reviewer = Nobody /\ row[p].reason = "none"
  /\ TakenBy[p] # who

(* approvalPrecheck *)
Reviewable(p, who) ==
  /\ p \in Live
  /\ row[p].validated /\ ~row[p].failed
  /\ row[p].reviewer = Nobody /\ row[p].reason = "none"
  /\ TakenBy[p] # who

Review(q, kind, p, who) ==
  /\ kind \in Kinds
  /\ req[q] = NoRequest
  /\ Reviewable(p, who)
  /\ req' = [req EXCEPT ![q] = [step |-> kind, photos |-> {p}, who |-> who]]
  /\ UNCHANGED <<row, born, deleted, stored, job, reports>>

(* The update that approves or rejects, whatever the row says by now. *)
WriteReview(q) ==
  /\ req[q].step \in {"approve", "reject"}
  /\ \A p \in req[q].photos : ~Locked(p)
  /\ \E reason \in RejectReasons :
       row' = [p \in Photos |->
                 IF p \notin req[q].photos THEN row[p]
                 ELSE [row[p] EXCEPT
                         !.reviewer = req[q].who,
                         !.reason = IF req[q].step = "reject" THEN reason ELSE @]]
  /\ req' = [req EXCEPT ![q] = NoRequest]
  /\ UNCHANGED <<born, deleted, stored, job, reports>>

(* reprocess: the entity it read, which nobody had reviewed, is saved with its
   state cleared. *)
Reprocess(q, p) ==
  /\ "reprocess" \in Kinds
  /\ req[q] = NoRequest
  /\ p \in Live /\ row[p].reviewer = Nobody
  /\ req' = [req EXCEPT ![q] = [step |-> "save", photos |-> {p},
                                read |-> Blank(row[p].album, row[p].md5)]]
  /\ UNCHANGED <<row, born, deleted, stored, job, reports>>

(* save() reads the row again to find the columns that it has to write. *)
SaveDiff(q) ==
  /\ req[q].step = "save"
  /\ \E p \in req[q].photos :
       LET changed == {c \in Columns : req[q].read[c] # row[p][c]} IN
       req' = [req EXCEPT ![q] =
                 [step |-> "write", photos |-> {p}, read |-> req[q].read,
                  columns |-> changed]]
  /\ UNCHANGED <<row, born, deleted, stored, job, reports>>

SaveWrite(q) ==
  /\ req[q].step = "write"
  /\ \A p \in req[q].photos : ~Locked(p)
  /\ row' = [p \in Photos |->
               IF p \notin req[q].photos THEN row[p]
               ELSE [c \in Columns |-> IF c \in req[q].columns
                                         THEN req[q].read[c] ELSE row[p][c]]]
  /\ req' = [req EXCEPT ![q] = [step |-> "enqueue", photos |-> req[q].photos,
                                album |-> req[q].read.album]]
  /\ UNCHANGED <<born, deleted, stored, job, reports>>

ResetApprovals(p) ==
  /\ "reset" \in Kinds
  /\ p \in Inserted /\ ~Locked(p)
  /\ row' = [row EXCEPT ![p].reviewer = Nobody, ![p].reason = "none"]
  /\ UNCHANGED <<born, deleted, stored, job, reports, req>>

MovePhotos(S, a) ==
  /\ "move" \in Kinds
  /\ S # {} /\ S \subseteq Inserted /\ \A p \in S : ~Locked(p)
  /\ row' = [p \in Photos |-> IF p \in S THEN [row[p] EXCEPT !.album = a]
                                         ELSE row[p]]
  /\ UNCHANGED <<born, deleted, stored, job, reports, req>>

DeletePhoto(p) ==
  /\ "delete" \in Kinds
  /\ p \in Live /\ ~Locked(p)
  /\ deleted' = deleted \cup {p}
  /\ UNCHANGED <<row, born, stored, job, reports, req>>

-------------------------------------------------------------------------------
(* A worker process dies: its transactions are rolled back, its reports are
   lost, and its jobs stall. BullMQ lets a job stall once, then it fails it,
   and the process that notices gets the 'failed' event if it is lucky. *)
WorkerCrash(w) ==
  LET lost == {j \in Jobs : Running(j) /\ job[j].by = w} IN
  /\ MayCrash
  /\ lost # {} \/ \E r \in reports : r.by = w
  /\ job' = [j \in Jobs |->
               IF j \notin lost THEN job[j]
               ELSE IF job[j].stalled THEN NoJob
               ELSE [NewJob(job[j].album) EXCEPT !.tries = job[j].tries,
                                                 !.stalled = TRUE]]
  /\ \E told \in SUBSET {j \in lost : job[j].stalled}, v \in Processes :
       reports' = {r \in reports : r.by # w} \cup
         {[queue |-> QueueOf(j), photo |-> PhotoOf(j), by |-> v] : j \in told}
  /\ UNCHANGED <<row, born, deleted, stored, req>>

ServerCrash(q) ==
  /\ MayCrash
  /\ req[q] # NoRequest
  /\ req' = [req EXCEPT ![q] = NoRequest]
  /\ UNCHANGED <<row, born, deleted, stored, job, reports>>

Work(j) == VFind(j) \/ VCommit(j) \/ VQueue(j) \/ CStore(j) \/ CUpdate(j)

Handle(q) == Enqueue(q) \/ WriteReview(q) \/ SaveDiff(q) \/ SaveWrite(q)

Next ==
  \/ \E q \in Requests, a \in Albums :
       ImportFiles(q, a) \/ \E p \in Photos : UploadFile(q, p, a)
  \/ \E q \in Requests, p \in Photos :
       \/ Reprocess(q, p)
       \/ \E who \in Reviewers, kind \in {"approve", "reject"} :
            Review(q, kind, p, who)
  \/ \E q \in Requests : Handle(q) \/ ServerCrash(q)
  \/ \E j \in Jobs : Work(j) \/ AttemptFails(j) \/ \E w \in Processes : Take(j, w)
  \/ \E r \in reports : OnFailed(r)
  \/ \E p \in Photos : ResetApprovals(p) \/ DeletePhoto(p)
  \/ \E S \in SUBSET Photos, a \in Albums : MovePhotos(S, a)
  \/ \E w \in Processes : WorkerCrash(w)

Spec == Init /\ [][Next]_vars

(* Jobs are taken in turn (a queue is first in, first out) by processes that
   are up; jobs, reports and requests that wait for a row get it in turn, too
   (PostgreSQL queues the waiters of a lock). Nobody has to send a request. *)
Fairness ==
  /\ \A j \in Jobs :
       /\ SF_vars(Work(j) \/ AttemptFails(j))
       /\ SF_vars(\E w \in Processes : Take(j, w))
  /\ \A p \in Photos : SF_vars(\E r \in reports : r.photo = p /\ OnFailed(r))
  /\ \A q \in Requests : SF_vars(Handle(q))

FairSpec == Spec /\ Fairness

-------------------------------------------------------------------------------
(* Properties. *)

(* A photo that is shown as processed, and not as failed, has its preview and
   thumbnail in the storage and was validated with the MD5 of its file, in
   whatever order attempts, retries, reports and crashes follow each other
   (as long as nobody reprocesses it). *)
ProcessedPhotosAreReady ==
  \A p \in Inserted :
    row[p].processed /\ ~row[p].failed =>
      p \in stored /\ row[p].validated /\ row[p].md5 = ContentOf[p]

(* Of the photos of one content at most one is validated and not rejected,
   across albums, imports and retries: with one worker process, and unless a
   moderator resets a rejection. *)
OneCopy ==
  LET kept == {p \in Live : row[p].validated /\ row[p].reason = "none"
                                            /\ ~row[p].failed} IN
  \A p1, p2 \in kept : p1 # p2 => ContentOf[p1] # ContentOf[p2]

(* "accept recent upload": a photo is rejected as a duplicate only in favour
   of another copy that is not older, also when several processes validate
   the copies at the same time. *)
DuplicatesAreOlder ==
  \A p \in Inserted :
    row[p].reason = "duplicated" =>
      \E x \in Inserted \ {p} :
        ContentOf[x] = ContentOf[p] /\ born[x] >= born[p]

(* Photos pass through the states PhotoLifecycle allows: in particular nothing
   is approved before it was accepted, and no review, retry or late job brings
   a rejected photo back without a reset. *)
Lifecycle == INSTANCE PhotoLifecycle WITH state <- [p \in Photos |-> StateOf(p)]
LifecycleSpec == Lifecycle!Spec

(* A job, a report or a request still works on the photo. *)
Settled(p) == row[p].processed \/ row[p].failed \/ row[p].reason # "none"
AtWork(p) ==
  \/ \E j \in Jobs : PhotoOf(j) = p /\ job[j] # NoJob
  \/ \E r \in reports : r.photo = p
  \/ \E q \in Requests : req[q].step \in {"save", "write", "enqueue"} /\ p \in req[q].photos

(* A photo that is not validated yet, or that something still works on, is
   processed, rejected or failed in the end, whichever attempts fail on the way
   and whenever moderators reprocess, reject or reset it (and no process dies).
   Not so a photo that is reset when all is done: rejected by the album's rules
   it was never converted, and nothing converts it then. *)
EveryPhotoSettles ==
  \A p \in Photos :
    (p \in Inserted /\ ~Settled(p) /\ (~row[p].validated \/ AtWork(p))) ~> Settled(p)

(* "The photo has already reviewed", of reprocess: reprocessing never takes a
   review away. *)
ReviewsSurviveReprocessing ==
  [][\A p \in Photos : row[p].reviewer # Nobody => row'[p].reviewer # Nobody]_vars
===============================================================================
