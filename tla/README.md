# nudchanel in TLA+

nudchanel is the NestJS backend of a student photography club: accounts and
sign-in, the photo gallery, photo processing and streaming, the yearly
recruitment with its interviews, and workers around them. This directory holds
TLA+ models of its stateful parts, TLC configurations that check them on small
instances, and proofs that the TLA+ proof system checks.

    tlc -workers 2 -config MCRecruitInterview_rows.cfg MCRecruitInterview
    tlapm RecruitInterviewProofs.tla

Paths in this file are relative to `src/src/` of the repository.

## 1. Inventory

State is kept in PostgreSQL (TypeORM, READ COMMITTED, one statement per
transaction unless `dataSource.transaction` is used), MongoDB (profiles), Redis
(BullMQ queues, caches), RabbitMQ (photo jobs), Google Calendar, Discord and the
file storage (MinIO or WebDAV). The program runs as Server, Worker or both, with
any number of replicas, so everything between two `await`s can interleave with
the handlers of other requests, jobs and processes, and no state of a handler
survives its process.

| component | state | operations | what is hard | what makes it correct | module |
|---|---|---|---|---|---|
| Interview slots, `recruit/interview` | `recruit_interview_slots`: holder, interview stamp, calendar event per (role, time) | book, rebook, cancel, add, remove, mark, unmark | row locks, checks before updates, calendar calls inside and outside of transactions | all roles of a booking or none; interviewed rows keep their applicant; events follow bookings; nobody takes another's row; no deadlock | `RecruitInterview` |
| Roles, offers, applicants, `recruit/role`, `recruit/applicant` | selected roles by rank, offers and answers | apply, select roles, offer, decide | roles committed before the booking is moved along; rows reused by rank; answers checked and then written by id | bookings match roles; one accepted offer; an offer stays with its role; answers in time | `Recruitment`, `RecruitInterview` |
| Forms, `recruit/form` | collections, questions, answers | edit roles and questions, answer, completion | answers are read and then replaced or removed by id; completion, read in parts, decides whether a booking survives | answers are what was last said; who is booked, and not interviewed yet, is complete | `Forms`, `RecruitInterview` |
| Recruitment settings, `recruit/setting`, `recruit/context` | the recruitments, one of them active | create, update, resolve the current one | deactivating and activating are separate statements | one active recruitment | `Recruitment` |
| Gallery photos, `gallery/photo` | `gallery_photos`, two job queues, files | upload, import, validate, convert, fail, review, reprocess, reset, move, delete | retries, `failed` events, crashes, two workers, stale entities, transactions that lock each other's rows | processed photos are ready; one copy per content, the newest; reviews respected; every photo that is worked on settles | `GalleryPhoto` |
| Gallery albums, `gallery/album` | `gallery_albums` with ranks, upload tasks in MongoDB | create, update, rank, remove | two databases in one transaction; ranks and entities read outside of it | listed albums have their task; a ranking stands | `Albums` |
| Gallery activities and videos, `gallery/activity`, `gallery/video` | `gallery_activities` with shared tags, videos | create, update, remove | tags are looked for by title and made if there are none | a title has one tag; activities have the tags last sent | `Activities` |
| Tokens, `accounts/refresh-token`, `accounts/access-token`, `auth` | `refresh_tokens` with successor and expiry, cookies | use and rotate, refresh, sign in, sign out | concurrent use of one token, grace time, answers that are lost or overtake each other | chains keep what the sign-in granted; cookies agree; used and signed-out tokens end | `RefreshToken` |
| Sign-in and registration, `accounts/sign-in`, `accounts/registration` | profiles, links of Discord and GitLab, registration tokens | sign in, link, register, edit contacts | an account is found by id, by e-mail or not at all, in two databases | an account comes to one profile | `Registration` |
| Users, groups, student ids, `accounts/user`, `accounts/nud-student` | user names, passwords, student ids | request a name, claim an id, change a password | check-then-act with constraints for part of it | one name, two ids, one owner | `Members`, `Directory` |
| Profiles, `accounts/profile` | photo, its row and files | import a photo | files, row and profile are written one after the other | the photo of a profile will show | `ProfilePhotos` |
| Photo processing and streaming, `photo` | stored copies | stream with fallbacks, process | copies of copies, stored after the answer | no copy enlarged, none without watermark | `PhotoStream` |
| Discord, `discord` | roles of the guild and its members, nicknames; no record of what was announced | synchronise; announce events of the calendar | a cache, calls that fail in between, syncs that overlap; attempts that fail and come again later | the roles converge; each event is announced once | `DiscordSync`, `Announcements` |
| Scheduler, `scheduler` | repeatable jobs in Redis | register at start | replicas that register together | every job is registered | `Scheduler` |
| LDAP server, `ldap-server` | who a connection is bound as | bind, search users and groups | a filter is answered in parts by two databases, read one after the other | an entry nothing crosses is found if and only if it matches; a bind whose password nothing crosses is granted if it is the user's | `Directory` |
| Delivery, data migration, guards, API keys, storage, Google clients, audit log, moderators and notes, infrastructure | little or none | | | | not modelled, see section 7 |

How they interact: `selectRoles` and `updateFormAnswers` call `rebookSlot` after
their own commit; bookings read forms and roles and write to Google Calendar;
gallery uploads put jobs on the validation queue, the validator puts jobs on the
conversion queue, the workers report failures on rows that moderators edit at
the same time; every request passes the token middleware, which may rotate the
refresh token. The recruitment context middleware reads the active setting. Albums
tell uploaders about themselves through the tasks in MongoDB; uploaders and profile
imports give the photo workers their jobs; the copies these make are what the stream
serves; teams and profile links are what the Discord syncs read; the scheduler's
jobs announce events of the calendar in Discord; and profiles, groups and
user names what the directory answers from.

`PROJECT.json` lists every component with its sources and, under `hazards`, each
place where this code is hard to test, with the properties that cover it.

## 2. Modules

    SlotAllocation  <-(implements)-  RecruitInterview  <-  MCRecruitInterview (TLC)
                                          ^
                                          |  RecruitInterviewProofs (TLAPS)
    PhotoLifecycle  <-(implements)-  GalleryPhoto      <-  MCGalleryPhoto (TLC)
                                          ^
                                          |  GalleryPhotoProofs (TLAPS)

    RefreshToken    <-  MCRefreshToken (TLC)
          ^
          |  RefreshTokenProofs (TLAPS)

    Requests  <-  Scheduler, Recruitment, Registration, Members, DiscordSync, Albums,
                  ProfilePhotos, PhotoStream, Forms, Activities, Directory,
                  Announcements
                                                      <-  Server  <-  MCServer (TLC)
                                                            ^
                                                            |  ServerProofs <- MembersProofs,
                                                            |  RecruitmentProofs,
                                                            |  RegistrationProofs
                                                            |    <- ServerTypes (TLAPS)

### RecruitInterview

One process per HTTP request; `pc[p]` is the `await` it is at, `req[p]` what it
was asked and what it has read. An action is the code from one `await` to the
next. The table is three functions of the row: `holder` (`applicant_id`),
`interviewed` (`interview_at`), `eventOf` (`google_calendar_event_id`). What a
transaction has written and not committed is in `freed[p]` and `taken[p]`.

*UPDATE under READ COMMITTED* is two steps, because that is where the races are:
a Scan finds the rows that match in the snapshot of the statement (`cand[p]`),
and the Write waits until no other transaction holds a lock on one of them
(`Unlocked`), re-checks the WHERE clause on their current version and writes those
that still match. The row locks of one statement are taken together; that
PostgreSQL takes them one after the other is abstracted.

| code | actions |
|---|---|
| `PUT slots/:refId/book` and `bookSlot` | `BookSlot`; `ReadSlots`, `ReadForms`, `ReadRoles` (a `Promise.all`, in any order); `CheckBooking`; then in its transaction `FindEvent`, `RemoveEvent`, `ScanCancel`, `WriteCancel`, `ScanBook`, `WriteBook`, `CreateEvent`, `Commit`; then `ScanStore`, `WriteStore` |
| `PUT slots/cancel` and `cancelSlot` | `CancelSlot`; `FindEvent`, `RemoveEvent`, `ScanCancel`, `WriteCancel` |
| `selectRoles`, `updateFormAnswers` and `rebookSlot` | `SelectRoles`, `UpdateFormAnswers`, then as a booking; every error cancels instead (`Throw`) |
| mark and unmark as interviewed | `StampSlots`, `ScanStamp`, `WriteStamp` |
| `addSlot`, `removeSlot` | `AddSlot`; `RemoveSlot`, `DeleteRows` |
| minimum lead time | `horizon`, moved by `Tick` |
| death of a process | `Crash`: the open transaction rolls back, the calendar does not |

Two details of the code that the model keeps because they matter: the role ids
are a concatenation, so the number of rows is compared with a list that may have
a role twice (`RoleIdsLength`); and same-slot detection compares `Date` objects by
identity, so that only a rebooking, which takes its time from the slots it read,
can be a no-op (`IsRebookSameSlot`). Abstracted: texts of events and attendees,
the question-by-question reads of form completion (one read here), failures of
database statements other than the death of the process.

### SlotAllocation

What the table promises, without requests: rows are published and withdrawn,
applicants move from some of their uninterviewed rows to free rows of one time,
release, and are stamped. `AllocationSpec` is the refinement.

### GalleryPhoto

`row` is `gallery_photos` with the columns that decide anything; `job` the jobs of
the two queues with the step they are at; `reports` the handlers of BullMQ's
`failed` event that have not run yet; `req` the HTTP requests between two awaits.

| code | actions |
|---|---|
| `uploadFile`, `importFiles` | `UploadFile`, `ImportFiles` (file and row), `Enqueue` (the jobs, added after the insert) |
| validator `process` | `Take`; `VFind` (the transaction writes its row, which it keeps locked, and reads the copies); `VCommit` (rejects duplicates, applies the rules of the album that is in the job); `VQueue` (conversion job, after the commit) |
| converter `process` | `Take`, `CStore`, `CUpdate` |
| a throwing attempt, `onFailed` | `AttemptFails` (another attempt if there is one left), `OnFailed` (later, and after every attempt) |
| approve, reject | `Review` (`approvalPrecheck`), `WriteReview` (an update by id alone) |
| `reprocess` | `Reprocess` (reads), `SaveDiff` (TypeORM's `save` reads again and compares), `SaveWrite` (writes the columns that differed), `Enqueue` |
| reset, move, delete | `ResetApprovals`, `MovePhotos`, `DeletePhoto` |
| death of a worker or a server | `WorkerCrash` (jobs stall and run again, once), `ServerCrash` |

The validations that reject each other's photo wait for each other; PostgreSQL
aborts one (`Deadlocked`, for circles of two, which is what the instances have).
Files, image operations and metadata are abstracted to the content of a photo and
the verdict of an album's rules about it (`Grade`).

### PhotoLifecycle

The states the getter `state` shows and the transitions between them while nobody
reprocesses: what the mobile and web clients rely on.

### RefreshToken

`tokens` is the table `refresh_tokens`, `jar` the cookies of each browser, `req` and
`pc` the requests; `now` counts in units of the lifetimes. Deleted rows keep their
contents, marked as deleted, so that properties can speak of them.

| code | actions |
|---|---|
| `AuthMiddleware.use` | `Send` (verifies the access token), then `Use`, `CreateSuccessor`, `RevokeUsed`, `Sign`: `getUpdatedAccessToken` and `RefreshTokenService.use`, an action per await; `Fail` where one of them rejects and the middleware goes on with the fallback user |
| `POST accounts/refresh-token` | `RefreshEndpoint`, and the same steps again with the token of the request |
| `POST accounts/sign-out` | `SignOut` |
| sign-in, local, with a provider or after a registration | `SignIn`, `Sign` |
| the network and the browser | `Respond`, `Lose`; `AccessExpires` |
| the clock | `Tick` |

Requests about which there is no more to tell are left out: visits with a good access
token, and sign-outs without a token.

### Server and its areas

The other components have a module each, which `Server` puts together. `Requests` holds
what their handlers have in common: a handler runs from one await to the next, and `Die`
is the process that ends, or the statement that rejects, in between. `area` chooses the
component that a behaviour is about. Where an area reads what the handlers of another
write (the directory reads names, contacts and groups; forms are asked for by roles), it
repeats those writes as actions of its own, so that areas share no variable: they cannot
disturb each other, and what is checked of each alone holds of all together.

Much of this code reads, decides and writes without a lock, and what it promises it
promises to those who ask for one thing at a time. `crossed` collects the subjects (an
applicant, a profile, the rank of an album) that two requests at once were about,
`broken` those of requests that died; properties say which of them they are about, and
most of them hold although requests about the same subject die half way.

| code | actions |
|---|---|
| **Scheduler**: `SchedulerRegisterService.register` of a replica | `Register` (lists the keys), `RemoveSchedule` (together), `Unregistered`, `AddSchedule` (in order) |
| **Recruitment**: `POST`, `PUT recruit/settings` | `CreateSetting`, `UpdateSetting` (read, merge, check the dates); `Deactivate`; `InsertSetting`, or `LoadSetting` and `WriteSetting` (`save` reads the row again and writes what differs) |
| the context middleware | `InContext`: every request of an applicant holds the recruitment it found, in a header or active |
| `POST recruit/applicants` | `CreateApplicant`, `InsertApplicant` |
| `PUT recruit/roles` | `SelectRoles`, `BeginSelect`, `FindSelected` (rows reused by rank), `LoadSelected`, `WriteSelected` (deletes, inserts, updates, each under the unique constraint) |
| `PATCH recruit/applicants/:id/offer` and `me/offer` | `OfferApplicant`, `OfferApplicantRole`; `DecideOffer`, `BeginDecide`, `CheckReady`, `FindRole`, `WriteAnswer` |
| **Registration**: the callback of a provider | `SignInWithProvider`, `FindById`, `FindByEmail`; the link in `FindLink`, `CountLinks`, `LoadLink`, `WriteLink`; or a token in `FindToken`, `InsertToken` |
| `POST accounts/registration`, and with a token | `CreateAccountRegistrationToken`; `SubmitAccountRegistration`, `CreateProfile` |
| contacts of a profile | `UpdateContactInfo` |
| **Members**: `PUT nud-students/:studentId` | `UpdateNudStudent`, `ReadStudents` (two queries at once), `CheckStudent`, `SaveStudent` |
| `POST accounts/users/local` | `RequestLocalUser`, `CountUsers`, `FindUsername` (one query per name), `CreateUser` |
| **DiscordSync**: `triggerProfileSync` of a job, a message or a request | `TriggerProfileSync`; the nickname in `GetNickName`, `SetNickname` |
| `triggerProfileRoleSync` | `ReadSync` (four queries at once, the roles through the cache), `MemberNotFound` or `PlanSync`, `AddRole`, `RemoveRole`, `EndSync` |
| `triggerRoleSyncAll` | `SyncGuildRoles`, `CreateRole`, `EndGuildRoles` |
| **Albums**: `create`, `update` | `CreateAlbum`, `InsertAlbum`; `UpdateAlbum`, `LoadAlbum`; both with `UpsertUploadTaskInfo` and `CommitAlbum` |
| `rankAlbums`, `remove` | `RankAlbums`, `LoadRanks`, `WriteRanks`; `RemoveAlbum` |
| **ProfilePhotos**: `importFromNas` | `ImportProfilePhoto`, `AddJob` (together), `SavePhoto`, `SaveProfile`; the worker in `ProcessPhoto` |
| **PhotoStream**: `getPhotoStream` | `GetPhoto`, `TryStream`, `TryProcess` and `FallBack` along `NextFallback`, `TryOriginal`, `SaveBuffer` |
| `processPhoto` of the consumer | `ProcessCopy`, `SaveBuffer` |
| **Forms**: roles and questions | `CreateRecruitRole`, `UpdateRecruitRole`, `DeleteRecruitRole`, `CreateRecruitFormQuestion` |
| `PUT recruit/forms` | `AnswerRecruitFormQuestions`, `FindAnswers` (the ids), `WriteAnswers` (rows replaced by question, removed by id), then the booking's check |
| what the answers mean for a booking | `SelectRecruitRoles`, `BookInterviewSlot`; `ReadForBooking` (queries that run beside each other), `Book` or `CancelSlot` |
| `PUT slots/cancel`; mark and unmark as interviewed | `CancelInterviewSlot`, `CancelSlot` (which leaves marked rows alone); `MarkAsInterviewed`, `WriteMark`; `UnmarkAsInterviewed`, `WriteUnmark` (checked, and then written whatever the rows are by now) |
| **Activities**: create, update, delete | `CreateGalleryActivity`, `UpdateGalleryActivity`, `ResolveTagEntities` (a query per title), `FindActivity`, `SaveActivity`, `SaveTagsOnly`; `DeleteGalleryActivity` |
| videos | `CreateGalleryVideo`, `SaveVideo`, `DeleteGalleryVideo` |
| **Directory**: an LDAP bind | `BindRoot`; `BindDn`, `SignInLocal`, `EndBind` |
| an LDAP search | `SearchDN`; for groups `FindGroups`, `PopulateUsers`, `ProfileIdUsernameMap`; for users `FindUsers`, `ProfileMap`, `ProfilesNameMap`; `SendEntries`, `EndSearch` |
| what a search may cross | `CreateLocalUser`, `UpdateContacts`, `UpdateProfileName`, `ChangeGroups`; `ChangePassword`, `VerifyCurrent`, `UpdatePassword` |
| **Announcements**: the two repeating jobs | `StartJob` (works its window out from the clock: `From`, `To`), `ListEvents` (lists and filters), `ExecuteWebhook`; `AttemptFails`, before or after the message was sent, and `Retry` (works the window out anew) |
| `POST discord/starting-events`, `upcoming-events` | `Trigger`, and the same steps |
| the calendar and the clock | `EditEvent`, `PassTick` |

Names of people (but for the one the directory needs), titles, dates of albums and the
like are left out, as are the images themselves: of a copy the model keeps the smallest
size it went through and whether it has the watermark, and of a nickname the emoji it
begins with.

## 3. Runs

Violation runs state what the code documents and does not do; see section 6.

| run | instance | checks |
|---|---|---|
| `interview_races` | 2 applicants, 2 requests, 2 roles x 2 times, crashes; book, cancel, mark, unmark | `InterviewedRowsAreHeld`, `EventsBelongToHolder`, `NoWaitingCircle` |
| `interview_rows` | as above; book, cancel, add and remove rows, clock | `TypeOK`, `BookingsAreComplete`, `AllocationSpec` |
| `interview_serial` | one request per applicant at a time; book, cancel, select roles, answer | `OneSlotPerApplicant`, `BookingsMatchRoles`, `NoOrphanEvent` |
| `interview_progress` | fairness, crashes, failing calendar | `RequestsFinish` |
| `interview_double` | two requests of one applicant | `OneSlotPerApplicant` is violated |
| `photo_workers` | 2 photos of one content, 2 worker processes, failing attempts, crashes | `TypeOK`, `ProcessedPhotosAreReady`, `DuplicatesAreOlder` |
| `photo_reviews` | 2 photos of one content, 2 albums with different rules, 1 worker, 2 requests; approve, reject, move, delete | `OneCopy`, `LifecycleSpec` |
| `photo_settle` | 1 photo of a content that a strict album rejects, 2 albums (a strict and a loose one), 1 worker, failing attempts; 1 request to reject, reprocess or reset at any moment, as often as it likes; fairness | `EveryPhotoSettles` |
| `photo_wiped` | a review and a reprocess together | `ReviewsSurviveReprocessing` is violated |
| `refresh_sessions` | 1 browser, 3 requests of any kind and of two profiles, 3 tokens, a clock that reaches the end of a session token | `TypeOK`, `ChainsKeepTheSignIn`, `CookiesAgree`, `UsedTokensEnd`, `SignedOutIsAnonymous`, `CarefulBrowsersStaySignedIn` |
| `server_pairs` | the areas with 2 requests below, of any of their kinds, any of which may die | `TypeOK` and the properties of the areas |
| `server_triples` | the areas with 3 requests, likewise | their properties |

| area | requests | property | says |
|---|---|---|---|
| `Scheduler` | 3 replicas | `EveryJobIsScheduled` | when all replicas are up, the jobs of the configuration are scheduled and no others |
| `Recruitment` | 2 | `OneRecruitmentIsActive` | one recruitment is active between the requests of moderators who do not cross |
| | | `OneOfferIsAccepted` | an applicant accepts one offer, whatever else happens to her offers |
| | | `OffersKeepTheirRole` | an offer made after the registration closed is still for the role it was made for |
| | | `AnswersAreInTime` | answers are after the announcement, and before the offer expired |
| `Registration` | 3 | `AccountsKeepTheirProfile` | an account comes to the same profile every time |
| | | `RanksDiffer` | the Discord accounts of a profile have different ranks |
| `Members` | 3 | `MembersStayWithinLimits` | at most two student ids, each of one profile; one user name |
| `DiscordSync` | 2 | `SyncsConverge` | once a sync ended, the member has the roles and the nickname she is due, whatever other syncs are doing |
| `Albums` | 3 | `AlbumsHaveTasks` | a listed album has its upload task, whatever dies between the databases |
| | | `RankingsStand` | a ranking stands through updates, removals and creations |
| `ProfilePhotos` | 2 | `PhotosWillShow` | the photo of a profile has its row, and its files or the jobs for them |
| `PhotoStream` | 3 | `CopiesAreGood` | no stored copy was enlarged, and each has the watermark |
| `Forms` | 2 | `FormsAreHonest` | answers are what the applicant last said, and whoever is booked and not interviewed yet has answered what is asked of her |
| `Activities` | 3 | `ActivitiesHaveTheirTags` | a title has one tag, and an activity the tags last sent for it |
| `Directory` | 2 | `DirectoryIsExact` | of the entries that nothing crossed a search sends those that match and only such as are asked for; a bind is granted if and only if the password, which nothing crossed, is that of an enabled user. Filters are one clause, or one conjunction or disjunction of clauses |
| `Announcements` | 2 | `EventsAreAnnouncedOnce` | each event is announced by the run it falls to, once, also when attempts fail and work the window out again |

*Why the bounds are enough.* Interviews: every race in this code is between two
requests about overlapping rows; two requests over two applicants contain each pair
of handlers, of one applicant or of two. Two times with a row per role are what a
swap of slots needs; one mandatory and one selectable role make partial bookings
and the doubled role possible (`dev` can be dropped and the mandatory `hr`
selected). Event identities are reused once nothing refers to them, so two events
are as good as any number when two requests run. `NoWaitingCircle` is also proved,
for any number of requests. Photos: a duplicate needs two photos of a content (that
it is the newest of any number which stays is proved); two workers are what concurrent validations need; two
attempts are the configured number. `Copies` bounds the jobs of one photo in one
queue: 2 in `photo_workers`, so that a stalled job and a new one meet.
Tokens: a token in its grace time that is used again while a third request signs out
or comes back late takes three requests; the lifetimes are the smallest numbers in the
order of the real ones. Areas: two requests contain every pair of handlers, and where
a third could matter (a replica that starts between two others, an account that signs
in, registers and signs in again) there are three; the tables they find at the start
are those that earlier requests can have left (a recruitment with an applicant who has
been offered roles, a member with two student ids, a guild that lacks a role). The
tables have room for the rows that so many requests can add. The forms that stand at the
start (`MCOldForms`) are one whose selectable role has no questions yet and one in which
it has no collection and the mandatory role asks twice; what is sent to them (`MCBodies`)
is an answer or two, to one question or two, meaningless or not. The searches
(`MCSearches`) are of a single entry and below one, for each kind of filter that the code
takes apart differently. The calendars and the two plans of announcements (`MCEvents`,
`MCPlans`) have events in the first and the last tick of a window, before it, and of each
kind that is not announced; `Unit` is two ticks, so that a run can come
late within its interval, and after it; `Attempts` is two of the configured eleven, one
that fails and one that comes again. The runs tell no
requests and no roles apart, so they are symmetric; they have 1.8 and 0.8 million
states and take about a minute and a half.

*What is deliberately conditional.* Where an area's property excuses subjects that have
`crossed`, it does not cover the race between the two requests that crossed, which the
code has: the notes of the hazards in `PROJECT.json` say so of each.
`BookingsMatchRoles` and `NoOrphanEvent` speak of applicants without a request in
flight, who never have two at a time and whose requests do not crash: the code makes no
provision for either (section 6 shows what happens for two). `OneCopy` is for one worker
process and no resets; `EveryPhotoSettles` for processes that do not die, and not for a
photo that is reset when it was validated and nothing works on it any more (one that was
rejected by the rules was never converted, and nothing converts it then; section 6);
`ProcessedPhotosAreReady` and `LifecycleSpec` for photos that are not being reprocessed.
Deadlock is checked in the interview runs; the photo runs end when every photo was
uploaded and reviewed, so they say `CHECK_DEADLOCK FALSE`, as do the runs of tokens and
areas, which end when their requests are spent.

*Mutants.* Each property has one in `PROJECT.json`: a variant of a definition with a
plausible bug (no `interviewAt IS NULL`, the count forgets the mandatory roles, the
event is not removed, previews are stored without waiting, ...). With it in place
TLC finds the property violated. The variants stand before the definitions they
change and are marked `mutant`.

## 4. Fairness

Nobody has to send a request and nothing has to crash or fail. A request that is
in flight goes on (weak fairness of `Step(p)`: the event loop serves all of them).
A statement that waits for a row lock is not overtaken for ever (strong fairness of
`LockingStep(p)`): PostgreSQL queues the waiters of a tuple. For photos, the queues
are first in, first out, so a waiting job is taken in the end although other jobs
of its queue come and go (strong fairness of `Take`), and jobs, reports and requests
that wait for a row get it in turn.

## 5. Proofs

### Interviews

`RecruitInterviewProofs` proves, for any sets of applicants, requests, roles, times, rows
and events:

| theorem | states |
|---|---|
| `TypeCorrect` | `Spec => []TypeOK` |
| `InterviewsAreKept` | `Spec => []InterviewedRowsAreHeld` |
| `EventsAreTheHolders` | `Spec => []EventsBelongToHolder` |
| `Allocates` | `Spec => AllocationSpec`: the handlers implement `SlotAllocation` |
| `NoPartialBooking` | `UniqueRows => (Spec => BookingsAreComplete)` |
| `NoDeadlock` | `Spec => []NoWaitingCircle` |
| `OneSlotAlways` | `Serial => (Spec => []OneSlotPerApplicant)` |
| `BookingsFollowTheRoles` | `UniqueRows /\ Peaceful => (Spec => []BookingsMatchRoles)` |
| `InvitationsAreBooked` | `Peaceful /\ ~CalendarFails => (Spec => []NoOrphanEvent)` |

*Assumptions.* `ConstantsAssumption` (types), `SentinelsAssumption` (`NoOne`, `Absent`, ...
are nobody's name) and `FinitenessAssumption` (rows and roles are finite, as counted
by the code). `NoPartialBooking` assumes `UniqueRows`: one row per role and time. The
code relies on it and does not enforce it (`addSlot` inserts whatever exists). `Serial`
is a bound on what is sent, not on the system: the requests of one applicant come one after
the other, those of different applicants as they like. `interview_double` shows that
`OneSlotPerApplicant` is false without it. `Peaceful` is `Serial` without crashes, without
moderators who mark somebody as interviewed and without removals of slots: a crash between
two databases or a removed slot breaks both properties that assume it, and a stamped row
that stays behind `BookingsMatchRoles`; which is why they are stated of the rest.

*The argument.* None of the safety properties is inductive: whether a commit may
write depends on what its transaction saw several steps ago. `IInv` adds what stays
true in between. `LocksAreExclusive`: no row is in two open transactions, which
`Unlocked` guarantees. `TransactionInv`: the rows an open transaction has freed are
still committed to its applicant and not interviewed, because every other writer of
such a row would have to wait; the rows it has taken are free without it, match the
request and are as many as its role ids. `EventInv`: the event a request carries was
created for its applicant. `UnusedRowsAreAbsent`: new rows do not hit old ones.
From these, `CommitMoves` shows that a commit is a `Move` of `SlotAllocation`, and the
other writes are `Release`, `Stamp`, `Unstamp`, `Publish` and `Withdraw`.
`CountSuffices` is why counting is enough: rows of different roles at one time are as
many as their roles, so if the count fits a list that may hold a role twice, the
roles are all there. `NoDeadlock` rests on `ScanAvoidsFreed`: what a transaction has
freed was not visible as free to a scan, so a new waiter waits only for transactions
that wait for nothing.

The last three have an invariant each, with `IInv` in it. `SlotInv`: the rows that an
applicant is still to be interviewed in are at one time, and so are those of the past; what
a request of hers has found (the rows to cancel, those to stamp or to store the event in)
is still all she has (`AllFound`), because rows come to her by her own requests only and
there is one; `FoundKept` is the frame for the steps of others. Bookings may cancel before
they take, so a transaction that has freed rows is looked at with the rows it will leave.
`RolesInv`: what a booking has read of roles, forms and slots holds as long as its
transaction is open (`ReadsHold`), and the slots of an applicant fit her roles or a request
of hers that rebooks or cancels is under way (`Moving`). `InvitesInv`: every event in the
calendar is on a row of its time or is the one a request is about to store, and the events
of an applicant whose booking has got as far as the calendar are none or that one.

### Tokens

`RefreshTokenProofs` proves, for any browsers, profiles, numbers of tokens and requests,
and any lifetimes that satisfy `ConstantsAssumption`:

| theorem | states |
|---|---|
| `TypeCorrect` | `Spec => []TypeOK` |
| `ChainsAreKept` | `Spec => []ChainsKeepTheSignIn` |
| `CookiesAlwaysAgree` | `Spec => []CookiesAgree` |
| `UsedTokensAlwaysEnd` | `Spec => UsedTokensEnd` (an action property) |
| `SignedOutStaysAnonymous` | `Spec => []SignedOutIsAnonymous` |
| `CarefulAlwaysStaySignedIn` | `Spec => []CarefulBrowsersStaySignedIn` |

*Assumptions.* The lifetimes are ordered as in the code, and
`SessionLife + Cardinality(Requests) * Grace < DefaultLife`: eight hours, and five
seconds for every request there ever is, are less than thirty days. It is needed because
`use` tells a session token from the lifetime of its row, and a request that had found
the token before it was used may revoke it again and so move its end by another five
seconds: were there enough of them, the row of a session token would have the lifetime
of a persistent one, and its successor would be one.

*The argument.* The inductive invariant `Inv` has five parts. `RowsAgree`: the row of
every token agrees with that of the sign-in it goes back to, and with its successor.
`EndsInTime`: the end of a replaced token, and a `Grace` for every request that may still
revoke it again, stay within `SessionLife` and a `Grace` for every request there is; this
is what the assumption bounds.
`RequestOK`: what a request has read, created and is about to answer agrees with the
rows by now, although others have rewritten them since. With `CookiesAgree` and `TypeOK` these are
preserved by every step.

`UsedTokensAlwaysEnd` is an action property, as each use of a token that found it
unreplaced may replace it again and move its end. `Replacing(t)` are the requests that may
still do so, and `LatestEnd(t)` is the end they can bring it to: a `Grace` for each. A
request leaves `Replacing` by the step that replaces the token (`RevokeEnds`), so what the
end gains the potential loses; none joins once the token is replaced, as `use` then
answers with the successor; and no other step touches either (`LatestEndKept`,
`OthersReplaceNone`).

`CarefulAlwaysStaySignedIn` needs two more. `HoldersInv`: no two browsers, with what their
requests and the answers to them carry, hold tokens that go back to the same sign-in, so
that nobody else uses up a browser's token. `CalmInv`: a careful browser has at most one
request on its way, and either that has an unspent token for it (`Flight`), or the browser
holds one itself. The hard case is the refresh endpoint, which is behind the middleware: the
middleware replaces the token that was sent, and the endpoint then uses the same, already
replaced token a second time. `Leads` is why this does no harm: the token sent is used up,
but its successor is not, and `use` answers with that.

### Photos

`GalleryPhotoProofs` proves, for any photos, contents, albums and rules, requests, worker
processes, numbers of attempts and of copies of a job:

| theorem | states | assumes of the constants |
|---|---|---|
| `TypeCorrect` | `Spec => []TypeOK` | |
| `DuplicatesAlwaysOlder` | `Spec => []DuplicatesAreOlder` | moderators do not reject photos as duplicates by hand |
| `ProcessedAlwaysReady` | `Spec => []ProcessedPhotosAreReady` | nobody reprocesses |
| `OneCopyAlways` | `Spec => []OneCopy` | one worker process; nobody resets or reprocesses |
| `FollowsLifecycle` | `Spec => LifecycleSpec` | nobody reprocesses |

All of them assume `ConstantsAssumption`, in particular that the photos are finitely many
(they are ranked by when they were inserted) and that there is an album. Attempts may fail
and processes may die in all of them. What a theorem excludes is what breaks it: a
reset brings back a copy that others were rejected for, a second worker validates two
copies that do not see each other, a reprocessed photo goes back from "accepted".

*The argument.* `RowSteps`, `JobSteps` and `RequestSteps` say once, column by column,
what any step of the system does to one row, one job and one request; each invariant is
then preserved by one case per kind of change and not per action. `Typed` adds that what
runs has a process, which reports it when it fails. `DupInv`: the duplicates that a
validation has found, and commits later, are each beaten by a copy that was inserted no
earlier, whatever happened in between. `ReadyInv`: what a job at a certain step needs
from earlier steps is there, for every attempt and every stalled copy of the job.
`CopyInv`: the validation that runs has found every copy that is kept, unless its own
photo is out, as one process runs no other validation that could keep one meanwhile.
`ReviewInv`: what was reviewed, or is about to be, was validated.

### Areas

`ServerProofs` proves of `Server`, which has all areas in it, and for any number of
requests:

| theorem | states | assumes of the constants |
|---|---|---|
| `CopiesAreAlwaysGood` | `Spec => []CopiesAreGood` | sizes are numbers, in order |
| `AlbumsAlwaysHaveTasks` | `Spec => []AlbumsHaveTasks` | `AlbumsAssumption`: the two albums there are at first have ids |
| `RankingsAlwaysStand` | `Spec => []RankingsStand` | the same |
| `ActivitiesAlwaysHaveTheirTags` | `Spec => []ActivitiesHaveTheirTags` | `TitlesAssumption`: the titles are finitely many |
| `JobsAreAlwaysScheduled` | `Spec => []EveryJobIsScheduled` | `SchedulesAssumption`: the configuration is a sequence of schedules |
| `PhotosWillAlwaysShow` | `Spec => []PhotosWillShow` | |
| `OneRecruitmentIsActiveAlways` | `Spec => []OneRecruitmentIsActive` | `RecruitmentAssumption`: settings and DTOs are as their columns are, and one recruitment is active at the start |
| `OneOfferIsAcceptedAlways` | `Spec => []OneOfferIsAccepted` | the same |
| `OffersKeepTheirRoleAlways` | `Spec => []OffersKeepTheirRole` | the same |
| `AnswersAreInTimeAlways` | `Spec => []AnswersAreInTime` | the same |
| `AccountsAlwaysKeepTheirProfile` | `Spec => []AccountsKeepTheirProfile` | `RegistrationAssumption`: an invitation is of no account |
| `RanksAlwaysDiffer` | `Spec => []RanksDiffer` | the same |
| `MembersAlwaysWithinLimits` | `Spec => []MembersStayWithinLimits` | `MembersAssumption`: people, students and rows are finite, and the tables at the start within the limits |
| `SyncsAlwaysConverge` | `Spec => []SyncsConverge` | |
| `FormsAreAlwaysHonest` | `Spec => []FormsAreHonest` | `FormsAssumption`: bodies are sequences of answers, no applicant is a request, and the forms at the start have the columns of their tables and finitely many questions |
| `EventsAreAlwaysAnnouncedOnce` | `Spec => []EventsAreAnnouncedOnce` | `PlansAssumption`: a plan looks ahead by whole intervals, and its period is as long as its window and made of whole intervals; `EventsAssumption`: an event with a time has a length |
| `SearchesAreAlwaysExact` | `Spec => []DirectoryIsExact` | `DirectoryAssumption`: no group has the name of root, searches and local users are of the forms the code knows, and a profile has one user at the start |
| `TypeCorrect` (in `ServerTypes`) | `Spec => []TypeOK` | all of these, and `DiscordAssumption`: the years of teams are numbers and finitely many, the teams and the guild at the start are as their types say |

The assumptions of the areas also say that the tables at the start fit the bounds they are
given: that there are ids for their rows, a folder for the first album, a plan and a
calendar. `TypeCorrect` needs this, as a row without an id in the model would have no type;
what a handler inserts later takes an id that is free, or is not inserted.

*The argument.* For each area a lemma (`StreamSteps`, `AlbumSteps`, `SchedulerSteps`,
`ProfilePhotoSteps`, `ActivitySteps` and so on) says what a step of the server is to it: a
step of one of its handlers, or the death of one, which leaves its tables alone. The
inductive invariants add what a handler under way has read and done. `StreamInv`: what is
about to be answered or stored was made of a file at least as large as asked for, with the
watermark. `AlbumsInv`:
a request that is about to commit a new album has written its task. `RanksInv`: unless
requests about ranks have crossed, an update under way writes no rank, and the ranks a
ranking is about to write, with those it found right, put its albums in order.
`ActivitiesInv`: the tags are numbered without a gap, those a request has found or misses
make up the titles that were sent, and what it adds and removes leaves what it has found;
`NewTagsAreNumbered` is the step that makes tags, each missing title one.
`SchedulerInv`: a
configured job that is not scheduled will be added by a replica that is still starting,
as a replica adds its jobs after all it removes and removes no configured one it has not
listed; and a job of an older configuration is on the list of every replica that may
still leave it there. `ProfilePhotosInv`: an import that is about to name the photo in the
profile has queued its jobs and saved its row. `MembersInv` (in `MembersProofs`, as are its
lemmas): what a request has counted or found is still so, or has only become less, unless
a subject of it has crossed; `Alone` says that whoever could write otherwise would be
about the same subject. `RecruitmentInv` (in `RecruitmentProofs`) does the same for the
recruitments, their applicants and the rows of their choices: as long as the recruitment,
or the applicant, has not crossed, what a request has read of it agrees with the rows, so
what it decided holds when it writes. `save` reads a row again and writes the columns that
differ from it (`SavedRow`), which matters where two requests did cross: what must hold
all the same then depends on columns that never change once written (the applicant and
the role of a row, its first deadline), or whose change leaves a mark.
`OtherSettingRequest`, `OtherApplicantRequest` and `OtherRoles` are the frames: a step of
one request leaves what another has read as it was, unless both have a subject in common.
`RegistrationInv` (in `RegistrationProofs`) says of an account that it is found at the one
profile it was signed in to, by its id or link or else by its address; that one which has,
or asks for, a token is found nowhere; and of a request how far it has come in finding out.
A profile that gets an address (`CreateProfileKeeps`) is the hard step: those who have the
address are known by other means, or were found in no profile and ask for no token, or are
unsure from then on.
`DiscordInv` (in `MembersProofs`) says of every sync that is under way, as long as nothing is
stale: what it has read of teams and roles is as it is, what it has read of the member
was so or has since changed for the better, and what it has left to add and to remove
covers all that she lacks and has too much. `Closer` is why other syncs, wherever they
stop, cannot disturb that: each step brings the member no further from what she is due;
`Overtakes` is the case of a change, which must find no sync under way.
`FormsInv` (in `MembersProofs`, too) says of an applicant whose requests have not crossed
that the ids a request has found are those of her answers, one each (`AnswersReplaced` is
why what is written is then what she said), and that what has been read for a booking
still holds unless moderators edited the forms since. `Deserved` is the promise between
two requests: whoever is booked and not interviewed yet has a complete form, or a request
of hers is under way that will confirm the booking or cancel it; a booking that a moderator
gives back by unmarking it counts as revised (`MarksKeep`).
`DirectoryInv` (in `RegistrationProofs`, too) says of a search what each of its six reads
holds as soon as it is answered: of the users and groups whose entries have not crossed,
what the tables hold. `NameIsCompared` is why evaluating a filter in parts loses nobody: an
entry that the whole filter matches has a name that the clauses sent to its database find,
if the filter is not `Narrowed`. `StaysFor` is the frame, of what a request in flight is about.
`AnnouncementsInv` says of every attempt what it has to announce: if it began in the interval
of its run, exactly the events of that run, among those nobody has moved; otherwise whatever
it announces is of disturbed runs. `EventTold` then says how often each event has been
announced by now: once, if its run is due and no attempt of it is under way, and else not
at all. Under it lie some facts about rounding, which the solvers do not find by themselves
(`RoundedDown`, `Rounding`, `MultiplesApart`): `WindowsFit` is the one that matters, the window
of an attempt that is in time holds what starts in the run's period and nothing else, so
that the windows of successive runs meet without a gap; and `WindowsReach` says which runs
any other window disturbs. `EditEventTells` is why an event may be edited freely before
its run: it is on no list, neither with its old start nor with the new one.

`ServerTypes` is about all areas at once. `TypeOK` alone is not inductive: nearly everything
a handler writes it has read or been sent at an earlier await, so each area has a predicate
for the data its requests carry (`AlbumTyped`, `FormTyped`, `ApplicantTyped` and so on),
which names only what never changes or only grows, and so cannot be broken by the step of
another request (`OneFormTyped` and its like). The invariants above are used where types are
not enough: that a row a request is about to replace is still there, that the answers of a
form are to questions there are, that `save` writes columns of the row it has read
(`EditedSetting`, `EditedRole`), that the tags of an activity have numbers below the next
one. Part of every area's type is that the requests under way are at awaits of that area
(`StepsAmong`), that is, that no handler goes on in the middle of another.

### What is only model-checked

Liveness (`RequestsFinish`, `EveryPhotoSettles`), which is beyond the prover. Every other
property of a passing run is stated by a theorem. The properties of the interviews that a theorem states under
`Serial` or `Peaceful` are checked under the same hypotheses, and `OneSlotPerApplicant` without
`Serial` is refuted.

## 6. What the models show about the code

* **Two slots for one applicant** (`interview_double`). Two concurrent bookings of one
  applicant cancel only the rows each can see and lock nothing in common; both
  commit. The API says "Will automatically cancel the selected slot and book a new
  one."
* **A reprocess clears a review** (`photo_wiped`). `reprocess` refuses reviewed photos
  but saves an entity it read earlier, and `save` writes `reviewed_by` back to null if
  somebody has reviewed since.
* Modelled without a run of their own, as no property can hold of them: `removeSlot`
  deletes a row that was booked between its check and its `DELETE`; of two concurrent
  reviews the later replaces the earlier; duplicates are rejected before the rules of
  the album apply, so that a newest copy which fails those rules leaves no copy; a
  reset rejection of a photo that was never converted leaves it "accepted" with no
  job to process it; with two worker processes two copies of a photo can be kept.
* A photo whose first attempt fails stays `failed` although its retry succeeds: the
  `failed` event fires after every attempt and nothing clears the message.
  `PhotoLifecycle` says so ("failure is for ever").

### Sessions and members

* Sign-out deletes the presented token only: a request that was refreshing with it
  has, or makes, a successor that goes on. Answers that overtake each other may set a
  browser back to a used token, which is good for a few seconds.
* A token in its grace time has the lifetime of a session token, so that a client with
  a persistent session that uses it again gets cookies which end with the browser.
* An account of Discord or GitLab without an e-mail address registers anew each time; a
  Google account found by its e-mail address is not remembered by its id; two tokens
  outstanding for one e-mail address make two profiles. So does one token, for an account
  that signs in after somebody else with the address registered, is linked to that
  profile, and then uses the token it had asked for before: `register` does not look the
  account up again. That takes five requests; it was the proof of
  `AccountsAlwaysKeepTheirProfile` that found it, and `unsure` names it. Two invitations without a
  profile share one token.
* The user names that are tried leave out the whole last name, so a last name of one
  letter has none. A student id without a profile can never be claimed.

### Forms, activities, directory

* Cancelling skips rows that are marked as interviewed. An applicant who books, is marked,
  and then blanks an answer while the registration is open stays booked although her form
  is not complete: rebooking throws, and the cancellation that answers it affects no row.
  If the mark is taken back, the booking is there again, unchecked.
* The same question sent twice in one request is removed, if it had an answer, when one of
  the two is blank. A collection without questions never counts as complete.
* The search for activities has a branch for albums whose title matches: when none does,
  the branch asks for `{ id: undefined }` and every activity matches. The bounds of an
  academic year are strict on both sides, so that an activity at the first moment of a
  year is in none.
* A directory search below an organisational unit does not look at the base's DN but for
  its kind, and one of the base alone does not look at the filter. A disjunction one
  branch of which names a user (or a group) asks for that one only, and of two conditions
  on a group's name the last counts; `DirectoryIsExact` excepts the former.
* The rule that a password must not consist of one character compares lengths only, and a
  nickname is cut at a length that may be negative.

### Recruitment, gallery, Discord

* Without any recruitment the context middleware fails the request that would create the
  first. Two switches of the active recruitment that cross leave none or two.
* `createApplicant` looks for an existing applicant with its ids in the wrong places: a
  second application is refused by the database, with status 500 and not the documented
  409. Swapping two selected roles always runs into the unique constraint.
* Offers made while the registration is open move to another role when roles are
  selected anew. A moderator's offer that crosses a selection lands on another role. An
  accepted offer may be declined afterwards.
* `update` of an album looks for the upload task with the entity that was sent, which has
  no id: the task of no album is written, and that of the album keeps its old folder. An
  update that crosses a ranking writes the old rank back.
* Importing a photo saves a profile that was read without its contact information, and
  with that an empty list of telephone numbers.
* The cached roles of the guild make two role synchronisations within seconds create
  roles twice. A sync that read before the teams changed and ends last undoes the newer
  one.
* A job of a profile sync looks for the member first and does not await the answer
  (`discord-processor.service.ts:73`), so that it never finds her missing there; the sync of
  the roles, which does, ends without an error all the same.
* Nothing records what was announced. A run of the announcements that comes in the next
  interval, or an attempt that failed and comes again there, announces the events of that
  interval, once more, and those of its own are not announced; one that failed after the
  message was sent announces them twice. `ceilInterval` is the last second of the interval
  and Google's `timeMax` is exclusive, so an event that starts in that second is never
  announced. Nor is an event without any length that starts with its interval, as Google's
  `timeMin` bounds the end exclusively; `EventsAssumption` excludes these. The property speaks
  of runs that are not disturbed like that, and assumes that
  the configured range is the period of the configured pattern, which nothing checks.
* A stored copy of a photo that is processed again stays the old one.

## 7. Not modelled, and what could follow

* *Single statements:* moderators and notes, API keys, audit log, application settings. A
  handler that is one statement has no interleaving of its own.
* *Reads and pure functions:* the listings, guards, decorators, validators, conversions,
  the wording of nicknames and announcements.
* *Delivery:* a mail is sent by a job that renders it from what is in the job.
* *Outside services and libraries:* storage, mail, Google and Discord clients, libvips,
  the signature of tokens. The models use them by what the code relies on.
* *Generated or run once:* schema migrations and the copying of old records.

What could follow: liveness of tokens and areas needs no more than the fairness of requests, but
says little, because their handlers do not wait for each other.
