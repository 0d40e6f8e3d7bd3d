------------------------------ MODULE ServerTypes ------------------------------
(***************************************************************************)
(* The tables of every area have the types of their columns, and its        *)
(* requests are at its steps, whatever they do. Most of what a handler      *)
(* writes it has read or been sent before, so the types of the tables need  *)
(* those of the data that requests carry; where the invariant of an area    *)
(* gives a part of them, it is used here.                                   *)
(***************************************************************************)
EXTENDS MembersProofs, RecruitmentProofs, RegistrationProofs

(***************************************************************************)
(* Requests                                                                *)
(***************************************************************************)

(* What a step of one request is to the others, and to the areas *)
Moves(p, awaits) == Sent' /\ pc' \in StepsAmong(awaits) /\ Others(p) /\ area' = area

LEMMA Accepts ==
  ASSUME Sent, NEW awaits, pc \in StepsAmong(awaits), NEW p \in Requests,
         NEW about, NEW step \in awaits, NEW data, Accept(p, about, step, data)
  PROVE  Moves(p, awaits) /\ pc'[p] = step /\ Data(p)' = data
<1>1. /\ Sent' /\ pc'[p] = step /\ Others(p)
      /\ req'[p] = [about |-> about, data |-> data]
  BY AcceptStep
<1>2. Data(p)' = data
  BY <1>1 DEF Data
<1>3. pc' \in StepsAmong(awaits) /\ area' = area
  BY DEF Accept, StepsAmong
<1>. QED  BY <1>1, <1>2, <1>3 DEF Moves

LEMMA GoesOn ==
  ASSUME Sent, NEW awaits, pc \in StepsAmong(awaits), NEW p \in Requests,
         NEW step \in awaits, NEW data, Go(p, step, data)
  PROVE  Moves(p, awaits) /\ pc'[p] = step /\ Data(p)' = data
BY GoStep DEF Moves, Go, StepsAmong, Data

LEMMA Finishes ==
  ASSUME Sent, NEW awaits, pc \in StepsAmong(awaits), NEW p \in Requests,
         Finish(p) \/ Die(p) \/ \E about : Serve(p, about)
  PROVE  Moves(p, awaits) /\ pc'[p] = "done"
BY FinishStep, DieStep, ServeStep DEF Moves, Finish, Die, Serve, StepsAmong

(***************************************************************************)
(* Scheduler                                                               *)
(***************************************************************************)

SchedulerTyped == SchedulerTypeOK /\ (area = "scheduler" => Sent)

LEMMA SchedulerTypedAtFirst == Init => SchedulerTyped
BY SentAtFirst
DEF Init, InitRequests, InitScheduler, SchedulerTyped, SchedulerTypeOK, StepsAmong

LEMMA SchedulerTypedKept ==
  ASSUME SchedulerInv, SchedulerTyped, [Next]_vars
  PROVE  SchedulerTyped'
<1>1. ASSUME area = "scheduler", NEW p \in Requests, SchedulerNext(p)  PROVE SchedulerTyped'
  <2> USE <1>1 DEF SchedulerTyped, SchedulerTypeOK
  <2>1. CASE Register(p)
    BY <2>1, Accepts DEF Register, Moves, SchedulerAwaits
  <2>2. CASE RemoveSchedule(p)
    BY <2>2, GoesOn DEF RemoveSchedule, Moves, SchedulerAwaits
  <2>3. CASE Unregistered(p)
    BY <2>3, GoesOn DEF Unregistered, Moves, SchedulerAwaits
  <2>4. CASE AddSchedule(p)
    <3>1. Data(p).next \in Nat \ {0}
      BY <2>4 DEF AddSchedule, SchedulerInv, Starting
    <3>2. Data(p).next <= Len(Configured) => Configured[Data(p).next] \in Schedules
      BY <3>1, SchedulesAssumption
    <3> QED
      BY <2>4, <3>2, GoesOn, Finishes DEF AddSchedule, Moves, SchedulerAwaits
  <2> QED
    BY <2>1, <2>2, <2>3, <2>4 DEF SchedulerNext
<1>2. ASSUME UNCHANGED scheduled, NEW p \in Requests, Die(p)  PROVE SchedulerTyped'
  BY <1>2, Finishes DEF SchedulerTyped, SchedulerTypeOK, Moves, Die
<1>3. CASE area # "scheduler" /\ UNCHANGED <<area, scheduled>>
  BY <1>3 DEF SchedulerTyped, SchedulerTypeOK
<1>4. CASE UNCHANGED <<serverVars, scheduled>>
  BY <1>4 DEF SchedulerTyped, SchedulerTypeOK, serverVars, Sent
<1> QED
  BY <1>1, <1>2, <1>3, <1>4, SchedulerSteps

(***************************************************************************)
(* PhotoStream                                                             *)
(***************************************************************************)

StreamTyped == PhotoStreamTypeOK /\ (area = "photoStream" => Sent)

LEMMA StreamTypedAtFirst == Init => StreamTyped
<1>. SUFFICES ASSUME InitRequests, InitPhotoStream  PROVE StreamTyped
  BY DEF Init
<1>1. original \in BOOLEAN
  <2>1. original \in (IF area = "photoStream" THEN BOOLEAN ELSE {FALSE})
    BY DEF InitPhotoStream
  <2>. QED
    BY <2>1, Zenon
<1>2. copies = <<>> /\ pc \in StepsAmong(PhotoStreamAwaits)
  BY DEF InitRequests, InitPhotoStream, StepsAmong
<1>. QED
  BY <1>1, <1>2, SentAtFirst DEF StreamTyped, PhotoStreamTypeOK

LEMMA StreamTypedKept ==
  ASSUME StreamInv', StreamTyped, [Next]_vars
  PROVE  StreamTyped'
<1>0. CopiesAreMade'
  BY DEF StreamInv
<1>1. ASSUME area = "photoStream", NEW p \in Requests, PhotoStreamNext(p)
      PROVE  StreamTyped'
  <2>. SUFFICES Moves(p, PhotoStreamAwaits) /\ original' \in BOOLEAN
    BY <1>0, <1>1 DEF StreamTyped, PhotoStreamTypeOK, CopiesAreMade, Moves
  <2>0. Sent /\ pc \in StepsAmong(PhotoStreamAwaits) /\ original \in BOOLEAN
    BY <1>1 DEF StreamTyped, PhotoStreamTypeOK
  <2>1. ASSUME NEW target, NEW size, NEW isSource, FallBack(p, target, size, isSource)
        PROVE  Moves(p, PhotoStreamAwaits)
    BY <2>0, <2>1, GoesOn DEF FallBack, PhotoStreamAwaits
  <2>2. ASSUME NEW target, NEW made, Answer(p, target, made)
        PROVE  Moves(p, PhotoStreamAwaits)
    BY <2>0, <2>2, GoesOn, Finishes DEF Answer, PhotoStreamAwaits
  <2>3. CASE GetPhoto(p) \/ ProcessCopy(p)
    BY <2>0, <2>3, Accepts DEF GetPhoto, ProcessCopy, PhotoStreamAwaits, photoStreamVars
  <2>4. CASE TryStream(p) \/ TryProcess(p) \/ TryOriginal(p)
    BY <2>0, <2>1, <2>2, <2>4, Finishes
    DEF TryStream, TryProcess, TryOriginal, photoStreamVars
  <2>5. CASE SaveBuffer(p) \/ ChangeOriginal(p)
    BY <2>0, <2>5, Finishes DEF SaveBuffer, ChangeOriginal
  <2>. QED
    BY <1>1, <2>3, <2>4, <2>5 DEF PhotoStreamNext
<1>2. ASSUME UNCHANGED photoStreamVars, NEW p \in Requests, Die(p)  PROVE StreamTyped'
  BY <1>2, Finishes DEF StreamTyped, PhotoStreamTypeOK, Moves, Die, photoStreamVars
<1>3. CASE area # "photoStream" /\ UNCHANGED <<area, photoStreamVars>>
  BY <1>3 DEF StreamTyped, PhotoStreamTypeOK, photoStreamVars
<1>4. CASE UNCHANGED <<serverVars, photoStreamVars>>
  BY <1>4 DEF StreamTyped, PhotoStreamTypeOK, serverVars, photoStreamVars, Sent
<1>. QED
  BY <1>1, <1>2, <1>3, <1>4, StreamSteps

(***************************************************************************)
(* ProfilePhotos                                                           *)
(***************************************************************************)

ImportTyped(p) ==
  /\ InFlight(p) => Data(p).member \in Members /\ Data(p).photo \in Photos
  /\ At(p, "addJobs") => Data(p).jobs \subseteq Products

ProfilePhotosTyped ==
  /\ ProfilePhotosTypeOK
  /\ area = "profilePhotos" => Sent /\ \A p \in Requests : ImportTyped(p)

LEMMA OneImportTyped ==
  ASSUME \A q \in Requests : ImportTyped(q), NEW p \in Requests, Others(p), ImportTyped(p)'
  PROVE  (\A q \in Requests : ImportTyped(q))'
BY DEF ImportTyped, Others, InFlight, At, Data

LEMMA ProfilePhotosTypedAtFirst == Init => ProfilePhotosTyped
<1>. SUFFICES ASSUME InitRequests, InitProfilePhotos  PROVE ProfilePhotosTyped
  BY DEF Init
<1>1. ProfilePhotosTypeOK
  BY DEF InitRequests, InitProfilePhotos, ProfilePhotosTypeOK, StepsAmong
<1>2. \A p \in Requests : ImportTyped(p)
  BY DEF InitRequests, ImportTyped, InFlight, At
<1>. QED
  BY <1>1, <1>2, SentAtFirst DEF ProfilePhotosTyped

LEMMA ProfilePhotosTypedKept ==
  ASSUME ProfilePhotosTyped, [Next]_vars
  PROVE  ProfilePhotosTyped'
<1>1. ASSUME area = "profilePhotos", NEW p \in Requests, ProfilePhotosNext(p)
      PROVE  ProfilePhotosTyped'
  <2>0. /\ Sent /\ pc \in StepsAmong(ProfilePhotosAwaits)
        /\ \A q \in Requests : ImportTyped(q)
    BY <1>1 DEF ProfilePhotosTyped, ProfilePhotosTypeOK
  <2>. DEFINE Rows == /\ photoOf \in [Members -> Photos \cup {NoPhoto}]
                      /\ tels \subseteq Members
                      /\ DOMAIN photoRows \subseteq Photos
                      /\ \A photo \in DOMAIN photoRows : photoRows[photo] \in Members
                      /\ photoJobs \subseteq Products /\ files \subseteq Products
                      /\ ruined \subseteq Products
  <2>1. Rows
    BY DEF ProfilePhotosTyped, ProfilePhotosTypeOK
  <2>2. SUFFICES Moves(p, ProfilePhotosAwaits) /\ ImportTyped(p)' /\ Rows'
    BY <1>1, <2>0, OneImportTyped DEF ProfilePhotosTyped, ProfilePhotosTypeOK, Moves
  <2>3. CASE ImportProfilePhoto(p)
    <3>1. PICK m \in Members, photo \in Photos :
            Accept(p, {<<"photo", m>>}, "addJobs",
                   [member |-> m, photo |-> photo, jobs |-> ProductsOf(m, photo)])
      BY <2>3 DEF ImportProfilePhoto
    <3>2. ProductsOf(m, photo) \subseteq Products
      BY DEF ProductsOf, FilesOf, Products
    <3>3. /\ Moves(p, ProfilePhotosAwaits) /\ pc'[p] = "addJobs"
          /\ Data(p)' = [member |-> m, photo |-> photo, jobs |-> ProductsOf(m, photo)]
      BY <2>0, <3>1, Accepts DEF ProfilePhotosAwaits
    <3>. QED
      BY <2>1, <2>3, <3>2, <3>3 DEF ImportProfilePhoto, ImportTyped, At, profilePhotoVars
  <2>4. CASE AddJob(p)
    <3>. DEFINE d == Data(p)
    <3>1. d.member \in Members /\ d.photo \in Photos /\ d.jobs \subseteq Products
      BY <2>0, <2>4 DEF AddJob, ImportTyped, At, InFlight
    <3>2. PICK job \in d.jobs :
            /\ photoJobs' = photoJobs \cup {job}
            /\ ruined' = ruined \ {job}
            /\ Go(p, IF d.jobs = {job} THEN "savePhoto" ELSE "addJobs",
                  IF d.jobs = {job} THEN [member |-> d.member, photo |-> d.photo]
                  ELSE [member |-> d.member, photo |-> d.photo, jobs |-> d.jobs \ {job}])
      BY <2>4 DEF AddJob
    <3>3. Rows'
      BY <2>1, <2>4, <3>1, <3>2 DEF AddJob, Products
    <3>4. CASE d.jobs = {job}
      BY <2>0, <3>1, <3>2, <3>3, <3>4, GoesOn DEF ProfilePhotosAwaits, ImportTyped, At
    <3>5. CASE d.jobs # {job}
      BY <2>0, <3>1, <3>2, <3>3, <3>5, GoesOn DEF ProfilePhotosAwaits, ImportTyped, At
    <3>. QED
      BY <3>4, <3>5
  <2>5. CASE SavePhoto(p)
    <3>1. Data(p).member \in Members /\ Data(p).photo \in Photos
      BY <2>0, <2>5 DEF SavePhoto, ImportTyped, At, InFlight
    <3>2. Rows'
      BY <2>1, <2>5, <3>1 DEF SavePhoto, Put, Products
    <3>3. /\ Moves(p, ProfilePhotosAwaits) /\ pc'[p] = "saveProfile"
          /\ Data(p)' = Data(p)
      BY <2>0, <2>5, GoesOn DEF SavePhoto, ProfilePhotosAwaits
    <3>. QED
      BY <3>1, <3>2, <3>3 DEF ImportTyped, At
  <2>6. CASE SaveProfile(p)
    <3>1. Data(p).member \in Members /\ Data(p).photo \in Photos
      BY <2>0, <2>6 DEF SaveProfile, ImportTyped, At, InFlight
    <3>2. Rows'
      BY <2>1, <2>6, <3>1 DEF SaveProfile, Products
    <3>. QED
      BY <2>0, <2>6, <3>2, Finishes DEF SaveProfile, ImportTyped, InFlight, At
  <2>. QED
    BY <1>1, <2>3, <2>4, <2>5, <2>6 DEF ProfilePhotosNext
<1>2. ASSUME UNCHANGED profilePhotoVars, NEW p \in Requests, Die(p)
      PROVE  ProfilePhotosTyped'
  <2>1. area = "profilePhotos" => Moves(p, ProfilePhotosAwaits) /\ ImportTyped(p)'
    BY <1>2, Finishes DEF ProfilePhotosTyped, ProfilePhotosTypeOK, ImportTyped, InFlight, At
  <2>. QED
    BY <1>2, <2>1, OneImportTyped
    DEF ProfilePhotosTyped, ProfilePhotosTypeOK, Products, Moves, Die, profilePhotoVars
<1>3. CASE area # "profilePhotos" /\ UNCHANGED <<area, profilePhotoVars>>
  BY <1>3 DEF ProfilePhotosTyped, ProfilePhotosTypeOK, Products, profilePhotoVars
<1>4. CASE UNCHANGED <<serverVars, profilePhotoVars>>
  BY <1>4 DEF ProfilePhotosTyped, ProfilePhotosTypeOK, Products, ImportTyped, InFlight, At,
    Data, Sent, serverVars, profilePhotoVars
<1>5. CASE area = "profilePhotos" /\ ProcessPhoto
  BY <1>5 DEF ProcessPhoto, ProfilePhotosTyped, ProfilePhotosTypeOK, Products, ImportTyped,
    InFlight, At, Data, Sent, serverVars
<1>. QED
  BY <1>1, <1>2, <1>3, <1>4, <1>5, ProfilePhotoSteps

(***************************************************************************)
(* Directory                                                               *)
(***************************************************************************)

Entries == {Anonymous, ROOT} \cup ({"uid"} \X Uids)
Fullnames == [Owners -> FullNames \cup {NoName}]

LEMMA DirectoryTypedAtFirst == Init => DirectoryTypeOK
<1>. SUFFICES ASSUME InitRequests, InitDirectory  PROVE DirectoryTypeOK
  BY DEF Init
<1>1. account \in OldAccounts \cup {<<>>} /\ boundDN \in {Anonymous, ROOT}
  BY DEF InitDirectory
<1>2. DOMAIN account \subseteq Uids /\ \A u \in DOMAIN account : account[u] \in UserLocalUser
  BY <1>1, DirectoryAssumption
<1>3. /\ mail \subseteq Owners
      /\ fullname \in [Owners -> FullNames \cup {NoName}]
      /\ memberOf \subseteq Owners \X GroupNames
  BY DEF InitDirectory
<1>4. pc \in StepsAmong(DirectoryAwaits)
  BY DEF InitRequests, StepsAmong
<1>. QED
  BY <1>1, <1>2, <1>3, <1>4 DEF DirectoryTypeOK

LEMMA DirectoryTypedKept ==
  ASSUME DirectoryInv, DirectoryInv', DirectoryTypeOK, [Next]_vars
  PROVE  DirectoryTypeOK'
<1>1. ASSUME area = "directory", NEW p \in Requests, DirectoryNext(p)
      PROVE  DirectoryTypeOK'
  <2>0. /\ Sent /\ pc \in StepsAmong(DirectoryAwaits)
        /\ boundDN \in Entries /\ mail \subseteq Owners /\ fullname \in Fullnames
    BY <1>1 DEF DirectoryTypeOK, DirectoryInv, Entries, Fullnames
  <2>1. SUFFICES /\ Moves(p, DirectoryAwaits)
                 /\ boundDN' \in Entries /\ mail' \subseteq Owners /\ fullname' \in Fullnames
    BY <1>1 DEF DirectoryTypeOK, DirectoryInv, DirectoryAreRows, Moves, Entries, Fullnames
  <2>2. CASE BindDn(p) \/ SearchDN(p) \/ ChangePassword(p)
    BY <2>0, <2>2, Accepts
    DEF BindDn, SearchDN, ChangePassword, DirectoryAwaits, directoryVars
  <2>3. CASE SignInLocal(p) \/ SendEntries(p)
    BY <2>0, <2>3, GoesOn DEF SignInLocal, SendEntries, DirectoryAwaits, directoryVars
  <2>4. CASE EndBind(p)
    <3>1. Data(p).username \in Uids
      BY <1>1, <2>4 DEF EndBind, At, DirectoryInv, DirectoryAgrees
    <3>. QED
      BY <2>0, <2>4, <3>1, GoesOn DEF EndBind, DirectoryAwaits, Entries
  <2>5. ASSUME NEW query, NEW next, NEW field, NEW rows, Reads(p, query, next, field, rows)
        PROVE  /\ Moves(p, DirectoryAwaits)
               /\ UNCHANGED directoryVars
    BY <2>0, <2>5, GoesOn DEF Reads, DirectoryAwaits
  <2>6. CASE \/ FindGroups(p) \/ PopulateUsers(p) \/ ProfileIdUsernameMap(p)
             \/ FindUsers(p) \/ ProfileMap(p) \/ ProfilesNameMap(p)
    BY <2>0, <2>5, <2>6 DEF FindGroups, PopulateUsers, ProfileIdUsernameMap, FindUsers,
      ProfileMap, ProfilesNameMap, directoryVars
  <2>7. CASE EndSearch(p) \/ UpdatePassword(p)
    BY <2>0, <2>7, Finishes DEF EndSearch, UpdatePassword, directoryVars
  <2>8. CASE BindRoot(p) \/ CreateLocalUser(p) \/ UpdateContacts(p) \/ ChangeGroups(p)
    BY <2>0, <2>8, Finishes
    DEF BindRoot, CreateLocalUser, UpdateContacts, ChangeGroups, Entries
  <2>9. CASE UpdateProfileName(p)
    BY <2>0, <2>9, Finishes DEF UpdateProfileName, Fullnames
  <2>10. CASE VerifyCurrent(p)
    BY <2>0, <2>10, GoesOn, Finishes DEF VerifyCurrent, DirectoryAwaits, directoryVars
  <2>. QED
    BY <1>1, <2>2, <2>3, <2>4, <2>6, <2>7, <2>8, <2>9, <2>10 DEF DirectoryNext
<1>2. ASSUME UNCHANGED directoryVars, NEW p \in Requests, Die(p)  PROVE DirectoryTypeOK'
  BY <1>2, Finishes DEF DirectoryInv, DirectoryTypeOK, Moves, Die, UserLocalUser, directoryVars
<1>3. CASE area # "directory" /\ UNCHANGED <<area, directoryVars>>
  BY <1>3 DEF DirectoryTypeOK, UserLocalUser, directoryVars
<1>4. CASE UNCHANGED <<serverVars, directoryVars>>
  BY <1>4 DEF DirectoryTypeOK, UserLocalUser, serverVars, directoryVars
<1>. QED
  BY <1>1, <1>2, <1>3, <1>4, DirectorySteps

(***************************************************************************)
(* Albums                                                                  *)
(***************************************************************************)

AnyFolder == Folders \cup {NoFolder}

ColumnsTyped(columns) ==
  /\ "rank" \in DOMAIN columns => columns["rank"] \in Nat
  /\ "folder" \in DOMAIN columns => columns["folder"] \in AnyFolder

RankingTyped(order) == DOMAIN order \subseteq 1..2 /\ \A i \in DOMAIN order : order[i] \in AlbumIds

AlbumTyped(p) ==
  /\ At(p, "insertAlbum") => Data(p).rank \in Nat /\ Data(p).folder \in AnyFolder
  /\ At(p, "loadAlbum") =>
       /\ Data(p).folder \in AnyFolder
       /\ Data(p).entity["rank"] \in Nat /\ Data(p).entity["folder"] \in AnyFolder
  /\ At(p, "upsertTask") =>
       /\ Data(p).task \in AlbumIds \cup {NoAlbum} /\ Data(p).folder \in Folders
       /\ ColumnsTyped(Data(p).columns)
  /\ At(p, "commitAlbum") => ColumnsTyped(Data(p).columns)
  /\ (At(p, "loadRanks") \/ At(p, "writeRanks")) =>
       /\ RankingTyped(Data(p).order)
       /\ \A a \in DOMAIN Data(p).ranks : Data(p).ranks[a] \in Nat

AlbumRowsTyped ==
  /\ DOMAIN album \subseteq AlbumIds /\ IsFiniteSet(DOMAIN album)
  /\ \A a \in DOMAIN album : album[a] \in GalleryAlbum
  /\ DOMAIN uploadTask \subseteq AlbumIds \cup {NoAlbum}
  /\ \A a \in DOMAIN uploadTask : uploadTask[a] \in Folders
  /\ edited \subseteq AlbumIds
  /\ RankingTyped(ranking)

AlbumsTyped ==
  /\ AlbumRowsTyped
  /\ area = "albums" =>
       /\ Sent /\ pc \in StepsAmong(AlbumsAwaits)
       /\ \A p \in Requests : AlbumTyped(p)

LEMMA AlbumsAreTyped == AlbumsTyped => AlbumsTypeOK
BY DEF AlbumsTyped, AlbumRowsTyped, AlbumsTypeOK, RankingTyped

LEMMA OneAlbumTyped ==
  ASSUME \A q \in Requests : AlbumTyped(q), NEW p \in Requests, Others(p), AlbumTyped(p)'
  PROVE  (\A q \in Requests : AlbumTyped(q))'
BY DEF AlbumTyped, Others, At, Data

LEMMA AlbumsTypedAtFirst == Init => AlbumsTyped
<1>. SUFFICES ASSUME Init  PROVE AlbumsTyped
  OBVIOUS
<1>1. Sent /\ pc = [p \in Requests |-> "new"] /\ edited = {} /\ ranking = <<>>
  BY SentAtFirst DEF Init, InitRequests, InitAlbums
<1>. DEFINE folder == CHOOSE f \in Folders : TRUE
            Old(n) ==
              /\ album = [a \in 1..n |-> [rank |-> a - 1, folder |-> folder, state |-> "listed"]]
              /\ uploadTask = [a \in 1..n |-> folder]
<1>2. PICK n \in 0..2 : Old(n)
  <2>1. \E n \in IF area = "albums" THEN 0..2 ELSE {0} : Old(n)
    BY DEF Init, InitAlbums
  <2>. QED
    BY <2>1
<1>3. folder \in Folders
  BY AlbumsAssumption
<1>. HIDE DEF folder
<1>4. IsFiniteSet(1..n) /\ 1..n \subseteq AlbumIds
  BY FS_Interval, AlbumsAssumption
<1>5. \A a \in DOMAIN album : album[a] \in GalleryAlbum
  BY <1>2, <1>3 DEF GalleryAlbum
<1>6. AlbumRowsTyped
  BY <1>1, <1>2, <1>3, <1>4, <1>5 DEF AlbumRowsTyped, RankingTyped
<1>. QED
  BY <1>1, <1>6 DEF AlbumsTyped, AlbumTyped, StepsAmong, At

LEMMA RanksAreNumbers ==
  ASSUME NEW order \in Orders, NEW a
  PROVE  RankOf(order, a) \in Nat /\ RankingTyped(order)
<1>1. PICK n \in 1..2 : order \in [1..n -> AlbumIds]
  BY DEF Orders
<1>2. Len(order) = n /\ DOMAIN order = 1..n
  BY <1>1
<1>3. CASE \E i \in DOMAIN order : order[i] = a
  <2>1. (CHOOSE i \in DOMAIN order : order[i] = a) \in 1..n
    BY <1>2, <1>3
  <2>. QED
    BY <1>1, <1>2, <1>3, <2>1 DEF RankOf, RankingTyped
<1>4. CASE ~\E i \in DOMAIN order : order[i] = a
  BY <1>1, <1>2, <1>4 DEF RankOf, RankingTyped
<1>. QED
  BY <1>3, <1>4

LEMMA AlbumsTypedKept ==
  ASSUME AlbumsInv, AlbumsTyped, [Next]_vars
  PROVE  AlbumsTyped'
<1>1. ASSUME area = "albums", NEW p \in Requests, AlbumsNext(p)
      PROVE  AlbumsTyped'
  <2>0. /\ Sent /\ pc \in StepsAmong(AlbumsAwaits)
        /\ AlbumRowsTyped /\ AlbumsAreRows
        /\ \A q \in Requests : AlbumTyped(q) /\ AlbumAgrees(q)
    BY <1>1 DEF AlbumsTyped, AlbumsInv
  <2>1. SUFFICES Moves(p, AlbumsAwaits) /\ AlbumTyped(p)' /\ AlbumRowsTyped'
    BY <1>1, <2>0, OneAlbumTyped DEF AlbumsTyped, Moves
  <2>2. UNCHANGED albumVars => AlbumRowsTyped'
    BY <2>0 DEF AlbumRowsTyped, GalleryAlbum, RankingTyped, albumVars
  <2>3. CASE CreateAlbum(p)
    <3>1. PICK folder \in AnyFolder :
            Accept(p, {<<"create">>}, "insertAlbum",
                   [folder |-> folder, rank |-> Cardinality(Listed)])
      BY <2>3 DEF CreateAlbum, AnyFolder
    <3>2. Cardinality(Listed) \in Nat
      <4>1. Listed \in SUBSET (DOMAIN album)
        BY DEF Listed
      <4>. QED
        BY <2>0, <4>1, FS_Subset, FS_CardinalityType DEF AlbumRowsTyped
    <3>3. /\ Moves(p, AlbumsAwaits) /\ pc'[p] = "insertAlbum"
          /\ Data(p)' = [folder |-> folder, rank |-> Cardinality(Listed)]
      BY <2>0, <3>1, Accepts DEF AlbumsAwaits
    <3>. QED
      BY <2>2, <2>3, <3>2, <3>3 DEF CreateAlbum, AlbumTyped, At
  <2>4. CASE InsertAlbum(p)
    <3>. DEFINE d == Data(p)
                step == IF d.folder = NoFolder THEN "commitAlbum" ELSE "upsertTask"
    <3>1. PICK id \in AlbumIds \ DOMAIN album :
            /\ album' = Put(album, id,
                            [rank |-> d.rank, folder |-> d.folder, state |-> "pending"])
            /\ Go(p, step, [id |-> id, task |-> id, folder |-> d.folder, columns |-> <<>>])
      BY <2>4 DEF InsertAlbum
    <3>2. d.rank \in Nat /\ d.folder \in AnyFolder
      BY <2>0, <2>4 DEF InsertAlbum, AlbumTyped
    <3>3. IsFiniteSet(DOMAIN album')
      <4>1. DOMAIN album' = DOMAIN album \cup {id}
        BY <3>1 DEF Put
      <4>. QED
        BY <2>0, <4>1, FS_AddElement DEF AlbumRowsTyped
    <3>4. \A a \in DOMAIN album' : a \in AlbumIds /\ album'[a] \in GalleryAlbum
      BY <2>0, <3>1, <3>2 DEF Put, AlbumRowsTyped, GalleryAlbum, AnyFolder
    <3>5. AlbumRowsTyped'
      BY <2>0, <2>4, <3>3, <3>4 DEF InsertAlbum, AlbumRowsTyped, GalleryAlbum, RankingTyped
    <3>6. step \in AlbumsAwaits
      BY DEF AlbumsAwaits
    <3>7. /\ Moves(p, AlbumsAwaits) /\ pc'[p] = step
          /\ Data(p)' = [id |-> id, task |-> id, folder |-> d.folder, columns |-> <<>>]
      BY <2>0, <3>1, <3>6, GoesOn
    <3>8. AlbumTyped(p)'
      BY <3>2, <3>7 DEF AlbumTyped, ColumnsTyped, AnyFolder, At
    <3>. QED
      BY <3>5, <3>7, <3>8
  <2>5. CASE UpsertUploadTaskInfo(p)
    <3>. DEFINE d == Data(p)
    <3>1. /\ d.task \in AlbumIds \cup {NoAlbum} /\ d.folder \in Folders
          /\ ColumnsTyped(d.columns)
      BY <2>0, <2>5 DEF UpsertUploadTaskInfo, AlbumTyped
    <3>2. AlbumRowsTyped'
      BY <2>0, <2>5, <3>1
      DEF UpsertUploadTaskInfo, Put, AlbumRowsTyped, GalleryAlbum, RankingTyped
    <3>3. Moves(p, AlbumsAwaits) /\ pc'[p] = "commitAlbum" /\ Data(p)' = d
      BY <2>0, <2>5, GoesOn DEF UpsertUploadTaskInfo, AlbumsAwaits
    <3>. QED
      BY <3>1, <3>2, <3>3 DEF AlbumTyped, At
  <2>6. CASE CommitAlbum(p)
    <3>. DEFINE d == Data(p)
    <3>1. album' = [album EXCEPT ![d.id] = Saved(album[d.id], d.columns)]
      BY <2>6 DEF CommitAlbum
    <3>2. d.id \in DOMAIN album /\ ColumnsTyped(d.columns)
      BY <2>0, <2>6 DEF CommitAlbum, AlbumTyped, AlbumAgrees
    <3>3. Saved(album[d.id], d.columns) \in GalleryAlbum
      BY <2>0, <3>2 DEF AlbumRowsTyped, Saved, GalleryAlbum, ColumnsTyped, AnyFolder
    <3>4. DOMAIN album' = DOMAIN album /\ \A a \in DOMAIN album : album'[a] \in GalleryAlbum
      BY <2>0, <3>1, <3>2, <3>3 DEF AlbumRowsTyped, AlbumsAreRows
    <3>5. AlbumRowsTyped'
      BY <2>0, <2>6, <3>4 DEF CommitAlbum, AlbumRowsTyped, GalleryAlbum, RankingTyped
    <3>. QED
      BY <2>0, <2>6, <3>5, Finishes DEF CommitAlbum, AlbumTyped, At
  <2>7. CASE UpdateAlbum(p)
    <3>1. PICK a \in Listed, folder \in AnyFolder :
            Accept(p, {<<"rank">>}, "loadAlbum",
              [id |-> a, folder |-> folder,
               entity |-> [rank |-> album[a].rank,
                           folder |-> IF folder = NoFolder THEN album[a].folder ELSE folder]])
      BY <2>7 DEF UpdateAlbum, AnyFolder
    <3>. DEFINE entity == [rank |-> album[a].rank,
                           folder |-> IF folder = NoFolder THEN album[a].folder ELSE folder]
    <3>2. entity["rank"] \in Nat /\ entity["folder"] \in AnyFolder
      BY <2>0 DEF AlbumRowsTyped, GalleryAlbum, AnyFolder, Listed
    <3>. HIDE DEF entity
    <3>3. /\ Moves(p, AlbumsAwaits) /\ pc'[p] = "loadAlbum"
          /\ Data(p)' = [id |-> a, folder |-> folder, entity |-> entity]
      BY <2>0, <3>1, Accepts DEF AlbumsAwaits, entity
    <3>. QED
      BY <2>2, <2>7, <3>2, <3>3 DEF UpdateAlbum, AlbumTyped, At
  <2>8. CASE LoadAlbum(p)
    <3>. DEFINE d == Data(p)
                step == IF d.folder = NoFolder THEN "commitAlbum" ELSE "upsertTask"
                columns == Differing(d.entity, d.id)
    <3>1. /\ d.id \in DOMAIN album /\ d.folder \in AnyFolder
          /\ d.entity["rank"] \in Nat /\ d.entity["folder"] \in AnyFolder
      BY <2>0, <2>8 DEF LoadAlbum, AlbumTyped, AlbumAgrees
    <3>2. ColumnsTyped(columns)
      BY <3>1 DEF Differing, ColumnsTyped
    <3>3. AlbumRowsTyped'
      BY <2>0, <2>8, <3>1 DEF LoadAlbum, AlbumRowsTyped, GalleryAlbum, RankingTyped
    <3>. HIDE DEF columns
    <3>4. Go(p, step, [id |-> d.id, task |-> NoAlbum, folder |-> d.folder,
                       columns |-> columns])
      BY <2>8 DEF LoadAlbum, columns
    <3>5. step \in AlbumsAwaits
      BY DEF AlbumsAwaits
    <3>6. /\ Moves(p, AlbumsAwaits) /\ pc'[p] = step
          /\ Data(p)' = [id |-> d.id, task |-> NoAlbum, folder |-> d.folder,
                         columns |-> columns]
      BY <2>0, <3>4, <3>5, GoesOn
    <3>7. AlbumTyped(p)'
      BY <3>1, <3>2, <3>6 DEF AlbumTyped, AnyFolder, At
    <3>. QED
      BY <3>3, <3>6, <3>7
  <2>9. CASE RemoveAlbum(p)
    <3>1. PICK a \in Listed : album' = [album EXCEPT ![a].state = "deleted"]
      BY <2>9 DEF RemoveAlbum
    <3>2. DOMAIN album' = DOMAIN album /\ \A b \in DOMAIN album : album'[b] \in GalleryAlbum
      BY <2>0, <3>1 DEF AlbumRowsTyped, AlbumsAreRows, GalleryAlbum
    <3>3. AlbumRowsTyped'
      BY <2>0, <2>9, <3>2 DEF RemoveAlbum, AlbumRowsTyped, GalleryAlbum, RankingTyped
    <3>. QED
      BY <2>0, <2>9, <3>3, Finishes DEF RemoveAlbum, AlbumTyped, At
  <2>10. CASE RankAlbums(p)
    <3>1. PICK order \in Orders :
            Accept(p, {<<"rank">>}, "loadRanks",
              [order |-> [i \in {i \in DOMAIN order : order[i] \in Listed} |-> order[i]],
               ranks |-> [a \in Listed |-> RankOf(order, a)]])
      BY <2>10 DEF RankAlbums
    <3>. DEFINE listed == [i \in {i \in DOMAIN order : order[i] \in Listed} |-> order[i]]
                ranks == [a \in Listed |-> RankOf(order, a)]
    <3>2. RankingTyped(listed) /\ \A a \in DOMAIN ranks : ranks[a] \in Nat
      BY RanksAreNumbers DEF RankingTyped
    <3>. HIDE DEF listed, ranks
    <3>3. /\ Moves(p, AlbumsAwaits) /\ pc'[p] = "loadRanks"
          /\ Data(p)' = [order |-> listed, ranks |-> ranks]
      <4>1. Accept(p, {<<"rank">>}, "loadRanks", [order |-> listed, ranks |-> ranks])
        BY <3>1 DEF listed, ranks
      <4>. QED
        BY <2>0, <4>1, Accepts DEF AlbumsAwaits
    <3>. QED
      BY <2>2, <2>10, <3>2, <3>3 DEF RankAlbums, AlbumTyped, At
  <2>11. CASE LoadRanks(p)
    <3>. DEFINE d == Data(p)
                ranks == [a \in {a \in DOMAIN d.ranks : d.ranks[a] # album[a].rank} |-> d.ranks[a]]
    <3>1. RankingTyped(d.order) /\ \A a \in DOMAIN d.ranks : d.ranks[a] \in Nat
      BY <2>0, <2>11 DEF LoadRanks, AlbumTyped
    <3>2. \A a \in DOMAIN ranks : ranks[a] \in Nat
      BY <3>1
    <3>. HIDE DEF ranks
    <3>3. /\ Moves(p, AlbumsAwaits) /\ pc'[p] = "writeRanks"
          /\ Data(p)' = [order |-> d.order, ranks |-> ranks]
      <4>1. Go(p, "writeRanks", [order |-> d.order, ranks |-> ranks])
        BY <2>11 DEF LoadRanks, ranks
      <4>. QED
        BY <2>0, <4>1, GoesOn DEF AlbumsAwaits
    <3>. QED
      BY <2>2, <2>11, <3>1, <3>2, <3>3 DEF LoadRanks, AlbumTyped, At
  <2>12. CASE WriteRanks(p)
    <3>. DEFINE d == Data(p)
    <3>1. RankingTyped(d.order) /\ \A a \in DOMAIN d.ranks : d.ranks[a] \in Nat
      BY <2>0, <2>12 DEF WriteRanks, AlbumTyped
    <3>2. album' = [a \in DOMAIN album |->
            IF a \in DOMAIN d.ranks THEN [album[a] EXCEPT !.rank = d.ranks[a]] ELSE album[a]]
      BY <2>12 DEF WriteRanks
    <3>3. DOMAIN album' = DOMAIN album /\ \A b \in DOMAIN album : album'[b] \in GalleryAlbum
      BY <2>0, <3>1, <3>2 DEF AlbumRowsTyped, GalleryAlbum
    <3>4. AlbumRowsTyped'
      BY <2>0, <2>12, <3>1, <3>3 DEF WriteRanks, AlbumRowsTyped, GalleryAlbum, RankingTyped
    <3>. QED
      BY <2>0, <2>12, <3>4, Finishes DEF WriteRanks, AlbumTyped, At
  <2>. QED
    BY <1>1, <2>3, <2>4, <2>5, <2>6, <2>7, <2>8, <2>9, <2>10, <2>11, <2>12 DEF AlbumsNext
<1>2. ASSUME UNCHANGED albumVars, NEW p \in Requests, Die(p)  PROVE AlbumsTyped'
  <2>1. area = "albums" => Moves(p, AlbumsAwaits) /\ AlbumTyped(p)'
    BY <1>2, Finishes DEF AlbumsTyped, AlbumTyped, At
  <2>. QED
    BY <1>2, <2>1, OneAlbumTyped
    DEF AlbumsTyped, AlbumRowsTyped, GalleryAlbum, RankingTyped, Moves, Die, albumVars
<1>3. CASE area # "albums" /\ UNCHANGED <<area, albumVars>>
  BY <1>3 DEF AlbumsTyped, AlbumRowsTyped, GalleryAlbum, RankingTyped, albumVars
<1>4. CASE UNCHANGED <<serverVars, albumVars>>
  BY <1>4 DEF AlbumsTyped, AlbumRowsTyped, GalleryAlbum, RankingTyped, AlbumTyped, ColumnsTyped,
    At, Data, Sent, serverVars, albumVars
<1>. QED
  BY <1>1, <1>2, <1>3, <1>4, AlbumSteps

(***************************************************************************)
(* Activities                                                              *)
(***************************************************************************)

VideoTyped(p) == At(p, "saveVideo") => Data(p).video \in Videos /\ Data(p).activity \in Activity

ActivityRowsTyped ==
  /\ \A a \in DOMAIN activity : activity[a].deleted \in BOOLEAN
  /\ \A t \in DOMAIN tag : tag[t] \in TagTitles
  /\ DOMAIN video \subseteq Videos
  /\ \A v \in DOMAIN video : video[v] \in Activity
  /\ sent \in [Activity -> SUBSET TagTitles]

ActivitiesTyped ==
  /\ ActivityRowsTyped
  /\ area = "activities" =>
       pc \in StepsAmong(ActivitiesAwaits) /\ \A p \in Requests : VideoTyped(p)

(* There are no more tags than titles. *)
LEMMA TagsHaveIds ==
  ASSUME TagsAreNumbered, \A t \in DOMAIN tag : tag[t] \in TagTitles
  PROVE  DOMAIN tag \subseteq TagIds
<1>1. PICK n \in Nat : DOMAIN tag = 1..n
  BY DEF TagsAreNumbered
<1>2. tag \in Injection(1..n, TagTitles)
  BY <1>1 DEF TagsAreNumbered, Injection, IsInjective
<1>3. IsFiniteSet(1..n) /\ Cardinality(1..n) = n
  BY FS_Interval
<1>4. n <= Cardinality(TagTitles)
  BY <1>2, <1>3, TitlesAssumption, FS_Injection
<1>5. Cardinality(TagTitles) \in Nat
  BY TitlesAssumption, FS_CardinalityType
<1>. QED
  BY <1>1, <1>4, <1>5, TitlesAssumption

LEMMA ActivitiesAreTyped == ActivitiesInv /\ ActivitiesTyped => ActivitiesTypeOK
<1>. SUFFICES ASSUME ActivitiesInv, ActivitiesTyped  PROVE ActivitiesTypeOK
  OBVIOUS
<1>1. CASE area = "activities"
  <2>1. TagsAreNumbered /\ ActivitiesAreRows
    BY <1>1 DEF ActivitiesInv
  <2>2. DOMAIN tag \subseteq TagIds
    BY <2>1, TagsHaveIds DEF ActivitiesTyped, ActivityRowsTyped
  <2>3. ASSUME NEW a \in DOMAIN activity
        PROVE  activity[a] \in [deleted : BOOLEAN, tags : SUBSET TagIds]
    <3>1. /\ activity[a] = [deleted |-> activity[a].deleted, tags |-> activity[a].tags]
          /\ activity[a].deleted \in BOOLEAN /\ activity[a].tags \subseteq TagIds
      BY <2>1, <2>2 DEF ActivitiesAreRows, ActivitiesTyped, ActivityRowsTyped
    <3>. QED
      BY <3>1
  <2>. QED
    BY <1>1, <2>1, <2>2, <2>3
    DEF ActivitiesTyped, ActivityRowsTyped, ActivitiesTypeOK, ActivitiesAreRows
<1>2. CASE area # "activities"
  BY <1>2 DEF ActivitiesInv, ActivitiesTyped, ActivityRowsTyped, ActivitiesTypeOK
<1>. QED
  BY <1>1, <1>2

LEMMA ActivitiesTypedAtFirst == Init => ActivitiesTyped
<1>. SUFFICES ASSUME Init  PROVE ActivitiesTyped
  OBVIOUS
<1>1. Sent /\ pc = [p \in Requests |-> "new"] /\ video = <<>>
  BY SentAtFirst DEF Init, InitRequests, InitActivities
<1>2. PICK title \in TagTitles, a \in Activity, tags \in SUBSET {1}, old \in BOOLEAN :
        /\ tag = IF old THEN <<title>> ELSE <<>>
        /\ activity = IF old THEN Put(<<>>, a, [deleted |-> FALSE, tags |-> tags]) ELSE <<>>
        /\ sent = [b \in Activity |-> IF old /\ b = a /\ tags # {} THEN {title} ELSE {}]
  <2>1. InitActivities
    BY DEF Init
  <2>2. (IF area = "activities" THEN BOOLEAN ELSE {FALSE}) \subseteq BOOLEAN
    OBVIOUS
  <2>3. PICK title \in TagTitles, a \in Activity, tags \in SUBSET {1},
             old \in IF area = "activities" THEN BOOLEAN ELSE {FALSE} :
          /\ tag = IF old THEN <<title>> ELSE <<>>
          /\ activity = IF old THEN Put(<<>>, a, [deleted |-> FALSE, tags |-> tags]) ELSE <<>>
          /\ sent = [b \in Activity |-> IF old /\ b = a /\ tags # {} THEN {title} ELSE {}]
    BY <2>1, Zenon DEF InitActivities
  <2>. WITNESS title \in TagTitles, a \in Activity, tags \in SUBSET {1}, old \in BOOLEAN
  <2>. QED  BY <2>3
<1>3. \A t \in DOMAIN tag : tag[t] \in TagTitles
  BY <1>2
<1>4. \A b \in DOMAIN activity : activity[b].deleted \in BOOLEAN
  <2>1. CASE old
    <3>1. activity = [b \in {a} |-> [deleted |-> FALSE, tags |-> tags]]
      BY <1>2, <2>1 DEF Put
    <3>. QED
      BY <3>1
  <2>2. CASE ~old
    BY <1>2, <2>2
  <2>. QED
    BY <2>1, <2>2
<1>5. sent \in [Activity -> SUBSET TagTitles]
  BY <1>2
<1>. QED
  BY <1>1, <1>3, <1>4, <1>5
  DEF ActivitiesTyped, ActivityRowsTyped, VideoTyped, StepsAmong, At

LEMMA OneVideoTyped ==
  ASSUME \A q \in Requests : VideoTyped(q), NEW p \in Requests, Others(p), VideoTyped(p)'
  PROVE  (\A q \in Requests : VideoTyped(q))'
BY DEF VideoTyped, Others, At, Data

LEMMA ActivitiesTypedKept ==
  ASSUME ActivitiesInv, ActivitiesTyped, [Next]_vars
  PROVE  ActivitiesTyped'
<1>1. ASSUME area = "activities", NEW p \in Requests, ActivitiesNext(p)
      PROVE  ActivitiesTyped'
  <2>0. /\ Sent /\ pc \in StepsAmong(ActivitiesAwaits)
        /\ ActivityRowsTyped /\ ActivitiesAreRows
        /\ \A q \in Requests : VideoTyped(q) /\ ActivityAgrees(q)
    BY <1>1 DEF ActivitiesTyped, ActivitiesInv
  <2>1. SUFFICES Moves(p, ActivitiesAwaits) /\ VideoTyped(p)' /\ ActivityRowsTyped'
    BY <1>1, <2>0, OneVideoTyped DEF ActivitiesTyped, Moves
  <2>2. UNCHANGED activityVars => ActivityRowsTyped'
    BY <2>0 DEF ActivityRowsTyped, activityVars
  <2>3. CASE CreateGalleryActivity(p) \/ UpdateGalleryActivity(p)
    <3>1. PICK about, data : Accept(p, about, "resolveTags", data)
      BY <2>3 DEF CreateGalleryActivity, UpdateGalleryActivity
    <3>2. Moves(p, ActivitiesAwaits) /\ pc'[p] = "resolveTags"
      BY <2>0, <3>1, Accepts DEF ActivitiesAwaits
    <3>. QED
      BY <2>2, <2>3, <3>2 DEF CreateGalleryActivity, UpdateGalleryActivity, VideoTyped, At
  <2>4. CASE ResolveTagEntities(p) \/ FindActivity(p)
    <3>1. PICK step \in {"saveActivity", "findActivity", "saveTagsOnly"} :
            \E data : Go(p, step, data)
      BY <2>4 DEF ResolveTagEntities, FindActivity
    <3>2. Moves(p, ActivitiesAwaits) /\ pc'[p] = step
      BY <2>0, <3>1, GoesOn DEF ActivitiesAwaits
    <3>. QED
      BY <2>2, <2>4, <3>2 DEF ResolveTagEntities, FindActivity, VideoTyped, At
  <2>5. ASSUME NEW missing, missing \subseteq TagTitles, NEW new \in NewTags(missing),
               tag' = WithTags(new)
        PROVE  \A t \in DOMAIN tag' : tag'[t] \in TagTitles
    <3>1. \A t \in DOMAIN new : new[t] \in missing
      BY <2>5 DEF NewTags
    <3>. QED
      BY <2>0, <2>5, <3>1 DEF WithTags, ActivityRowsTyped
  <2>6. CASE SaveActivity(p)
    <3>. DEFINE d == Data(p)
                old == IF d.new THEN [deleted |-> FALSE, tags |-> {}] ELSE activity[d.id]
    <3>1. /\ d.id \in Activity /\ (d.new \/ d.id \in DOMAIN activity)
          /\ d.titles \subseteq TagTitles /\ d.missing \subseteq d.titles
      BY <2>0, <2>6 DEF SaveActivity, ActivityAgrees, Resolved
    <3>2. CASE Taken(d.missing)
      BY <2>0, <2>2, <2>6, <3>2, Finishes DEF SaveActivity, VideoTyped, At
    <3>3. CASE ~Taken(d.missing)
      <4>1. PICK new \in NewTags(d.missing) :
              /\ tag' = WithTags(new)
              /\ activity' = Put(activity, d.id,
                   [deleted |-> old.deleted, tags |-> TagsReplaced(old.tags, d) \cup DOMAIN new])
              /\ sent' = [sent EXCEPT ![d.id] = d.titles]
              /\ UNCHANGED video
        BY <2>6, <3>3 DEF SaveActivity
      <4>2. \A t \in DOMAIN tag' : tag'[t] \in TagTitles
        BY <2>5, <3>1, <4>1
      <4>3. old.deleted \in BOOLEAN
        BY <2>0, <3>1 DEF ActivityRowsTyped
      <4>. HIDE DEF old
      <4>4. \A a \in DOMAIN activity' : activity'[a].deleted \in BOOLEAN
        BY <2>0, <4>1, <4>3 DEF ActivityRowsTyped, Put
      <4>5. sent' \in [Activity -> SUBSET TagTitles]
        BY <2>0, <3>1, <4>1 DEF ActivityRowsTyped
      <4>6. ActivityRowsTyped'
        BY <2>0, <4>1, <4>2, <4>4, <4>5 DEF ActivityRowsTyped
      <4>. QED
        BY <2>0, <2>6, <4>6, Finishes DEF SaveActivity, VideoTyped, At
    <3>. QED
      BY <3>2, <3>3
  <2>7. CASE SaveTagsOnly(p)
    <3>. DEFINE missing == Data(p).missing
    <3>1. missing \subseteq TagTitles
      BY <2>0, <2>7 DEF SaveTagsOnly, ActivityAgrees, Resolved
    <3>2. tag' = tag \/ \E new \in NewTags(missing) : tag' = WithTags(new)
      BY <2>7 DEF SaveTagsOnly
    <3>3. \A t \in DOMAIN tag' : tag'[t] \in TagTitles
      BY <2>0, <2>5, <3>1, <3>2 DEF ActivityRowsTyped
    <3>4. ActivityRowsTyped'
      BY <2>0, <2>7, <3>3 DEF SaveTagsOnly, ActivityRowsTyped
    <3>. QED
      BY <2>0, <2>7, <3>4, Finishes DEF SaveTagsOnly, VideoTyped, At
  <2>8. CASE DeleteGalleryActivity(p)
    <3>1. PICK a \in DOMAIN activity :
            activity' = Put(activity, a, [deleted |-> TRUE, tags |-> activity[a].tags])
      BY <2>8 DEF DeleteGalleryActivity
    <3>2. ActivityRowsTyped'
      BY <2>0, <2>8, <3>1 DEF DeleteGalleryActivity, ActivityRowsTyped, Put
    <3>. QED
      BY <2>0, <2>8, <3>2, Finishes DEF DeleteGalleryActivity, VideoTyped, At
  <2>9. CASE CreateGalleryVideo(p)
    <3>1. PICK v \in Videos, a \in DOMAIN activity :
            Accept(p, {<<"video", v>>}, "saveVideo",
                   [video |-> v, activity |-> a, insert |-> v \notin DOMAIN video])
      BY <2>9 DEF CreateGalleryVideo
    <3>2. /\ Moves(p, ActivitiesAwaits) /\ pc'[p] = "saveVideo"
          /\ Data(p)' = [video |-> v, activity |-> a, insert |-> v \notin DOMAIN video]
      BY <2>0, <3>1, Accepts DEF ActivitiesAwaits
    <3>. QED
      BY <2>0, <2>2, <2>9, <3>2 DEF CreateGalleryVideo, VideoTyped, ActivitiesAreRows, At
  <2>10. CASE SaveVideo(p)
    <3>1. Data(p).video \in Videos /\ Data(p).activity \in Activity
      BY <2>0, <2>10 DEF SaveVideo, VideoTyped
    <3>2. ActivityRowsTyped'
      BY <2>0, <2>10, <3>1 DEF SaveVideo, ActivityRowsTyped, Put
    <3>. QED
      BY <2>0, <2>10, <3>2, Finishes DEF SaveVideo, VideoTyped, At
  <2>11. CASE DeleteGalleryVideo(p)
    BY <2>0, <2>11, Finishes DEF DeleteGalleryVideo, ActivityRowsTyped, VideoTyped, At
  <2>. QED
    BY <1>1, <2>3, <2>4, <2>6, <2>7, <2>8, <2>9, <2>10, <2>11 DEF ActivitiesNext
<1>2. ASSUME UNCHANGED activityVars, NEW p \in Requests, Die(p)  PROVE ActivitiesTyped'
  <2>1. area = "activities" => Moves(p, ActivitiesAwaits) /\ VideoTyped(p)'
    BY <1>2, Finishes DEF ActivitiesTyped, ActivitiesInv, VideoTyped, At
  <2>. QED
    BY <1>2, <2>1, OneVideoTyped
    DEF ActivitiesTyped, ActivityRowsTyped, Moves, Die, activityVars
<1>3. CASE area # "activities" /\ UNCHANGED <<area, activityVars>>
  BY <1>3 DEF ActivitiesTyped, ActivityRowsTyped, activityVars
<1>4. CASE UNCHANGED <<serverVars, activityVars>>
  BY <1>4 DEF ActivitiesTyped, ActivityRowsTyped, VideoTyped, At, Data, serverVars, activityVars
<1>. QED
  BY <1>1, <1>2, <1>3, <1>4, ActivitySteps

(***************************************************************************)
(* Announcements                                                           *)
(***************************************************************************)

LEMMA AnnouncementsTypedAtFirst == Init => AnnouncementsTypeOK
<1>. SUFFICES ASSUME Init  PROVE AnnouncementsTypeOK
  OBVIOUS
<1>1. /\ pc = [p \in Requests |-> "new"]
      /\ clock = 0 /\ nextRun = 0 /\ moved = {} /\ disturbed = {}
      /\ announced = [e \in Meetings |-> 0]
  BY DEF Init, InitRequests, InitAnnouncements
<1>2. plan \in Plans /\ calendar \in OldCalendars
  BY PlansAssumption, EventsAssumption DEF Init, InitAnnouncements
<1>. QED
  BY <1>1, <1>2, PlansAssumption, EventsAssumption DEF AnnouncementsTypeOK, StepsAmong

LEMMA ReachedIsOfRuns ==
  ASSUME plan \in Plans, NEW time \in Nat
  PROVE  Reached(time) \subseteq Int
<1>1. From(time) \in Int /\ To(time) \in Int
  BY WindowIs
<1>2. \A start \in From(time)..(To(time) - 1) : start \in Int
  BY <1>1
<1>. QED
  BY <1>2, RunIs DEF Reached

LEMMA AnnouncementsTypedKept ==
  ASSUME AnnouncementsInv, AnnouncementsInv', AnnouncementsTypeOK, [Next]_vars
  PROVE  AnnouncementsTypeOK'
<1>1. ASSUME area = "announcements", NEW p \in Requests, AnnouncementsNext(p)
      PROVE  AnnouncementsTypeOK'
  <2>0. /\ Sent /\ pc \in StepsAmong(AnnouncementsAwaits) /\ plan \in Plans
        /\ clock \in 0..LastTick /\ nextRun \in Nat /\ moved \subseteq Meetings
        /\ disturbed \subseteq Int /\ AnnouncementAgrees(p)
    BY <1>1 DEF AnnouncementsTypeOK, AnnouncementsInv, AnnouncementsAreTyped
  <2>1. SUFFICES /\ Moves(p, AnnouncementsAwaits)
                 /\ clock' = clock /\ moved' \subseteq Meetings /\ disturbed' \subseteq Int
    BY <1>1, <2>0, <2>1
    DEF AnnouncementsTypeOK, AnnouncementsInv, AnnouncementsAreTyped, Moves
  <2>2. clock \in Nat /\ \A a, b \in Nat : a..b \subseteq Int
    BY <2>0, PlansAssumption
  <2>3. CASE StartJob(p)
    BY <2>0, <2>2, <2>3, Accepts, ReachedIsOfRuns DEF StartJob, AnnouncementsAwaits
  <2>4. CASE Trigger(p)
    <3>1. PICK when \in 0..LastTick, dryrun \in BOOLEAN :
            /\ Accept(p, {}, "list", [run |-> -1, now |-> when, left |-> 0, dryrun |-> dryrun])
            /\ disturbed' = disturbed \cup IF dryrun THEN {} ELSE Reached(when)
      BY <2>4 DEF Trigger
    <3>2. Reached(when) \subseteq Int
      BY <2>0, ReachedIsOfRuns, PlansAssumption
    <3>. QED
      BY <2>0, <2>4, <3>1, <3>2, Accepts DEF Trigger, AnnouncementsAwaits
  <2>5. CASE ListEvents(p)
    BY <2>0, <2>5, GoesOn, Finishes DEF ListEvents, AnnouncementsAwaits, announcementVars
  <2>6. CASE ExecuteWebhook(p)
    BY <2>0, <2>6, Finishes DEF ExecuteWebhook
  <2>7. CASE AttemptFails(p)
    <3>. DEFINE d == Data(p)
    <3>1. d.run \in Int /\ d.now \in Nat
      BY <2>0, <2>7 DEF AttemptFails, AnnouncementAgrees, InFlight, At
    <3>2. disturbed' \subseteq disturbed \cup {d.run} \cup Reached(d.now)
      BY <2>7 DEF AttemptFails
    <3>3. disturbed' \subseteq Int
      BY <2>0, <3>1, <3>2, ReachedIsOfRuns
    <3>4. Moves(p, AnnouncementsAwaits)
      BY <2>0, <2>7, GoesOn, Finishes DEF AttemptFails, AnnouncementsAwaits
    <3>. QED
      BY <2>0, <2>7, <3>3, <3>4 DEF AttemptFails
  <2>8. CASE Retry(p)
    <3>. DEFINE d == Data(p)
    <3>1. d.run \in Nat
      BY <2>0, <2>8 DEF Retry, AnnouncementAgrees, InFlight, At
    <3>2. disturbed' \subseteq disturbed \cup d.run..clock \cup Reached(clock)
      BY <2>8 DEF Retry
    <3>3. disturbed' \subseteq Int
      BY <2>0, <2>2, <3>1, <3>2, ReachedIsOfRuns
    <3>4. Moves(p, AnnouncementsAwaits)
      BY <2>0, <2>8, GoesOn DEF Retry, AnnouncementsAwaits
    <3>. QED
      BY <2>0, <2>8, <3>3, <3>4 DEF Retry
  <2>9. CASE EditEvent(p)
    BY <2>0, <2>9, Finishes DEF EditEvent
  <2>. QED
    BY <1>1, <2>3, <2>4, <2>5, <2>6, <2>7, <2>8, <2>9 DEF AnnouncementsNext
<1>2. ASSUME UNCHANGED announcementVars, NEW p \in Requests, Die(p)
      PROVE  AnnouncementsTypeOK'
  <2>1. area = "announcements" => Moves(p, AnnouncementsAwaits)
    BY <1>2, Finishes DEF AnnouncementsTypeOK, AnnouncementsInv, AnnouncementsAreTyped
  <2>. QED
    BY <1>2, <2>1 DEF AnnouncementsTypeOK, Moves, Die, announcementVars
<1>3. CASE area # "announcements" /\ UNCHANGED <<area, announcementVars>>
  BY <1>3 DEF AnnouncementsTypeOK, announcementVars
<1>4. CASE UNCHANGED <<serverVars, announcementVars>>
  BY <1>4 DEF AnnouncementsTypeOK, serverVars, announcementVars
<1>5. CASE PassTick
  BY <1>5, PlansAssumption DEF PassTick, AnnouncementsTypeOK, serverVars
<1>. QED
  BY <1>1, <1>2, <1>3, <1>4, <1>5, AnnouncementSteps

(***************************************************************************)
(* Registration                                                            *)
(***************************************************************************)

LinkTyped(p) == pc[p] \in LinkSteps => Data(p).profile \in ProfileIds

AccountsTyped ==
  /\ DOMAIN profile \subseteq ProfileIds
  /\ \A i \in DOMAIN profile : profile[i] \in ProfileDoc
  /\ DOMAIN link \subseteq Accounts
  /\ \A a \in DOMAIN link : link[a] \in ProfileLink
  /\ DOMAIN token \subseteq TokenIds
  /\ \A t \in DOMAIN token : token[t] \in RegistrationToken
  /\ reached \in [Accounts -> SUBSET ProfileIds]
  /\ unsure \subseteq Accounts

RegistrationTyped ==
  /\ AccountsTyped
  /\ area = "registration" =>
       pc \in StepsAmong(RegistrationAwaits) /\ \A p \in Requests : LinkTyped(p)

LEMMA RegistrationIsTyped == RegistrationTyped => RegistrationTypeOK
BY DEF RegistrationTyped, AccountsTyped, RegistrationTypeOK

LEMMA EmailsAreEmails == \A a \in Accounts \cup {Nobody} : EmailsOf(a) \subseteq Emails
BY RegistrationAssumption DEF EmailsOf

LEMMA OneLinkTyped ==
  ASSUME \A q \in Requests : LinkTyped(q), NEW p \in Requests, Others(p), LinkTyped(p)'
  PROVE  (\A q \in Requests : LinkTyped(q))'
BY DEF LinkTyped, Others, Data

LEMMA RegistrationTypedAtFirst == Init => RegistrationTyped
<1>. SUFFICES ASSUME Init  PROVE RegistrationTyped
  OBVIOUS
<1>1. pc = [p \in Requests |-> "new"] /\ unsure = {}
  BY DEF Init, InitRequests, InitRegistration
<1>2. CASE profile = <<>> /\ link = <<>> /\ reached = [a \in Accounts |-> {}]
  <2>1. token = <<>> \/ \E a \in Accounts : token = <<[account |-> a, valid |-> TRUE]>>
    BY <1>2 DEF Init, InitRegistration
  <2>2. /\ DOMAIN token \subseteq TokenIds
        /\ \A t \in DOMAIN token : token[t] \in RegistrationToken
    <3>1. ASSUME NEW a \in Accounts, token = <<[account |-> a, valid |-> TRUE]>>
          PROVE  DOMAIN token = {1} /\ token[1] \in RegistrationToken
      BY <3>1 DEF RegistrationToken
    <3>. QED
      BY <2>1, <3>1, RegistrationAssumption
  <2>. QED
    BY <1>1, <1>2, <2>2 DEF RegistrationTyped, AccountsTyped, StepsAmong, LinkTyped, LinkSteps
<1>3. CASE token = <<>> /\ \E a \in Accounts \cup {Nobody} : \E emails \in
               IF a = Nobody THEN SUBSET Emails ELSE {EmailsOf(a)} :
             /\ profile = <<[account |-> a, emails |-> emails]>>
             /\ \E linked \in {{}} \cup
                   {{b} : b \in {b \in Accounts : ProviderOf[b] = "discord"
                                                /\ EmailsOf(b) \cap emails # {}}} :
                  /\ link = [b \in linked |-> [profile |-> 1, rank |-> 0]]
                  /\ reached = [b \in Accounts |-> IF b \in {a} \cup linked THEN {1} ELSE {}]
  <2>1. PICK a \in Accounts \cup {Nobody} : \E emails \in
               IF a = Nobody THEN SUBSET Emails ELSE {EmailsOf(a)} :
             /\ profile = <<[account |-> a, emails |-> emails]>>
             /\ \E linked \in {{}} \cup
                   {{b} : b \in {b \in Accounts : ProviderOf[b] = "discord"
                                                /\ EmailsOf(b) \cap emails # {}}} :
                  /\ link = [b \in linked |-> [profile |-> 1, rank |-> 0]]
                  /\ reached = [b \in Accounts |-> IF b \in {a} \cup linked THEN {1} ELSE {}]
    BY <1>3
  <2>2. PICK emails \in IF a = Nobody THEN SUBSET Emails ELSE {EmailsOf(a)} :
             /\ profile = <<[account |-> a, emails |-> emails]>>
             /\ \E linked \in {{}} \cup
                   {{b} : b \in {b \in Accounts : ProviderOf[b] = "discord"
                                                /\ EmailsOf(b) \cap emails # {}}} :
                  /\ link = [b \in linked |-> [profile |-> 1, rank |-> 0]]
                  /\ reached = [b \in Accounts |-> IF b \in {a} \cup linked THEN {1} ELSE {}]
    BY <2>1
  <2>3. PICK linked \in SUBSET Accounts :
             /\ link = [b \in linked |-> [profile |-> 1, rank |-> 0]]
             /\ reached = [b \in Accounts |-> IF b \in {a} \cup linked THEN {1} ELSE {}]
    <3>1. {{}} \cup {{b} : b \in {b \in Accounts : ProviderOf[b] = "discord"
                                                     /\ EmailsOf(b) \cap emails # {}}}
            \subseteq SUBSET Accounts
      OBVIOUS
    <3>. QED
      BY <2>2, <3>1
  <2>4. DOMAIN profile = {1} /\ profile[1] \in ProfileDoc
    <3>1. emails \subseteq Emails
      BY <2>2, EmailsAreEmails
    <3>. QED
      BY <2>2, <3>1 DEF ProfileDoc
  <2>5. /\ \A b \in DOMAIN link : b \in Accounts /\ link[b] \in ProfileLink
        /\ reached \in [Accounts -> SUBSET ProfileIds]
    BY <2>3, RegistrationAssumption DEF ProfileLink
  <2>. QED
    BY <1>1, <1>3, <2>4, <2>5, RegistrationAssumption
    DEF RegistrationTyped, AccountsTyped, StepsAmong, LinkTyped, LinkSteps
<1>. QED
  BY <1>2, <1>3 DEF Init, InitRegistration

LEMMA RegistrationTypedKept ==
  ASSUME RegistrationInv, RegistrationTyped, [Next]_vars
  PROVE  RegistrationTyped'
<1>1. ASSUME area = "registration", NEW p \in Requests, RegistrationNext(p)
      PROVE  RegistrationTyped'
  <2>0. /\ Sent /\ pc \in StepsAmong(RegistrationAwaits)
        /\ AccountsTyped /\ LinkTyped(p) /\ SignInAgrees(p) /\ LinkAgrees(p)
        /\ \A q \in Requests : LinkTyped(q)
    BY <1>1 DEF RegistrationTyped, RegistrationInv
  <2>. DEFINE d == Data(p)
              a == Data(p).account
  <2>1. SUFFICES Moves(p, RegistrationAwaits) /\ LinkTyped(p)' /\ AccountsTyped'
    BY <1>1, <2>0, OneLinkTyped DEF RegistrationTyped, Moves
  <2>2. pc[p] \in SignInSteps \cup TokenSteps => a \in Accounts \cup {Nobody}
    BY <2>0 DEF SignInAgrees
  <2>3. pc[p] \in SignInSteps => a \in Accounts
    BY <2>0 DEF SignInAgrees
  <2>4. UNCHANGED registrationVars => AccountsTyped'
    BY <2>0 DEF AccountsTyped, ProfileDoc, ProfileLink, RegistrationToken, registrationVars
  <2>5. ASSUME a \in Accounts, NEW i \in ProfileIds, Sign(a, i),
               UNCHANGED <<profile, link, token, unsure>>
        PROVE  AccountsTyped'
    BY <2>0, <2>5 DEF Sign, AccountsTyped, ProfileDoc, ProfileLink, RegistrationToken
  <2>6. CASE SignInWithProvider(p) \/ CreateAccountRegistrationToken(p)
    <3>1. PICK step \in {"findById", "findToken"} :
            \E about, data : Accept(p, about, step, data)
      BY <2>6 DEF SignInWithProvider, CreateAccountRegistrationToken
    <3>2. Moves(p, RegistrationAwaits) /\ pc'[p] = step
      BY <2>0, <3>1, Accepts DEF RegistrationAwaits
    <3>. QED
      BY <2>4, <2>6, <3>2
      DEF SignInWithProvider, CreateAccountRegistrationToken, LinkTyped, LinkSteps
  <2>7. CASE FindById(p)
    <3>1. a \in Accounts
      BY <2>3, <2>7 DEF FindById, At, SignInSteps
    <3>2. FoundById(a) \subseteq ProfileIds
      BY <2>0 DEF FoundById, AccountsTyped, ProfileLink
    <3>3. CASE \E i \in FoundById(a) : Sign(a, i) /\ Finish(p)
      BY <2>0, <2>5, <2>7, <3>1, <3>2, <3>3, Finishes DEF FindById, LinkTyped, LinkSteps
    <3>4. CASE Go(p, "findByEmail", d) /\ UNCHANGED reached
      BY <2>0, <2>4, <2>7, <3>4, GoesOn
      DEF FindById, RegistrationAwaits, LinkTyped, LinkSteps, registrationVars
    <3>. QED
      BY <2>7, <3>3, <3>4 DEF FindById
  <2>8. CASE FindByEmail(p)
    <3>1. a \in Accounts
      BY <2>3, <2>8 DEF FindByEmail, At, SignInSteps
    <3>2. CASE \E i \in FoundByEmail(a) :
                 /\ Sign(a, i)
                 /\ IF ProviderOf[a] = "google" THEN Finish(p)
                    ELSE Go(p, "findLink", [account |-> a, profile |-> i])
      <4>1. PICK i \in FoundByEmail(a) :
              /\ Sign(a, i)
              /\ Finish(p) \/ Go(p, "findLink", [account |-> a, profile |-> i])
        BY <3>2
      <4>2. i \in ProfileIds
        BY <2>0 DEF FoundByEmail, AccountsTyped
      <4>3. CASE Finish(p)
        BY <2>0, <2>5, <2>8, <3>1, <4>1, <4>2, <4>3, Finishes
        DEF FindByEmail, LinkTyped, LinkSteps
      <4>4. CASE Go(p, "findLink", [account |-> a, profile |-> i])
        <5>1. /\ Moves(p, RegistrationAwaits) /\ pc'[p] = "findLink"
              /\ Data(p)' = [account |-> a, profile |-> i]
          BY <2>0, <4>4, GoesOn DEF RegistrationAwaits
        <5>. QED
          BY <2>5, <2>8, <3>1, <4>1, <4>2, <5>1 DEF FindByEmail, LinkTyped
      <4>. QED
        BY <4>1, <4>3, <4>4
    <3>3. CASE Go(p, "findToken", d) /\ UNCHANGED reached
      BY <2>0, <2>4, <2>8, <3>3, GoesOn
      DEF FindByEmail, RegistrationAwaits, LinkTyped, LinkSteps, registrationVars
    <3>. QED
      BY <2>8, <3>2, <3>3 DEF FindByEmail
  <2>9. CASE FindLink(p) \/ CountLinks(p) \/ LoadLink(p)
    <3>1. d.profile \in ProfileIds
      BY <2>0, <2>9 DEF FindLink, CountLinks, LoadLink, LinkTyped, LinkSteps, At
    <3>2. \A rank : WithRank(d, rank).profile = d.profile
      BY DEF WithRank
    <3>3. Finish(p) \/ \E step \in {"countLinks", "loadLink", "writeLink"} :
                         \E data : data.profile = d.profile /\ Go(p, step, data)
      BY <2>9, <3>2 DEF FindLink, CountLinks, LoadLink
    <3>4. Moves(p, RegistrationAwaits) /\ LinkTyped(p)'
      BY <2>0, <3>1, <3>3, GoesOn, Finishes DEF RegistrationAwaits, LinkTyped, LinkSteps
    <3>. QED
      BY <2>4, <2>9, <3>4 DEF FindLink, CountLinks, LoadLink
  <2>10. CASE WriteLink(p)
    <3>1. a \in Accounts /\ d.profile \in ProfileIds /\ d.rank \in Nat
      BY <2>0, <2>3, <2>10
      DEF WriteLink, At, SignInSteps, LinkTyped, LinkSteps, LinkAgrees
    <3>2. AccountsTyped'
      BY <2>0, <2>10, <3>1
      DEF WriteLink, AccountsTyped, Put, ProfileDoc, ProfileLink, RegistrationToken
    <3>. QED
      BY <2>0, <2>10, <3>2, Finishes DEF WriteLink, LinkTyped, LinkSteps
  <2>11. CASE FindToken(p)
    <3>1. a \in Accounts \cup {Nobody}
      BY <2>2, <2>11 DEF FindToken, At, TokenSteps
    <3>2. CASE Finish(p) /\ \E t \in DOMAIN token :
                              token' = Put(token, t, [account |-> a, valid |-> TRUE])
      <4>1. AccountsTyped'
        BY <2>0, <2>11, <3>1, <3>2
        DEF FindToken, AccountsTyped, Put, ProfileDoc, ProfileLink, RegistrationToken
      <4>. QED
        BY <2>0, <3>2, <4>1, Finishes DEF LinkTyped, LinkSteps
    <3>3. CASE Go(p, "insertToken", d) /\ UNCHANGED token
      BY <2>0, <2>4, <2>11, <3>3, GoesOn
      DEF FindToken, RegistrationAwaits, LinkTyped, LinkSteps, registrationVars
    <3>. QED
      BY <2>11, <3>2, <3>3 DEF FindToken
  <2>12. CASE InsertToken(p)
    <3>1. a \in Accounts \cup {Nobody}
      BY <2>2, <2>12 DEF InsertToken, At, TokenSteps
    <3>2. AccountsTyped'
      BY <2>0, <2>12, <3>1
      DEF InsertToken, AccountsTyped, Put, ProfileDoc, ProfileLink, RegistrationToken
    <3>. QED
      BY <2>0, <2>12, <3>2, Finishes DEF InsertToken, LinkTyped, LinkSteps
  <2>13. CASE SubmitAccountRegistration(p)
    <3>1. PICK t \in DOMAIN token :
            /\ token' = [s \in DOMAIN token \ {t} |-> token[s]]
            /\ \E about, data : Accept(p, about, "createProfile", data)
      BY <2>13 DEF SubmitAccountRegistration
    <3>2. AccountsTyped'
      BY <2>0, <2>13, <3>1
      DEF SubmitAccountRegistration, AccountsTyped, ProfileDoc, ProfileLink, RegistrationToken
    <3>. QED
      BY <2>0, <3>1, <3>2, Accepts DEF RegistrationAwaits, LinkTyped, LinkSteps
  <2>14. CASE CreateProfile(p)
    <3>1. a \in Accounts \cup {Nobody}
      BY <2>2, <2>14 DEF CreateProfile, At, TokenSteps
    <3>2. PICK i \in ProfileIds :
            /\ profile' = Put(profile, i, [account |-> a, emails |-> EmailsOf(a)])
            /\ reached' = [b \in Accounts |-> IF b = a THEN reached[b] \cup {i} ELSE reached[b]]
      BY <2>14 DEF CreateProfile
    <3>3. /\ DOMAIN profile' \subseteq ProfileIds
          /\ \A j \in DOMAIN profile' : profile'[j] \in ProfileDoc
      BY <2>0, <3>1, <3>2, EmailsAreEmails DEF AccountsTyped, Put, ProfileDoc
    <3>4. reached' \in [Accounts -> SUBSET ProfileIds]
      BY <2>0, <3>2 DEF AccountsTyped
    <3>5. unsure' \subseteq Accounts
      BY <2>0, <2>14 DEF CreateProfile, AccountsTyped, NewlyUnsure
    <3>6. AccountsTyped'
      BY <2>0, <2>14, <3>3, <3>4, <3>5
      DEF CreateProfile, AccountsTyped, ProfileLink, RegistrationToken
    <3>. QED
      BY <2>0, <2>14, <3>6, Finishes DEF CreateProfile, LinkTyped, LinkSteps
  <2>15. CASE UpdateContactInfo(p)
    <3>1. PICK i \in DOMAIN profile, emails \in SUBSET Emails :
            /\ profile' = Put(profile, i, [account |-> profile[i].account, emails |-> emails])
            /\ \E changed : unsure' = unsure \cup NewlyUnsure(changed)
            /\ \E about : Serve(p, about)
      BY <2>15 DEF UpdateContactInfo
    <3>2. \A j \in DOMAIN profile' : j \in ProfileIds /\ profile'[j] \in ProfileDoc
      BY <2>0, <3>1 DEF AccountsTyped, Put, ProfileDoc
    <3>3. AccountsTyped'
      BY <2>0, <2>15, <3>1, <3>2
      DEF UpdateContactInfo, AccountsTyped, NewlyUnsure, ProfileLink, RegistrationToken
    <3>. QED
      BY <2>0, <3>1, <3>3, Finishes DEF LinkTyped, LinkSteps
  <2>. QED
    BY <1>1, <2>6, <2>7, <2>8, <2>9, <2>10, <2>11, <2>12, <2>13, <2>14, <2>15
    DEF RegistrationNext
<1>2. ASSUME UNCHANGED registrationVars, NEW p \in Requests, Die(p)
      PROVE  RegistrationTyped'
  <2>1. area = "registration" => Moves(p, RegistrationAwaits) /\ LinkTyped(p)'
    BY <1>2, Finishes DEF RegistrationTyped, RegistrationInv, LinkTyped, LinkSteps
  <2>. QED
    BY <1>2, <2>1, OneLinkTyped
    DEF RegistrationTyped, AccountsTyped, ProfileDoc, ProfileLink, RegistrationToken, Moves,
      Die, registrationVars
<1>3. CASE area # "registration" /\ UNCHANGED <<area, registrationVars>>
  BY <1>3 DEF RegistrationTyped, AccountsTyped, ProfileDoc, ProfileLink, RegistrationToken,
    registrationVars
<1>4. CASE UNCHANGED <<serverVars, registrationVars>>
  BY <1>4 DEF RegistrationTyped, AccountsTyped, ProfileDoc, ProfileLink, RegistrationToken,
    LinkTyped, Data, serverVars, registrationVars
<1>5. CASE ExpireToken
  BY <1>5 DEF ExpireToken, RegistrationTyped, AccountsTyped, Put, ProfileDoc, ProfileLink,
    RegistrationToken, LinkTyped, Data, serverVars
<1>. QED
  BY <1>1, <1>2, <1>3, <1>4, <1>5, RegistrationSteps

(***************************************************************************)
(* Members                                                                 *)
(***************************************************************************)

UserTyped(p) ==
  /\ pc[p] \in {"countUsers", "findUsername", "createUser"} => Data(p).profile \in People
  /\ At(p, "findUsername") => Data(p).next \in Nat \ {0}
  /\ At(p, "createUser") => Data(p).username \in Usernames

MembersTyped ==
  /\ localUsers \subseteq Usernames \X People
  /\ area = "members" =>
       pc \in StepsAmong(MembersAwaits) /\ \A p \in Requests : UserTyped(p)

LEMMA MembersAreTyped == MembersInv /\ MembersTyped => MembersTypeOK
BY DEF MembersInv, StudentsAreRows, MembersTyped, MembersTypeOK

LEMMA OneUserTyped ==
  ASSUME \A q \in Requests : UserTyped(q), NEW p \in Requests, Others(p), UserTyped(p)'
  PROVE  (\A q \in Requests : UserTyped(q))'
BY DEF UserTyped, Others, At, Data

LEMMA MembersTypedAtFirst == Init => MembersTyped
<1>. SUFFICES ASSUME Init  PROVE MembersTyped
  OBVIOUS
<1>1. pc = [p \in Requests |-> "new"]
  BY DEF Init, InitRequests
<1>2. localUsers \subseteq Usernames \X People
  BY MembersAssumption DEF Init, InitMembers
<1>. QED
  BY <1>1, <1>2 DEF MembersTyped, UserTyped, StepsAmong, At

LEMMA MembersTypedKept ==
  ASSUME MembersInv, MembersTyped, [Next]_vars
  PROVE  MembersTyped'
<1>. DEFINE Named == localUsers \subseteq Usernames \X People
<1>0. Named
  BY DEF MembersTyped
<1>. HIDE DEF Named
<1>1. ASSUME area = "members", NEW p \in Requests, MembersNext(p)
      PROVE  MembersTyped'
  <2>0. /\ Sent /\ pc \in StepsAmong(MembersAwaits)
        /\ UserTyped(p) /\ MemberAgrees(p)
        /\ \A q \in Requests : UserTyped(q)
    BY <1>1 DEF MembersTyped, MembersInv
  <2>. DEFINE d == Data(p)
  <2>1. SUFFICES Moves(p, MembersAwaits) /\ UserTyped(p)' /\ Named'
    BY <1>1, <2>0, OneUserTyped DEF MembersTyped, Moves, Named
  <2>2. UNCHANGED memberVars => Named'
    BY <1>0 DEF memberVars, Named
  <2>3. CASE UpdateNudStudent(p)
    <3>1. PICK about, data : Accept(p, about, "readStudents", data)
      BY <2>3 DEF UpdateNudStudent
    <3>. QED
      BY <2>0, <2>2, <2>3, <3>1, Accepts DEF UpdateNudStudent, MembersAwaits, UserTyped, At
  <2>4. CASE ReadStudents(p)
    <3>1. PICK data : Go(p, "readStudents", data)
      BY <2>4 DEF ReadStudents
    <3>. QED
      BY <2>0, <2>2, <2>4, <3>1, GoesOn DEF ReadStudents, MembersAwaits, UserTyped, At
  <2>5. CASE CheckStudent(p)
    <3>1. Finish(p) \/ \E data : Go(p, "saveStudent", data)
      BY <2>5 DEF CheckStudent
    <3>. QED
      BY <2>0, <2>2, <2>5, <3>1, GoesOn, Finishes
      DEF CheckStudent, MembersAwaits, UserTyped, At
  <2>6. CASE SaveStudent(p)
    BY <1>0, <2>0, <2>6, Finishes DEF SaveStudent, UserTyped, At, Named
  <2>7. CASE RequestLocalUser(p)
    <3>1. PICK who \in People : \E about : Accept(p, about, "countUsers", [profile |-> who])
      BY <2>7 DEF RequestLocalUser
    <3>2. /\ Moves(p, MembersAwaits) /\ pc'[p] = "countUsers"
          /\ Data(p)' = [profile |-> who]
      BY <2>0, <3>1, Accepts DEF MembersAwaits
    <3>. QED
      BY <2>2, <2>7, <3>2 DEF RequestLocalUser, UserTyped, At
  <2>8. CASE CountUsers(p)
    <3>1. d.profile \in People
      BY <2>0, <2>8 DEF CountUsers, UserTyped, At
    <3>2. CASE Finish(p)
      BY <2>0, <2>2, <2>8, <3>2, Finishes DEF CountUsers, UserTyped, At
    <3>3. CASE Go(p, "findUsername", [profile |-> d.profile, next |-> 1])
      <4>1. /\ Moves(p, MembersAwaits) /\ pc'[p] = "findUsername"
            /\ Data(p)' = [profile |-> d.profile, next |-> 1]
        BY <2>0, <3>3, GoesOn DEF MembersAwaits
      <4>. QED
        BY <2>2, <2>8, <3>1, <4>1 DEF CountUsers, UserTyped, At
    <3>. QED
      BY <2>8, <3>2, <3>3 DEF CountUsers
  <2>9. CASE FindUsername(p)
    <3>. DEFINE names == Candidates[d.profile]
    <3>1. /\ d = [profile |-> d.profile, next |-> d.next]
          /\ d.profile \in People /\ d.next \in Nat \ {0}
      BY <2>0, <2>9 DEF FindUsername, UserTyped, MemberAgrees, At
    <3>2. names \in Seq(Usernames)
      BY <3>1, MembersAssumption
    <3>3. CASE Finish(p)
      BY <2>0, <2>2, <2>9, <3>3, Finishes DEF FindUsername, UserTyped, At
    <3>4. CASE Go(p, "findUsername", [d EXCEPT !.next = d.next + 1])
      <4>1. [d EXCEPT !.next = d.next + 1] = [profile |-> d.profile, next |-> d.next + 1]
        BY <3>1
      <4>2. /\ Moves(p, MembersAwaits) /\ pc'[p] = "findUsername"
            /\ Data(p)' = [profile |-> d.profile, next |-> d.next + 1]
        BY <2>0, <3>4, <4>1, GoesOn DEF MembersAwaits
      <4>. QED
        BY <2>2, <2>9, <3>1, <4>2 DEF FindUsername, UserTyped, At
    <3>5. CASE /\ ~ d.next > Len(names)
               /\ Go(p, "createUser", [profile |-> d.profile, username |-> names[d.next]])
      <4>1. names[d.next] \in Usernames
        BY <3>1, <3>2, <3>5
      <4>2. /\ Moves(p, MembersAwaits) /\ pc'[p] = "createUser"
            /\ Data(p)' = [profile |-> d.profile, username |-> names[d.next]]
        BY <2>0, <3>5, GoesOn DEF MembersAwaits
      <4>. QED
        BY <2>2, <2>9, <3>1, <4>1, <4>2 DEF FindUsername, UserTyped, At
    <3>. QED
      BY <2>9, <3>3, <3>4, <3>5 DEF FindUsername
  <2>10. CASE CreateUser(p)
    <3>1. d.profile \in People /\ d.username \in Usernames
      BY <2>0, <2>10 DEF CreateUser, UserTyped, At
    <3>2. Named'
      BY <1>0, <2>10, <3>1 DEF CreateUser, Named
    <3>. QED
      BY <2>0, <2>10, <3>2, Finishes DEF CreateUser, UserTyped, At
  <2>. QED
    BY <1>1, <2>3, <2>4, <2>5, <2>6, <2>7, <2>8, <2>9, <2>10 DEF MembersNext
<1>2. ASSUME UNCHANGED memberVars, NEW p \in Requests, Die(p)  PROVE MembersTyped'
  <2>1. area = "members" => Moves(p, MembersAwaits) /\ UserTyped(p)'
    BY <1>2, Finishes DEF MembersTyped, MembersInv, UserTyped, At
  <2>. QED
    BY <1>2, <2>1, OneUserTyped DEF MembersTyped, Moves, Die, memberVars
<1>3. CASE area # "members" /\ UNCHANGED <<area, memberVars>>
  BY <1>3 DEF MembersTyped, memberVars
<1>4. CASE UNCHANGED <<serverVars, memberVars>>
  BY <1>4 DEF MembersTyped, UserTyped, At, Data, serverVars, memberVars
<1>. QED
  BY <1>1, <1>2, <1>3, <1>4, MembersSteps

(***************************************************************************)
(* DiscordSync                                                             *)
(***************************************************************************)

(* There is a newest year: the one with the fewest years after it. *)
LEMMA NewestIs ==
  ASSUME NEW years \in SUBSET TeamYears, years # {}
  PROVE  Newest(years) \in years
<1>. DEFINE After(y) == {z \in years : z > y}
            Afters == {After(y) : y \in years}
<1>1. IsFiniteSet(years) /\ \A y \in years : y \in Nat
  BY DiscordAssumption, FS_Subset
<1>2. Afters \subseteq FiniteSubsetsOf(years) /\ Afters # {}
  <2>1. \A y \in years : After(y) \in SUBSET years
    OBVIOUS
  <2>2. \A y \in years : IsFiniteSet(After(y))
    BY <1>1, <2>1, FS_Subset
  <2>. QED
    BY <2>1, <2>2 DEF FiniteSubsetsOf
<1>3. IsWellFoundedOn(StrictSubsetOrdering(years), FiniteSubsetsOf(years))
  BY FS_StrictSubsetOrderingWellFounded
<1>4. PICK least \in Afters :
        \A after \in Afters : <<after, least>> \notin StrictSubsetOrdering(years)
  <2>. HIDE DEF Afters
  <2>. QED
    BY <1>2, <1>3, WFMin
<1>5. PICK y \in years : least = After(y)
  BY <1>4
<1>6. ASSUME NEW z \in years, z > y  PROVE FALSE
  <2>1. After(z) \in SUBSET years /\ After(y) \in SUBSET years
    OBVIOUS
  <2>2. After(z) \subseteq After(y)
    BY <1>1, <1>6
  <2>3. z \in After(y) /\ z \notin After(z)
    BY <1>1, <1>6
  <2>4. <<After(z), After(y)>> \in StrictSubsetOrdering(years)
    BY <2>1, <2>2, <2>3 DEF StrictSubsetOrdering
  <2>. QED
    BY <1>4, <1>5, <2>4
<1>7. \A z \in years : z <= y
  BY <1>1, <1>6
<1>. QED
  BY <1>7 DEF Newest

LEMMA LatestTeamIs ==
  ASSUME NEW teams \in [TeamYears -> Teams \cup {Outsider}]
  PROVE  LatestTeam(teams) \in Teams \cup {Outsider}
<1>1. CASE YearsIn(teams) = {}
  BY <1>1 DEF LatestTeam, Newest
<1>2. CASE YearsIn(teams) # {}
  <2>1. YearsIn(teams) \in SUBSET TeamYears
    BY DEF YearsIn
  <2>2. Newest(YearsIn(teams)) \in TeamYears
    BY <1>2, <2>1, NewestIs
  <2>. QED
    BY <2>2 DEF LatestTeam
<1>. QED
  BY <1>1, <1>2

SyncTyped(p) ==
  /\ At(p, "setNickname") => Data(p).emoji \in Teams \cup {Outsider}
  /\ At(p, "readSync") =>
       ("roles" \in DOMAIN Data(p) => DOMAIN Data(p)["roles"] \subseteq DOMAIN guild)
  /\ At(p, "changeRoles") => Data(p).add \subseteq DOMAIN guild
  /\ At(p, "createRoles") => Data(p).names \subseteq SyncedNames

GuildTyped ==
  /\ teamOf \in [TeamYears -> Teams \cup {Outsider}]
  /\ DOMAIN guild \subseteq RoleIds
  /\ \A r \in DOMAIN guild : guild[r] \in RoleNames
  /\ DOMAIN cache \subseteq DOMAIN guild
  /\ held \subseteq DOMAIN guild
  /\ emoji \in Teams \cup {Outsider}
  /\ stale \in BOOLEAN /\ synced \in BOOLEAN

DiscordTyped ==
  /\ GuildTyped
  /\ area = "discord" =>
       pc \in StepsAmong(DiscordAwaits) /\ \A p \in Requests : SyncTyped(p)

LEMMA DiscordIsTyped == DiscordTyped => DiscordTypeOK
BY DEF DiscordTyped, GuildTyped, DiscordTypeOK

LEMMA OneSyncTyped ==
  ASSUME \A q \in Requests : SyncTyped(q), NEW p \in Requests, Others(p), SyncTyped(p)',
         DOMAIN guild \subseteq DOMAIN guild'
  PROVE  (\A q \in Requests : SyncTyped(q))'
<1>. SUFFICES ASSUME NEW q \in Requests, q # p  PROVE SyncTyped(q)'
  OBVIOUS
<1>1. pc'[q] = pc[q] /\ Data(q)' = Data(q) /\ SyncTyped(q)
  BY DEF Others, Data
<1>. QED
  BY <1>1 DEF SyncTyped, At

LEMMA DiscordTypedAtFirst == Init => DiscordTyped
<1>. SUFFICES ASSUME InitRequests, InitDiscord  PROVE DiscordTyped
  BY DEF Init
<1>1. cache = <<>> /\ stale = FALSE /\ synced = FALSE /\ emoji = Outsider
  BY DEF InitDiscord
<1>2. teamOf \in [TeamYears -> Teams \cup {Outsider}]
  BY DiscordAssumption DEF InitDiscord
<1>3. guild \in OldGuilds \cup {<<>>} /\ held \subseteq DOMAIN guild
  BY DEF InitDiscord
<1>4. DOMAIN guild \subseteq RoleIds /\ \A r \in DOMAIN guild : guild[r] \in RoleNames
  BY <1>3, DiscordAssumption
<1>5. DOMAIN cache = {}
  BY <1>1
<1>6. GuildTyped
  BY <1>1, <1>2, <1>3, <1>4, <1>5 DEF GuildTyped
<1>7. pc \in StepsAmong(DiscordAwaits) /\ \A p \in Requests : SyncTyped(p)
  BY DEF InitRequests, StepsAmong, SyncTyped, At
<1>. QED
  BY <1>6, <1>7 DEF DiscordTyped

LEMMA DiscordTypedKept ==
  ASSUME DiscordInv, DiscordTyped, [Next]_vars
  PROVE  DiscordTyped'
<1>0. GuildTyped
  BY DEF DiscordTyped
<1>1. ASSUME area = "discord", NEW p \in Requests, DiscordNext(p)
      PROVE  DiscordTyped'
  <2>0. /\ Sent /\ pc \in StepsAmong(DiscordAwaits)
        /\ AboutMember(p) /\ SyncTyped(p)
        /\ \A q \in Requests : SyncTyped(q)
    BY <1>1 DEF DiscordTyped, DiscordInv
  <2>. DEFINE d == Data(p)
              GuildGrows == DOMAIN guild \subseteq DOMAIN guild'
  <2>1. SUFFICES Moves(p, DiscordAwaits) /\ SyncTyped(p)' /\ GuildTyped' /\ GuildGrows
    BY <1>1, <2>0, OneSyncTyped DEF DiscordTyped, Moves
  <2>2. UNCHANGED discordVars => GuildTyped' /\ GuildGrows
    BY <1>0 DEF GuildTyped, RoleNames, SyncedNames, discordVars
  <2>3. ASSUME UNCHANGED guild, stale' \in BOOLEAN, synced' \in BOOLEAN,
               teamOf' \in [TeamYears -> Teams \cup {Outsider}],
               DOMAIN cache' \subseteq DOMAIN guild, held' \subseteq DOMAIN guild,
               emoji' \in Teams \cup {Outsider}
        PROVE  GuildTyped' /\ GuildGrows
    BY <1>0, <2>3 DEF GuildTyped, RoleNames, SyncedNames
  <2>4. CASE TriggerProfileSync(p)
    <3>1. stale' \in BOOLEAN /\ synced' \in BOOLEAN
      BY <2>4 DEF TriggerProfileSync
    <3>2. GuildTyped' /\ GuildGrows
      BY <1>0, <2>3, <2>4, <3>1 DEF TriggerProfileSync, GuildTyped
    <3>. QED
      BY <2>0, <2>4, <3>2, Accepts DEF TriggerProfileSync, DiscordAwaits, SyncTyped, At
  <2>5. CASE GetNickName(p)
    <3>1. LatestTeam(teamOf) \in Teams \cup {Outsider}
      BY <1>0, LatestTeamIs DEF GuildTyped
    <3>2. /\ Moves(p, DiscordAwaits) /\ pc'[p] = "setNickname"
          /\ Data(p)' = [emoji |-> LatestTeam(teamOf)]
      BY <2>0, <2>5, GoesOn DEF GetNickName, DiscordAwaits
    <3>. QED
      BY <2>2, <2>5, <3>1, <3>2 DEF GetNickName, SyncTyped, At
  <2>6. CASE SetNickname(p)
    <3>1. d.emoji \in Teams \cup {Outsider}
      BY <2>0, <2>6 DEF SetNickname, SyncTyped
    <3>2. GuildTyped' /\ GuildGrows
      BY <1>0, <2>3, <2>6, <3>1 DEF SetNickname, GuildTyped
    <3>3. Moves(p, DiscordAwaits) /\ pc'[p] = "readSync" /\ Data(p)' = <<>>
      BY <2>0, <2>6, GoesOn DEF SetNickname, DiscordAwaits
    <3>. QED
      BY <3>2, <3>3 DEF SyncTyped, At
  <2>7. CASE ReadSync(p)
    <3>1. PICK query, result :
            /\ Go(p, "readSync", Put(d, query, result))
            /\ \/ /\ query \in {"latest", "teams", "held"} /\ UNCHANGED <<cache, stale>>
               \/ /\ query = "roles" /\ result \in {guild, cache}
                  /\ GetRoles(result)
                  /\ stale' = (stale \/ result # guild)
      BY <2>7 DEF ReadSync
    <3>2. DOMAIN cache \subseteq DOMAIN guild /\ stale \in BOOLEAN
      BY <1>0 DEF GuildTyped
    <3>3. DOMAIN cache' \subseteq DOMAIN guild
      BY <3>1, <3>2 DEF GetRoles
    <3>4. stale' \in BOOLEAN
      BY <3>1, <3>2
    <3>5. GuildTyped' /\ GuildGrows
      BY <1>0, <2>3, <2>7, <3>3, <3>4 DEF ReadSync, GuildTyped
    <3>6. /\ Moves(p, DiscordAwaits) /\ pc'[p] = "readSync"
          /\ Data(p)' = Put(d, query, result)
      BY <2>0, <3>1, GoesOn DEF DiscordAwaits
    <3>7. "roles" \in DOMAIN d => DOMAIN d["roles"] \subseteq DOMAIN guild
      BY <2>0, <2>7 DEF ReadSync, SyncTyped
    <3>8. "roles" \in DOMAIN Put(d, query, result) =>
            DOMAIN Put(d, query, result)["roles"] \subseteq DOMAIN guild
      <4>1. CASE query = "roles"
        BY <3>1, <3>2, <4>1 DEF Put
      <4>2. CASE query # "roles"
        BY <3>7, <4>2 DEF Put
      <4>. QED
        BY <4>1, <4>2
    <3>9. guild' = guild
      BY <2>7 DEF ReadSync
    <3>. QED
      BY <3>5, <3>6, <3>8, <3>9 DEF SyncTyped, At
  <2>8. CASE MemberNotFound(p) \/ EndGuildRoles(p)
    BY <2>0, <2>2, <2>8, Finishes DEF MemberNotFound, EndGuildRoles, SyncTyped, At
  <2>9. CASE PlanSync(p)
    <3>. DEFINE target == Target(d.teams, d.latest, d.roles)
                add == target \ d.held
                remove == (SyncedRoles(d.roles) \cap d.held) \ target
    <3>1. DOMAIN d["roles"] \subseteq DOMAIN guild
      BY <2>0, <2>9 DEF PlanSync, SyncTyped
    <3>2. add \subseteq DOMAIN d["roles"]
      BY DEF Target, SyncedRoles
    <3>. HIDE DEF add, remove
    <3>3. Go(p, "changeRoles", [add |-> add, remove |-> remove])
      BY <2>9 DEF PlanSync, add, remove
    <3>4. /\ Moves(p, DiscordAwaits) /\ pc'[p] = "changeRoles"
          /\ Data(p)' = [add |-> add, remove |-> remove]
      BY <2>0, <3>3, GoesOn DEF DiscordAwaits
    <3>. QED
      BY <2>2, <2>9, <3>1, <3>2, <3>4 DEF PlanSync, SyncTyped, At
  <2>10. CASE AddRole(p) \/ RemoveRole(p)
    <3>1. d = [add |-> d.add, remove |-> d.remove] /\ d.add \subseteq DOMAIN guild
      BY <2>0, <2>10 DEF AddRole, RemoveRole, AboutMember, SyncTyped, At
    <3>2. PICK add, remove :
            /\ add \subseteq d.add
            /\ Go(p, "changeRoles", [add |-> add, remove |-> remove])
      <4>1. ASSUME NEW r  PROVE /\ [d EXCEPT !.add = d.add \ {r}] = [add |-> d.add \ {r}, remove |-> d.remove]
                                /\ [d EXCEPT !.remove = d.remove \ {r}] = [add |-> d.add, remove |-> d.remove \ {r}]
        BY <3>1
      <4>2. \E r : \/ Go(p, "changeRoles", [d EXCEPT !.add = d.add \ {r}])
                   \/ Go(p, "changeRoles", [d EXCEPT !.remove = d.remove \ {r}])
        <5>1. CASE AddRole(p)
          BY <5>1 DEF AddRole
        <5>2. CASE RemoveRole(p)
          BY <5>2 DEF RemoveRole
        <5>. QED  BY <2>10, <5>1, <5>2
      <4>3. PICK r : \/ Go(p, "changeRoles", [add |-> d.add \ {r}, remove |-> d.remove])
                     \/ Go(p, "changeRoles", [add |-> d.add, remove |-> d.remove \ {r}])
        BY <4>1, <4>2
      <4>. QED
        BY <4>3
    <3>3. held' \subseteq DOMAIN guild /\ stale' \in BOOLEAN
      BY <1>0, <2>10, <3>1 DEF AddRole, RemoveRole, GuildTyped
    <3>4. GuildTyped' /\ GuildGrows
      BY <1>0, <2>3, <2>10, <3>3 DEF AddRole, RemoveRole, GuildTyped
    <3>5. /\ Moves(p, DiscordAwaits) /\ pc'[p] = "changeRoles"
          /\ Data(p)' = [add |-> add, remove |-> remove]
      BY <2>0, <3>2, GoesOn DEF DiscordAwaits
    <3>6. guild' = guild
      BY <2>10 DEF AddRole, RemoveRole
    <3>. QED
      BY <3>1, <3>2, <3>4, <3>5, <3>6 DEF SyncTyped, At
  <2>11. CASE EndSync(p)
    <3>1. GuildTyped' /\ GuildGrows
      BY <1>0, <2>3, <2>11 DEF EndSync, GuildTyped
    <3>. QED
      BY <2>0, <2>11, <3>1, Finishes DEF EndSync, SyncTyped, At
  <2>12. CASE SyncGuildRoles(p)
    <3>1. PICK roles \in {guild, cache} :
            /\ GetRoles(roles)
            /\ Accept(p, {<<"guild">>}, "createRoles",
                      [names |-> SyncedNames \ {roles[r] : r \in DOMAIN roles}])
      BY <2>12 DEF SyncGuildRoles
    <3>2. DOMAIN cache' \subseteq DOMAIN guild
      BY <1>0, <3>1 DEF GetRoles, GuildTyped
    <3>3. GuildTyped' /\ GuildGrows
      BY <1>0, <2>3, <2>12, <3>2 DEF SyncGuildRoles, GuildTyped
    <3>. DEFINE names == SyncedNames \ {roles[r] : r \in DOMAIN roles}
    <3>4. names \subseteq SyncedNames
      OBVIOUS
    <3>. HIDE DEF names
    <3>5. /\ Moves(p, DiscordAwaits) /\ pc'[p] = "createRoles"
          /\ Data(p)' = [names |-> names]
      <4>1. Accept(p, {<<"guild">>}, "createRoles", [names |-> names])
        BY <3>1 DEF names
      <4>. QED
        BY <2>0, <4>1, Accepts DEF DiscordAwaits
    <3>6. SyncedNames' = SyncedNames
      BY DEF SyncedNames
    <3>. QED
      BY <3>3, <3>4, <3>5, <3>6 DEF SyncTyped, At
  <2>13. CASE CreateRole(p)
    <3>1. PICK name \in d.names :
            /\ \/ /\ \E r \in RoleIds \ DOMAIN guild : guild' = Put(guild, r, name)
                  /\ Overtaken
               \/ UNCHANGED <<guild, stale, synced>>
            /\ Go(p, "createRoles", [names |-> d.names \ {name}])
      BY <2>13 DEF CreateRole
    <3>2. d.names \subseteq SyncedNames
      BY <2>0, <2>13 DEF CreateRole, SyncTyped
    <3>3. stale' \in BOOLEAN /\ synced' \in BOOLEAN
      BY <1>0, <3>1 DEF Overtaken, GuildTyped
    <3>4. /\ GuildGrows /\ DOMAIN guild' \subseteq RoleIds
          /\ \A r \in DOMAIN guild' : guild'[r] \in RoleNames
      BY <1>0, <3>1, <3>2 DEF Put, GuildTyped, RoleNames
    <3>5. GuildTyped'
      BY <1>0, <2>13, <3>3, <3>4 DEF CreateRole, GuildTyped, RoleNames, SyncedNames
    <3>6. /\ Moves(p, DiscordAwaits) /\ pc'[p] = "createRoles"
          /\ Data(p)' = [names |-> d.names \ {name}]
      BY <2>0, <3>1, GoesOn DEF DiscordAwaits
    <3>7. SyncedNames' = SyncedNames
      BY DEF SyncedNames
    <3>. QED
      BY <3>2, <3>4, <3>5, <3>6, <3>7 DEF SyncTyped, At
  <2>14. CASE ChangeTeams(p)
    <3>1. stale' \in BOOLEAN /\ synced' \in BOOLEAN
      BY <1>0, <2>14 DEF ChangeTeams, Overtaken, GuildTyped
    <3>2. GuildTyped' /\ GuildGrows
      BY <1>0, <2>3, <2>14, <3>1 DEF ChangeTeams, GuildTyped
    <3>. QED
      BY <2>0, <2>14, <3>2, Finishes DEF ChangeTeams, SyncTyped, At
  <2>. QED
    BY <1>1, <2>4, <2>5, <2>6, <2>7, <2>8, <2>9, <2>10, <2>11, <2>12, <2>13, <2>14
    DEF DiscordNext
<1>2. ASSUME UNCHANGED discordVars, NEW p \in Requests, Die(p)  PROVE DiscordTyped'
  <2>1. area = "discord" => Moves(p, DiscordAwaits) /\ SyncTyped(p)'
    BY <1>2, Finishes DEF DiscordTyped, DiscordInv, SyncTyped, At
  <2>2. GuildTyped' /\ guild' = guild
    BY <1>0, <1>2 DEF GuildTyped, RoleNames, SyncedNames, discordVars
  <2>. QED
    BY <1>2, <2>1, <2>2, OneSyncTyped DEF DiscordTyped, Moves, Die
<1>3. CASE area # "discord" /\ UNCHANGED <<area, discordVars>>
  BY <1>0, <1>3 DEF DiscordTyped, GuildTyped, RoleNames, SyncedNames, discordVars
<1>4. CASE UNCHANGED <<serverVars, discordVars>>
  <2>1. GuildTyped'
    BY <1>0, <1>4 DEF GuildTyped, RoleNames, SyncedNames, discordVars
  <2>2. \A p \in Requests : SyncTyped(p) => SyncTyped(p)'
    BY <1>4 DEF SyncTyped, SyncedNames, At, Data, serverVars, discordVars
  <2>. QED
    BY <1>4, <2>1, <2>2 DEF DiscordTyped, serverVars
<1>5. CASE ExpireCache
  <2>1. GuildTyped'
    BY <1>0, <1>5 DEF ExpireCache, GuildTyped, RoleNames, SyncedNames
  <2>2. \A p \in Requests : SyncTyped(p) => SyncTyped(p)'
    BY <1>5 DEF ExpireCache, SyncTyped, SyncedNames, At, Data, serverVars
  <2>. QED
    BY <1>5, <2>1, <2>2 DEF ExpireCache, DiscordTyped, serverVars
<1>. QED
  BY <1>1, <1>2, <1>3, <1>4, <1>5, DiscordSteps

(***************************************************************************)
(* Forms                                                                   *)
(***************************************************************************)

FormRowsTyped ==
  /\ DOMAIN role \subseteq FormRoles
  /\ \A r \in DOMAIN role : role[r] \in RecruitRole
  /\ DOMAIN question \subseteq Questions
  /\ \A q \in DOMAIN question : question[q] \in FormCollections
  /\ DOMAIN answer \subseteq Applicants \X DOMAIN question
  /\ \A k \in DOMAIN answer : answer[k] \in RecruitFormAnswer
  /\ chosen \in [Applicants -> SUBSET FormRoles]
  /\ booked \subseteq Applicants /\ interviewed \subseteq Applicants
  /\ revised \subseteq Applicants \cup Requests
  /\ said \in [Applicants \X Questions -> Texts \cup {Unanswered}]

FormTyped(p) ==
  At(p, "writeAnswers") => \A q \in DOMAIN Data(p).ids : Data(p).ids[q] \in AnswerIds

FormsTyped ==
  /\ FormRowsTyped
  /\ area = "forms" =>
       pc \in StepsAmong(FormsAwaits) /\ \A p \in Requests : FormTyped(p)

LEMMA FormsAreTyped == FormsTyped => FormsTypeOK
BY DEF FormsTyped, FormRowsTyped, FormsTypeOK

LEMMA OneFormTyped ==
  ASSUME \A q \in Requests : FormTyped(q), NEW p \in Requests, Others(p), FormTyped(p)'
  PROVE  (\A q \in Requests : FormTyped(q))'
BY DEF FormTyped, Others, At, Data

LEMMA FormsTypedAtFirst == Init => FormsTyped
<1>. SUFFICES ASSUME InitRequests, InitForms  PROVE FormsTyped
  BY DEF Init
<1>1. pc \in StepsAmong(FormsAwaits) /\ \A p \in Requests : FormTyped(p)
  BY DEF InitRequests, StepsAmong, FormTyped, At
<1>2. CASE area # "forms"
  <2>1. /\ role = <<>> /\ question = <<>> /\ answer = <<>> /\ booked = {} /\ interviewed = {}
        /\ revised = {}
        /\ chosen = [a \in Applicants |-> {}]
        /\ said = [k \in Applicants \X Questions |-> Unanswered]
    BY <1>2 DEF InitForms
  <2>2. DOMAIN role = {} /\ DOMAIN question = {} /\ DOMAIN answer = {}
    BY <2>1
  <2>. QED
    BY <1>2, <2>1, <2>2 DEF FormsTyped, FormRowsTyped
<1>3. CASE area = "forms"
  <2>. DEFINE Start(form, old, text) ==
              /\ role = form.role /\ question = form.question
              /\ chosen \in [Applicants -> SUBSET {r \in DOMAIN role : ~role[r].mandatory}]
              /\ \E id \in [old -> 1..Cardinality(old)] :
                   /\ \A k, l \in old : id[k] = id[l] => k = l
                   /\ answer = [k \in old |-> [id |-> id[k], text |-> text]]
              /\ said = [k \in Applicants \X Questions |-> IF k \in old THEN text ELSE Unanswered]
              /\ booked \in SUBSET {a \in Applicants : chosen[a] # {} /\
                   \A c \in MandatoryCollections \cup SelectedCollections(a) : IsCompleted(a, c)}
              /\ interviewed \in SUBSET Applicants /\ revised = {}
  <2>1. \E form \in OldForms : \E old \in SUBSET (Applicants \X DOMAIN form.question) :
          \E text \in Texts \ Meaningless : Start(form, old, text)
    BY <1>3 DEF InitForms
  <2>. HIDE DEF Start
  <2>2. PICK form \in OldForms : \E old \in SUBSET (Applicants \X DOMAIN form.question) :
          \E text \in Texts \ Meaningless : Start(form, old, text)
    BY <2>1
  <2>. DEFINE all == Applicants \X DOMAIN form.question
  <2>3. PICK old \in SUBSET all : \E text \in Texts \ Meaningless : Start(form, old, text)
    BY <2>2
  <2>3a. PICK text \in Texts \ Meaningless : Start(form, old, text)
    BY <2>3
  <2>. USE DEF Start
  <2>4. PICK id \in [old -> 1..Cardinality(old)] :
          answer = [k \in old |-> [id |-> id[k], text |-> text]]
    BY <2>3a
  <2>5. /\ DOMAIN form.role \subseteq FormRoles
        /\ \A r \in DOMAIN form.role : form.role[r] \in RecruitRole
        /\ IsFiniteSet(DOMAIN form.question) /\ DOMAIN form.question \subseteq Questions
        /\ \A q \in DOMAIN form.question : form.question[q] \in FormCollections
        /\ 1..Cardinality(all) \subseteq AnswerIds /\ IsFiniteSet(Applicants)
    BY FormsAssumption
  <2>6. IsFiniteSet(all)
    BY <2>5, FS_Product
  <2>7. /\ Cardinality(old) \in Nat /\ Cardinality(all) \in Nat
        /\ Cardinality(old) <= Cardinality(all)
    BY <2>6, FS_Subset, FS_CardinalityType
  <2>8. \A k \in old : id[k] \in AnswerIds
    BY <2>5, <2>7
  <2>9. DOMAIN answer = old /\ \A k \in old : answer[k] \in RecruitFormAnswer
    BY <2>4, <2>8 DEF RecruitFormAnswer
  <2>10. chosen \in [Applicants -> SUBSET FormRoles]
    BY <2>3a, <2>5
  <2>11. said \in [Applicants \X Questions -> Texts \cup {Unanswered}]
    BY <2>3a
  <2>12. FormRowsTyped
    BY <2>3a, <2>5, <2>9, <2>10, <2>11 DEF FormRowsTyped
  <2>. QED
    BY <1>1, <2>12 DEF FormsTyped
<1>. QED
  BY <1>2, <1>3

(* What a row is upserted with *)
LEMMA TextIsSent ==
  ASSUME NEW body \in Seq(Items), NEW q \in Upserts(body)
  PROVE  TextFor(q, body) \in Texts
<1>1. \E i \in Kept(body) : body[i].question = q
  BY DEF Upserts
<1>2. PICK i \in Kept(body) : TextFor(q, body) = body[i].text
  BY <1>1 DEF TextFor
<1>3. body[i] \in Items
  BY <1>2 DEF Kept
<1>. QED
  BY <1>2, <1>3 DEF Items

LEMMA FormsTypedKept ==
  ASSUME FormsInv, FormsInv', FormsTyped, [Next]_vars
  PROVE  FormsTyped'
<1>0. FormRowsTyped
  BY DEF FormsTyped
<1>1. ASSUME area = "forms", NEW p \in Requests, FormsNext(p)
      PROVE  FormsTyped'
  <2>. DEFINE d == Data(p)
  <2>0. /\ Sent /\ pc \in StepsAmong(FormsAwaits) /\ FormTyped(p) /\ FormAgrees(p)
        /\ \A q \in Requests : FormTyped(q)
    BY <1>1 DEF FormsTyped, FormsInv
  <2>1. ASSUME Moves(p, FormsAwaits), FormTyped(p)', FormRowsTyped'
        PROVE  FormsTyped'
    BY <2>0, <2>1, OneFormTyped DEF FormsTyped, Moves
  <2>2. UNCHANGED formVars => FormRowsTyped'
    BY <1>0 DEF FormRowsTyped, formVars
  <2>3. ASSUME area' = area  PROVE FormsAreRows'
    BY <1>1, <2>3 DEF FormsInv
  <2>4. ASSUME Moves(p, FormsAwaits),
               DOMAIN role' \subseteq FormRoles,
               \A r \in DOMAIN role' : role'[r] \in RecruitRole,
               \A q \in DOMAIN question' : question'[q] \in FormCollections,
               \A k \in DOMAIN answer' : answer'[k] \in RecruitFormAnswer,
               chosen' \in [Applicants -> SUBSET FormRoles],
               booked' \subseteq Applicants, interviewed' \subseteq Applicants,
               revised' \subseteq Applicants \cup Requests
        PROVE  FormRowsTyped'
    <3>1. FormsAreRows'
      BY <2>3, <2>4 DEF Moves
    <3>2. said' \in [Applicants \X Questions -> Texts \cup {Unanswered}]
      BY <3>1 DEF FormsAreRows
    <3>. QED
      BY <2>4, <3>1, <3>2 DEF FormRowsTyped, FormsAreRows
  <2>4a. ASSUME NEW data, Go(p, "book", data) \/ \E about : Accept(p, about, "book", data)
         PROVE  Moves(p, FormsAwaits) /\ pc'[p] = "book"
    BY <2>0, <2>4a, Accepts, GoesOn DEF FormsAwaits
  <2>5. CASE CreateRecruitRole(p) \/ UpdateRecruitRole(p)
    <3>1. Moves(p, FormsAwaits) /\ pc'[p] = "done"
      BY <2>0, <2>5, Finishes DEF CreateRecruitRole, UpdateRecruitRole
    <3>2. /\ \E r \in FormRoles : \E row \in RecruitRole : role' = Put(role, r, row)
          /\ revised' = Applicants \cup Requests
          /\ UNCHANGED <<question, answer, chosen, booked, interviewed, said>>
      BY <1>0, <2>5 DEF CreateRecruitRole, UpdateRecruitRole, Revise, FormRowsTyped
    <3>3. DOMAIN role' \subseteq FormRoles /\ \A r \in DOMAIN role' : role'[r] \in RecruitRole
      BY <1>0, <3>2 DEF Put, FormRowsTyped
    <3>4. FormRowsTyped'
      BY <1>0, <2>4, <3>1, <3>2, <3>3 DEF FormRowsTyped
    <3>. QED
      BY <2>1, <3>1, <3>4 DEF FormTyped, At
  <2>6. CASE DeleteRecruitRole(p)
    <3>1. Moves(p, FormsAwaits) /\ pc'[p] = "done"
      BY <2>0, <2>6, Finishes DEF DeleteRecruitRole
    <3>2. DOMAIN role' \subseteq FormRoles /\ \A r \in DOMAIN role' : role'[r] \in RecruitRole
      BY <1>0, <2>6 DEF DeleteRecruitRole, FormRowsTyped
    <3>3. FormRowsTyped'
      BY <1>0, <2>4, <2>6, <3>1, <3>2 DEF DeleteRecruitRole, Revise, FormRowsTyped
    <3>. QED
      BY <2>1, <3>1, <3>3 DEF FormTyped, At
  <2>7. CASE CreateRecruitFormQuestion(p)
    <3>1. Moves(p, FormsAwaits) /\ pc'[p] = "done"
      BY <2>0, <2>7, Finishes DEF CreateRecruitFormQuestion
    <3>2. \A q \in DOMAIN question' : question'[q] \in FormCollections
      BY <1>0, <2>7 DEF CreateRecruitFormQuestion, Put, FormRowsTyped
    <3>3. FormRowsTyped'
      BY <1>0, <2>4, <2>7, <3>1, <3>2 DEF CreateRecruitFormQuestion, Revise, FormRowsTyped
    <3>. QED
      BY <2>1, <3>1, <3>3 DEF FormTyped, At
  <2>8. CASE AnswerRecruitFormQuestions(p)
    <3>1. Moves(p, FormsAwaits) /\ pc'[p] = "findAnswers"
      BY <2>0, <2>8, Accepts DEF AnswerRecruitFormQuestions, FormsAwaits
    <3>. QED
      BY <2>1, <2>2, <2>8, <3>1 DEF AnswerRecruitFormQuestions, FormTyped, At
  <2>9. CASE FindAnswers(p)
    <3>. DEFINE asked == {d.body[i].question : i \in DOMAIN d.body}
                found == {q \in asked : <<d.applicant, q>> \in DOMAIN answer}
                ids == [q \in found |-> answer[<<d.applicant, q>>].id]
    <3>1. \A q \in DOMAIN ids : ids[q] \in AnswerIds
      BY <1>0 DEF FormRowsTyped, RecruitFormAnswer
    <3>2. Go(p, "writeAnswers", [applicant |-> d.applicant, body |-> d.body, ids |-> ids])
      BY <2>9 DEF FindAnswers
    <3>. HIDE DEF ids
    <3>3. /\ Moves(p, FormsAwaits) /\ pc'[p] = "writeAnswers"
          /\ Data(p)' = [applicant |-> d.applicant, body |-> d.body, ids |-> ids]
      BY <2>0, <3>2, GoesOn DEF FormsAwaits
    <3>4. FormTyped(p)'
      BY <3>1, <3>3 DEF FormTyped
    <3>. QED
      BY <2>1, <2>2, <2>9, <3>3, <3>4 DEF FindAnswers
  <2>10. CASE WriteAnswers(p)
    <3>. DEFINE taken == {answer[k].id : k \in {k \in DOMAIN answer : k[1] = d.applicant}}
    <3>1. PICK new \in [Upserts(d.body) \ DOMAIN d.ids -> AnswerIds \ taken] :
            \/ Finish(p) /\ UNCHANGED <<answer, said>>
            \/ /\ answer' = [k \in Remaining(Upserted(d, new), d) |-> Upserted(d, new)[k]]
               /\ Go(p, "book", Booking(d.applicant, TRUE))
      BY <2>10 DEF WriteAnswers
    <3>2. /\ d.body \in Seq(Items)
          /\ \A q \in DOMAIN d.ids : d.ids[q] \in AnswerIds
      BY <2>0, <2>10 DEF WriteAnswers, FormAgrees, FormTyped, At
    <3>3. \A q \in Upserts(d.body) : TextFor(q, d.body) \in Texts
      BY <3>2, TextIsSent
    <3>4. \A k \in DOMAIN Upserted(d, new) : Upserted(d, new)[k] \in RecruitFormAnswer
      <4>. SUFFICES ASSUME NEW k \in DOMAIN answer \cup {d.applicant} \X Upserts(d.body)
                    PROVE  Upserted(d, new)[k] \in RecruitFormAnswer
        BY DEF Upserted
      <4>1. CASE k[1] = d.applicant /\ k[2] \in Upserts(d.body)
        <5>1. Upserted(d, new)[k] =
                [id |-> IF k[2] \in DOMAIN d.ids THEN d.ids[k[2]] ELSE new[k[2]],
                 text |-> TextFor(k[2], d.body)]
          BY <4>1 DEF Upserted
        <5>2. k[2] \notin DOMAIN d.ids => new[k[2]] \in AnswerIds
          BY <4>1
        <5>. QED
          BY <3>2, <3>3, <4>1, <5>1, <5>2 DEF RecruitFormAnswer
      <4>2. CASE ~(k[1] = d.applicant /\ k[2] \in Upserts(d.body))
        <5>1. k \in DOMAIN answer
          BY <4>2
        <5>2. Upserted(d, new)[k] = answer[k]
          BY <4>2 DEF Upserted
        <5>. QED
          BY <1>0, <5>1, <5>2 DEF FormRowsTyped
      <4>. QED
        BY <4>1, <4>2
    <3>5. \A k \in DOMAIN answer' : answer'[k] \in RecruitFormAnswer
      BY <1>0, <3>1, <3>4 DEF Remaining, FormRowsTyped
    <3>6. Moves(p, FormsAwaits) /\ pc'[p] \in {"done", "book"}
      BY <2>0, <2>4a, <3>1, Finishes
    <3>7. FormRowsTyped'
      BY <1>0, <2>4, <2>10, <3>5, <3>6 DEF WriteAnswers, formTables, FormRowsTyped
    <3>. QED
      BY <2>1, <3>6, <3>7 DEF FormTyped, At
  <2>11. CASE SelectRecruitRoles(p)
    <3>1. Moves(p, FormsAwaits) /\ pc'[p] = "book"
      BY <2>4a, <2>11 DEF SelectRecruitRoles
    <3>2. chosen' \in [Applicants -> SUBSET FormRoles]
      BY <1>0, <2>11 DEF SelectRecruitRoles, FormRowsTyped
    <3>3. FormRowsTyped'
      BY <1>0, <2>4, <2>11, <3>1, <3>2 DEF SelectRecruitRoles, formTables, FormRowsTyped
    <3>. QED
      BY <2>1, <3>1, <3>3 DEF FormTyped, At
  <2>12. CASE BookInterviewSlot(p)
    <3>1. Moves(p, FormsAwaits) /\ pc'[p] = "book"
      BY <2>4a, <2>12 DEF BookInterviewSlot
    <3>. QED
      BY <2>1, <2>2, <2>12, <3>1 DEF BookInterviewSlot, FormTyped, At
  <2>13. CASE ReadForBooking(p)
    <3>1. PICK read \in d.unread : \E data : Go(p, "book", data)
      BY <2>13 DEF ReadForBooking
    <3>2. Moves(p, FormsAwaits) /\ pc'[p] = "book"
      BY <2>0, <3>1, GoesOn DEF FormsAwaits
    <3>3. revised' \subseteq Applicants \cup Requests
      BY <1>0, <2>13 DEF ReadForBooking, FormRowsTyped
    <3>4. FormRowsTyped'
      BY <1>0, <2>4, <2>13, <3>2, <3>3 DEF ReadForBooking, formTables, FormRowsTyped
    <3>. QED
      BY <2>1, <3>2, <3>4 DEF FormTyped, At
  <2>14. CASE Book(p)
    <3>1. d.applicant \in Applicants
      BY <2>0, <2>14 DEF Book, FormAgrees, At
    <3>2. Moves(p, FormsAwaits) /\ pc'[p] \in {"done", "cancelSlot"}
      BY <2>0, <2>14, GoesOn, Finishes DEF Book, FormsAwaits
    <3>3. booked' \subseteq Applicants /\ revised' \subseteq Applicants \cup Requests
      BY <1>0, <2>14, <3>1 DEF Book, FormRowsTyped
    <3>4. FormRowsTyped'
      BY <1>0, <2>4, <2>14, <3>2, <3>3 DEF Book, formTables, FormRowsTyped
    <3>. QED
      BY <2>1, <3>2, <3>4 DEF FormTyped, At
  <2>15. CASE CancelSlot(p)
    <3>1. Moves(p, FormsAwaits) /\ pc'[p] = "done"
      BY <2>0, <2>15, Finishes DEF CancelSlot
    <3>2. FormRowsTyped'
      BY <1>0, <2>4, <2>15, <3>1 DEF CancelSlot, formTables, FormRowsTyped
    <3>. QED
      BY <2>1, <3>1, <3>2 DEF FormTyped, At
  <2>16. CASE CancelInterviewSlot(p) \/ MarkAsInterviewed(p) \/ UnmarkAsInterviewed(p)
    <3>2. \E step \in {"cancelSlot", "mark", "unmark"} : Moves(p, FormsAwaits) /\ pc'[p] = step
      <4>1. CASE CancelInterviewSlot(p)
        <5>1. PICK a \in Applicants :
                Accept(p, {FormOf(a)}, "cancelSlot", [applicant |-> a])
          BY <4>1 DEF CancelInterviewSlot
        <5>. QED
          BY <2>0, <5>1, Accepts DEF FormsAwaits
      <4>2. CASE MarkAsInterviewed(p)
        <5>1. PICK a \in Applicants : Accept(p, {}, "mark", [applicant |-> a])
          BY <4>2 DEF MarkAsInterviewed
        <5>. QED
          BY <2>0, <5>1, Accepts DEF FormsAwaits
      <4>3. CASE UnmarkAsInterviewed(p)
        <5>1. PICK a \in Applicants : Accept(p, {}, "unmark", [applicant |-> a])
          BY <4>3 DEF UnmarkAsInterviewed
        <5>. QED
          BY <2>0, <5>1, Accepts DEF FormsAwaits
      <4>. QED
        BY <2>16, <4>1, <4>2, <4>3
    <3>3. UNCHANGED formVars
      BY <2>16 DEF CancelInterviewSlot, MarkAsInterviewed, UnmarkAsInterviewed
    <3>. QED
      BY <2>1, <2>2, <3>2, <3>3 DEF FormTyped, At
  <2>17. CASE WriteMark(p) \/ WriteUnmark(p)
    <3>1. Moves(p, FormsAwaits) /\ pc'[p] = "done"
      BY <2>0, <2>17, Finishes DEF WriteMark, WriteUnmark
    <3>2. /\ booked' \subseteq Applicants /\ interviewed' \subseteq Applicants
          /\ revised' \subseteq Applicants \cup Requests
      BY <1>0, <2>17 DEF WriteMark, WriteUnmark, FormRowsTyped
    <3>3. FormRowsTyped'
      BY <1>0, <2>4, <2>17, <3>1, <3>2 DEF WriteMark, WriteUnmark, formTables, FormRowsTyped
    <3>. QED
      BY <2>1, <3>1, <3>3 DEF FormTyped, At
  <2>. QED
    BY <1>1, <2>5, <2>6, <2>7, <2>8, <2>9, <2>10, <2>11, <2>12, <2>13, <2>14, <2>15,
       <2>16, <2>17
    DEF FormsNext
<1>2. ASSUME UNCHANGED formVars, NEW p \in Requests, Die(p)  PROVE FormsTyped'
  <2>1. area = "forms" => Moves(p, FormsAwaits) /\ FormTyped(p)'
    BY <1>2, Finishes DEF FormsTyped, FormsInv, FormTyped, At
  <2>2. FormRowsTyped'
    BY <1>0, <1>2 DEF FormRowsTyped, formVars
  <2>. QED
    BY <1>2, <2>1, <2>2, OneFormTyped DEF FormsTyped, Moves, Die
<1>3. CASE area # "forms" /\ UNCHANGED <<area, formVars>>
  BY <1>0, <1>3 DEF FormsTyped, FormRowsTyped, formVars
<1>4. CASE UNCHANGED <<serverVars, formVars>>
  <2>1. \A p \in Requests : FormTyped(p) => FormTyped(p)'
    BY <1>4 DEF FormTyped, At, Data, serverVars
  <2>. QED
    BY <1>0, <1>4, <2>1 DEF FormsTyped, FormRowsTyped, formVars, serverVars
<1>. QED
  BY <1>1, <1>2, <1>3, <1>4, FormSteps

(***************************************************************************)
(* Recruitment                                                             *)
(***************************************************************************)

RecruitmentRowsTyped ==
  /\ now \in Times
  /\ DOMAIN setting \subseteq Settings
  /\ \A s \in DOMAIN setting : setting[s] \in Setting
  /\ applicants \subseteq Profiles \X Settings
  /\ issued \in Seq(Profiles \X Settings)
  /\ DOMAIN selected \subseteq DOMAIN issued
  /\ \A r \in DOMAIN selected : selected[r] \in ApplicantRole

ApplicantTyped(p) ==
  /\ pc[p] \in {"deactivate", "insertSetting", "loadSetting"} => Data(p).entity \in Setting
  /\ At(p, "selectRoles") => Data(p).asked \in Seq(Roles)
  /\ At(p, "findSelected") => Data(p).roles \in Seq(Roles)
  /\ At(p, "loadSelected") =>
       \A i \in DOMAIN Data(p).objects : Data(p).objects[i].row \in ApplicantRole
  /\ At(p, "writeSelected") =>
       \A i \in DOMAIN Data(p).changes : Data(p).changes[i].row \in ApplicantRole
  /\ At(p, "offerApplicantRole") => Data(p).role \in Roles

RecruitmentTyped ==
  /\ RecruitmentRowsTyped
  /\ area = "recruitment" =>
       pc \in StepsAmong(RecruitmentAwaits) /\ \A p \in Requests : ApplicantTyped(p)

LEMMA RecruitmentIsTyped == RecruitmentTyped => RecruitmentTypeOK
BY DEF RecruitmentTyped, RecruitmentRowsTyped, RecruitmentTypeOK

LEMMA OneApplicantTyped ==
  ASSUME \A q \in Requests : ApplicantTyped(q), NEW p \in Requests, Others(p),
         ApplicantTyped(p)'
  PROVE  (\A q \in Requests : ApplicantTyped(q))'
BY DEF ApplicantTyped, Others, At, Data

LEMMA NewRoleTyped ==
  ASSUME NEW a \in Profiles \X Settings, NEW one \in Roles, NEW rank \in Nat
  PROVE  NewRole(a, one, rank) \in ApplicantRole
BY DEF NewRole, ApplicantRole

LEMMA AnsweredRoleTyped ==
  ASSUME NEW row \in ApplicantRole, NEW expires \in Times \cup {None},
         NEW reply \in Times \cup {None}, NEW accepted \in BOOLEAN
  PROVE  [row EXCEPT !.expires = expires, !.answered = reply, !.accepted = accepted]
           \in ApplicantRole
BY DEF ApplicantRole

LEMMA RecruitmentTypedAtFirst == Init => RecruitmentTyped
<1>. SUFFICES ASSUME Init  PROVE RecruitmentTyped
  OBVIOUS
<1>1. InitRequests /\ InitRecruitment /\ RecruitmentInv
  BY RecruitmentInvAtFirst DEF Init
<1>2. pc \in StepsAmong(RecruitmentAwaits) /\ \A p \in Requests : ApplicantTyped(p)
  BY <1>1 DEF InitRequests, StepsAmong, ApplicantTyped, At
<1>3. CASE area # "recruitment"
  <2>1. now = 1 /\ setting = <<>> /\ applicants = {} /\ selected = <<>> /\ issued = <<>>
    BY <1>1, <1>3 DEF InitRecruitment
  <2>2. now \in Times
    BY <2>1, RecruitmentAssumption DEF Times
  <2>3. DOMAIN setting = {} /\ DOMAIN selected = {} /\ issued \in Seq(Profiles \X Settings)
    BY <2>1
  <2>. QED
    BY <1>3, <2>1, <2>2, <2>3 DEF RecruitmentTyped, RecruitmentRowsTyped
<1>4. CASE area = "recruitment"
  <2>1. RowsAreRows
    BY <1>1, <1>4 DEF RecruitmentInv, Coherent
  <2>2. setting \in OldSettings /\ applicants \in SUBSET (Profiles \X DOMAIN setting)
    BY <1>1, <1>4 DEF InitRecruitment
  <2>3. \A s \in DOMAIN setting : setting[s] \in Setting
    BY <2>2, RecruitmentAssumption, Zenon
  <2>4. applicants \subseteq Profiles \X Settings
    BY <2>1, <2>2 DEF RowsAreRows
  <2>. DEFINE answers(a, deadline) == {None} \cup
                {t \in Deadlines \cap {deadline} : setting[a[2]].announce <= t /\ t <= now}
              row(a, deadline, roles, reply, i) ==
                [NewRole(a, roles[i], i - 1) EXCEPT
                   !.expires = deadline,
                   !.answered = IF i = 1 THEN reply ELSE None,
                   !.accepted = i = 1 /\ reply # None]
              lists == {<<r>> : r \in Roles} \cup {rs \in Roles \X Roles : rs[1] # rs[2]}
  <2>5. ASSUME NEW a \in applicants, NEW deadline \in Deadlines \cup {None},
               NEW roles \in lists, NEW reply \in answers(a, deadline),
               selected = [i \in 1..Len(roles) |-> row(a, deadline, roles, reply, i)]
        PROVE  \A r \in DOMAIN selected : selected[r] \in ApplicantRole
    <3>1. a \in Profiles \X Settings
      BY <2>4
    <3>2. Len(roles) \in Nat /\ \A i \in 1..Len(roles) : roles[i] \in Roles
      <4>1. CASE roles \in Roles \X Roles
        <5>1. roles = <<roles[1], roles[2]>> /\ roles[1] \in Roles /\ roles[2] \in Roles
          BY <4>1
        <5>2. \A x, y : Len(<<x, y>>) = 2
          OBVIOUS
        <5>3. Len(roles) = 2
          BY <5>1, <5>2
        <5>4. \A i \in 1..2 : i = 1 \/ i = 2
          OBVIOUS
        <5>. QED
          BY <5>1, <5>3, <5>4
      <4>2. CASE roles \in {<<r>> : r \in Roles}
        <5>1. PICK r \in Roles : roles = <<r>>
          BY <4>2
        <5>. QED
          BY <5>1
      <4>. QED
        BY <4>1, <4>2
    <3>3. deadline \in Times \cup {None} /\ reply \in Times \cup {None}
      BY RecruitmentAssumption
    <3>4. ASSUME NEW i \in 1..Len(roles)
          PROVE  row(a, deadline, roles, reply, i) \in ApplicantRole
      <4>1. NewRole(a, roles[i], i - 1) \in ApplicantRole
        BY <3>1, <3>2, NewRoleTyped
      <4>2. (IF i = 1 THEN reply ELSE None) \in Times \cup {None}
        BY <3>3
      <4>3. (i = 1 /\ reply # None) \in BOOLEAN
        BY Zenon
      <4>. QED
        BY <3>3, <4>1, <4>2, <4>3, AnsweredRoleTyped, Zenon
    <3>. HIDE DEF row
    <3>. QED
      BY <2>5, <3>4
  <2>6. \/ selected = <<>> /\ issued = <<>>
        \/ \E a \in applicants, deadline \in Deadlines \cup {None}, roles \in lists :
             /\ issued = [i \in 1..Len(roles) |-> a]
             /\ \E reply \in answers(a, deadline) :
                  selected = [i \in 1..Len(roles) |-> row(a, deadline, roles, reply, i)]
    BY <1>1, <1>4, Zenon DEF InitRecruitment
  <2>7. \A r \in DOMAIN selected : selected[r] \in ApplicantRole
    <3>1. CASE selected = <<>>
      BY <3>1
    <3>. HIDE DEF answers, row, lists
    <3>. QED
      BY <2>5, <2>6, <3>1
  <2>. QED
    BY <1>2, <2>1, <2>3, <2>4, <2>7 DEF RecruitmentTyped, RecruitmentRowsTyped, RowsAreRows
<1>. QED
  BY <1>3, <1>4

(* Rows with some of their columns replaced *)
LEMMA EditedSetting ==
  ASSUME NEW row \in Setting, NEW columns, DOMAIN columns \subseteq DateColumns \cup {"active"},
         \A c \in DOMAIN columns \cap DateColumns : columns[c] \in Times,
         "active" \in DOMAIN columns => columns["active"] \in BOOLEAN
  PROVE  Edited(row, columns) \in Setting
<1>1. DOMAIN row = {"open", "close", "announce", "active", "touched"}
  BY DEF Setting
<1>. DEFINE cell(c) == IF c \in DOMAIN columns THEN columns[c] ELSE row[c]
<1>2. Edited(row, columns) =
        [open |-> cell("open"), close |-> cell("close"), announce |-> cell("announce"),
         active |-> cell("active"), touched |-> cell("touched")]
  BY <1>1 DEF Edited
<1>3. /\ cell("open") \in Times /\ cell("close") \in Times /\ cell("announce") \in Times
      /\ cell("active") \in BOOLEAN /\ cell("touched") \in SUBSET {"dates", "off"}
  BY DEF Setting, DateColumns
<1>. HIDE DEF cell
<1>. QED
  BY <1>2, <1>3 DEF Setting

LEMMA EditedRole ==
  ASSUME NEW row \in ApplicantRole, NEW object \in ApplicantRole, NEW columns \in SUBSET Columns
  PROVE  Edited(row, [c \in columns |-> object[c]]) \in ApplicantRole
<1>1. DOMAIN row = {"applicant", "rank", "role", "expires", "answered", "accepted", "named"}
  BY DEF ApplicantRole
<1>. DEFINE cell(c) == IF c \in columns THEN object[c] ELSE row[c]
<1>2. Edited(row, [c \in columns |-> object[c]]) =
        [applicant |-> cell("applicant"), rank |-> cell("rank"), role |-> cell("role"),
         expires |-> cell("expires"), answered |-> cell("answered"),
         accepted |-> cell("accepted"), named |-> cell("named")]
  BY <1>1 DEF Edited
<1>3. /\ cell("applicant") \in Profiles \X Settings /\ cell("rank") \in Nat
      /\ cell("role") \in Roles /\ cell("expires") \in Times \cup {None}
      /\ cell("answered") \in Times \cup {None} /\ cell("accepted") \in BOOLEAN
      /\ cell("named") \in Roles \cup {None}
  BY DEF ApplicantRole
<1>. HIDE DEF cell
<1>. QED
  BY <1>2, <1>3 DEF ApplicantRole

LEMMA WriteSelectedTyped ==
  ASSUME Coherent, RecruitmentRowsTyped, NEW p \in Requests, ApplicantTyped(p),
         WriteSelected(p)
  PROVE  \A r \in DOMAIN selected' : selected'[r] \in ApplicantRole
<1>. SUFFICES ASSUME NEW changes, changes = Data(p).changes,
                     NEW removed, removed = Data(p).removed
              PROVE  \A r \in DOMAIN selected' : selected'[r] \in ApplicantRole
  OBVIOUS
<1>. DEFINE kept == DOMAIN selected \ removed
            inserted == {changes[i].id : i \in {i \in DOMAIN changes : changes[i].insert}}
            change(r) == changes[CHOOSE i \in DOMAIN changes : changes[i].id = r]
            updates(n) ==
              {changes[i].id : i \in {i \in DOMAIN changes : i <= n /\ ~changes[i].insert}}
            redone(r) == Edited(selected[r], [c \in change(r).columns |-> change(r).row[c]])
            table(n) == [r \in kept \cup inserted |->
                           IF r \in inserted THEN change(r).row
                           ELSE IF r \in updates(n) THEN redone(r) ELSE selected[r]]
            N == Len(changes)
<1>1. pc[p] = "writeSelected" /\ selected' \in {table(N), selected}
  <2>1. selected' \in {Written(changes, removed), selected}
    BY AllIsWrittenOrNone
  <2>2. Written(changes, removed) = table(N)
    BY Zenon DEF Written
  <2>3. pc[p] = "writeSelected"
    BY DEF WriteSelected, At
  <2>. HIDE DEF table, N
  <2>. QED  BY <2>1, <2>2, <2>3
<1>2. /\ \A i \in DOMAIN changes : changes[i].row \in ApplicantRole
      /\ \A i \in DOMAIN changes : changes[i].columns \subseteq Columns
  BY <1>1 DEF Coherent, ApplicantAgrees, ChangesAgree, ApplicantTyped, At
<1>3. \A r \in DOMAIN selected : selected[r] \in ApplicantRole
  BY DEF RecruitmentRowsTyped
<1>4. ASSUME NEW r, r \in inserted \/ r \in updates(N)
      PROVE  change(r).row \in ApplicantRole /\ change(r).columns \subseteq Columns
  <2>1. \E i \in DOMAIN changes : changes[i].id = r
    BY <1>4
  <2>2. PICK i \in DOMAIN changes : change(r) = changes[i]
    BY <2>1
  <2>. HIDE DEF change
  <2>. QED
    BY <1>2, <2>2
<1>5. ASSUME NEW r \in DOMAIN selected, r \in updates(N)
      PROVE  redone(r) \in ApplicantRole
  <2>1. change(r).row \in ApplicantRole /\ change(r).columns \in SUBSET Columns
    BY <1>4, <1>5
  <2>. HIDE DEF change, updates
  <2>. QED
    BY <1>3, <2>1, EditedRole
<1>6. CASE selected' = table(N)
  <2>1. /\ DOMAIN selected' = kept \cup inserted
        /\ \A r \in kept \cup inserted : selected'[r] =
             IF r \in inserted THEN change(r).row
             ELSE IF r \in updates(N) THEN redone(r) ELSE selected[r]
    <3>. HIDE DEF kept, inserted, change, redone, updates, N
    <3>. QED
      BY <1>6
  <2>. HIDE DEF inserted, change, redone, updates, N
  <2>. QED
    BY <1>3, <1>4, <1>5, <2>1
<1>. HIDE DEF table
<1>. QED
  BY <1>1, <1>3, <1>6

LEMMA FindSelectedTyped ==
  ASSUME Coherent, RecruitmentRowsTyped, NEW p \in Requests, ApplicantTyped(p),
         FindSelected(p)
  PROVE  \E objects : \E removed :
           /\ Go(p, "loadSelected", [applicant |-> Data(p).applicant, objects |-> objects,
                                     removed |-> removed])
           /\ \A i \in DOMAIN objects : objects[i].row \in ApplicantRole
<1>. SUFFICES ASSUME NEW d, d = Data(p)
              PROVE  \E objects : \E removed :
                       /\ Go(p, "loadSelected", [applicant |-> d.applicant, objects |-> objects,
                                                 removed |-> removed])
                       /\ \A i \in DOMAIN objects : objects[i].row \in ApplicantRole
  OBVIOUS
<1>. DEFINE object(found, i) == IF i <= Len(found)
              THEN [id |-> found[i], row |-> [selected[found[i]] EXCEPT
                      !.rank = i - 1, !.role = d.roles[i]]]
              ELSE [id |-> Len(issued) + i - Len(found),
                    row |-> NewRole(d.applicant, d.roles[i], i - 1)]
            objects(found) == [i \in 1..Len(d.roles) |-> object(found, i)]
            removed(found) == {found[i] : i \in (Len(d.roles) + 1)..Len(found)}
<1>1. PICK found \in Ranked(d.applicant) :
        Go(p, "loadSelected", [applicant |-> d.applicant, objects |-> objects(found),
                               removed |-> removed(found)])
  BY DEF FindSelected
<1>2. d.roles \in Seq(Roles) /\ d.applicant \in Profiles \X Settings
  BY DEF FindSelected, Coherent, ApplicantAgrees, ApplicantSteps, IsApplicant,
    ApplicantTyped, At
<1>3. Len(found) \in Nat /\ \A i \in 1..Len(found) : found[i] \in DOMAIN selected
  BY <1>1, RankedRows DEF Coherent, RolesOf
<1>4. ASSUME NEW i \in 1..Len(d.roles)  PROVE object(found, i).row \in ApplicantRole
  <2>1. d.roles[i] \in Roles /\ i - 1 \in Nat
    BY <1>2
  <2>2. CASE i <= Len(found)
    <3>1. selected[found[i]] \in ApplicantRole
      BY <1>2, <1>3, <2>2 DEF RecruitmentRowsTyped
    <3>2. \A row \in ApplicantRole :
            [row EXCEPT !.rank = i - 1, !.role = d.roles[i]] \in ApplicantRole
      BY <2>1 DEF ApplicantRole
    <3>. QED
      BY <2>2, <3>1, <3>2
  <2>3. CASE ~(i <= Len(found))
    <3>1. NewRole(d.applicant, d.roles[i], i - 1) \in ApplicantRole
      BY <1>2, <2>1, NewRoleTyped
    <3>. QED
      BY <2>3, <3>1
  <2>. QED
    BY <2>2, <2>3
<1>5. \A i \in DOMAIN objects(found) : objects(found)[i].row \in ApplicantRole
  <2>. HIDE DEF object
  <2>. QED
    BY <1>4
<1>. HIDE DEF objects, removed
<1>. QED
  BY <1>1, <1>5

LEMMA RecruitmentTypedKept ==
  ASSUME RecruitmentInv, RecruitmentInv', RecruitmentTyped, [Next]_vars
  PROVE  RecruitmentTyped'
<1>0. RecruitmentRowsTyped
  BY DEF RecruitmentTyped
<1>1. ASSUME area = "recruitment", NEW p \in Requests, RecruitmentNext(p)
      PROVE  RecruitmentTyped'
  <2>. DEFINE d == Data(p)
  <2>0. /\ Coherent /\ Sent /\ pc \in StepsAmong(RecruitmentAwaits)
        /\ ApplicantTyped(p) /\ ApplicantAgrees(p) /\ SettingAgrees(p)
        /\ \A q \in Requests : ApplicantTyped(q)
    BY <1>1 DEF RecruitmentTyped, RecruitmentInv, Coherent
  <2>1. ASSUME Moves(p, RecruitmentAwaits), ApplicantTyped(p)',
               \A s \in DOMAIN setting' : setting'[s] \in Setting,
               applicants' \subseteq Profiles \X Settings,
               \A r \in DOMAIN selected' : selected'[r] \in ApplicantRole
        PROVE  RecruitmentTyped'
    <3>1. RowsAreRows'
      BY <1>1, <2>1 DEF Moves, RecruitmentInv, Coherent
    <3>. QED
      BY <2>0, <2>1, <3>1, OneApplicantTyped
      DEF RecruitmentTyped, RecruitmentRowsTyped, RowsAreRows, Moves
  <2>2. ASSUME Moves(p, RecruitmentAwaits), ApplicantTyped(p)',
               UNCHANGED <<setting, applicants, selected>>
        PROVE  RecruitmentTyped'
    BY <1>0, <2>1, <2>2 DEF RecruitmentRowsTyped
  <2>3. ASSUME NEW step \in RecruitmentAwaits, NEW data,
               Go(p, step, data) \/ \E about : Accept(p, about, step, data)
        PROVE  Moves(p, RecruitmentAwaits) /\ pc'[p] = step /\ Data(p)' = data
    BY <2>0, <2>3, Accepts, GoesOn
  <2>4. ASSUME NEW who, NEW step \in RecruitmentAwaits, NEW asked,
               InContext(p, who, step, asked)
        PROVE  Moves(p, RecruitmentAwaits) /\ pc'[p] = step /\ Data(p)'.asked = asked
    BY <2>3, <2>4 DEF InContext
  <2>5. CASE CreateSetting(p)
    <3>1. PICK dto \in NewDtos :
            Accept(p, {<<"settings">>},
                   IF dto.active THEN "deactivate" ELSE "insertSetting",
                   [id |-> None, edits |-> {},
                    entity |-> [open |-> dto.open, close |-> dto.close,
                                announce |-> dto.announce, active |-> dto.active,
                                touched |-> {}]])
      BY <2>5 DEF CreateSetting
    <3>2. [open |-> dto.open, close |-> dto.close, announce |-> dto.announce,
           active |-> dto.active, touched |-> {}] \in Setting
      BY RecruitmentAssumption DEF Setting
    <3>3. PICK step \in {"deactivate", "insertSetting"} : \E entity \in Setting :
            Accept(p, {<<"settings">>}, step, [id |-> None, edits |-> {}, entity |-> entity])
      BY <3>1, <3>2
    <3>4. PICK entity \in Setting :
            Accept(p, {<<"settings">>}, step, [id |-> None, edits |-> {}, entity |-> entity])
      BY <3>3
    <3>5. /\ Moves(p, RecruitmentAwaits) /\ pc'[p] = step
          /\ Data(p)' = [id |-> None, edits |-> {}, entity |-> entity]
      BY <2>3, <3>3, <3>4 DEF RecruitmentAwaits
    <3>6. ApplicantTyped(p)'
      BY <3>3, <3>5 DEF ApplicantTyped, At
    <3>. QED
      BY <2>2, <2>5, <3>5, <3>6 DEF CreateSetting, recruitmentVars
  <2>6. CASE UpdateSetting(p)
    <3>. DEFINE entityOf(row, dto) ==
                  [open |-> Given(dto.open, row.open), close |-> Given(dto.close, row.close),
                   announce |-> Given(dto.announce, row.announce),
                   active |-> Given(dto.active, row.active), touched |-> {}]
    <3>1. PICK s \in DOMAIN setting : \E dto \in EditDtos : \E edits :
            Accept(p, {<<"settings">>},
                   IF dto.active = TRUE THEN "deactivate" ELSE "loadSetting",
                   [id |-> s, edits |-> edits, entity |-> entityOf(setting[s], dto)])
      BY <2>6 DEF UpdateSetting
    <3>2. \A dto \in EditDtos : entityOf(setting[s], dto) \in Setting
      <4>. SUFFICES ASSUME NEW dto \in EditDtos  PROVE entityOf(setting[s], dto) \in Setting
        OBVIOUS
      <4>1. /\ dto.open \in Times \cup {None} /\ dto.close \in Times \cup {None}
            /\ dto.announce \in Times \cup {None} /\ dto.active \in BOOLEAN \cup {None}
        BY RecruitmentAssumption
      <4>2. /\ setting[s].open \in Times /\ setting[s].close \in Times
            /\ setting[s].announce \in Times /\ setting[s].active \in BOOLEAN
        BY <1>0 DEF RecruitmentRowsTyped, Setting
      <4>3. /\ Given(dto.open, setting[s].open) \in Times
            /\ Given(dto.close, setting[s].close) \in Times
            /\ Given(dto.announce, setting[s].announce) \in Times
            /\ Given(dto.active, setting[s].active) \in BOOLEAN
        BY <4>1, <4>2 DEF Given
      <4>. QED
        BY <4>3 DEF Setting
    <3>. HIDE DEF entityOf
    <3>3. PICK step \in {"deactivate", "loadSetting"} : \E entity \in Setting : \E edits :
            Accept(p, {<<"settings">>}, step, [id |-> s, edits |-> edits, entity |-> entity])
      BY <3>1, <3>2
    <3>4. PICK entity \in Setting : \E edits :
            Accept(p, {<<"settings">>}, step, [id |-> s, edits |-> edits, entity |-> entity])
      BY <3>3
    <3>5. PICK edits :
            Accept(p, {<<"settings">>}, step, [id |-> s, edits |-> edits, entity |-> entity])
      BY <3>4
    <3>6. /\ Moves(p, RecruitmentAwaits) /\ pc'[p] = step
          /\ Data(p)' = [id |-> s, edits |-> edits, entity |-> entity]
      BY <2>3, <3>3, <3>5 DEF RecruitmentAwaits
    <3>7. ApplicantTyped(p)'
      BY <3>3, <3>6 DEF ApplicantTyped, At
    <3>. QED
      BY <2>2, <2>6, <3>6, <3>7 DEF UpdateSetting, recruitmentVars
  <2>7. CASE Deactivate(p)
    <3>1. PICK step \in {"insertSetting", "loadSetting"} : Go(p, step, d)
      BY <2>7 DEF Deactivate
    <3>2. Moves(p, RecruitmentAwaits) /\ pc'[p] = step /\ Data(p)' = d
      BY <2>3, <3>1 DEF RecruitmentAwaits
    <3>3. d.entity \in Setting
      BY <2>0, <2>7 DEF Deactivate, ApplicantTyped, At
    <3>4. ApplicantTyped(p)'
      BY <3>1, <3>2, <3>3 DEF ApplicantTyped, At
    <3>5. \A row \in Setting : [row EXCEPT !.active = FALSE] \in Setting
      BY DEF Setting
    <3>6. \A s \in DOMAIN setting' : setting'[s] \in Setting
      BY <1>0, <2>7, <3>5 DEF Deactivate, RecruitmentRowsTyped
    <3>. QED
      BY <1>0, <2>1, <2>7, <3>2, <3>4, <3>6 DEF Deactivate, RecruitmentRowsTyped
  <2>8. CASE InsertSetting(p)
    <3>1. d.entity \in Setting
      BY <2>0, <2>8 DEF InsertSetting, ApplicantTyped, At
    <3>2. \A s \in DOMAIN setting' : setting'[s] \in Setting
      BY <1>0, <2>8, <3>1 DEF InsertSetting, Put, RecruitmentRowsTyped
    <3>3. Moves(p, RecruitmentAwaits) /\ pc'[p] = "done"
      BY <2>0, <2>8, Finishes DEF InsertSetting
    <3>4. ApplicantTyped(p)'
      BY <3>3 DEF ApplicantTyped, At
    <3>. QED
      BY <1>0, <2>1, <2>8, <3>2, <3>3, <3>4 DEF InsertSetting, RecruitmentRowsTyped
  <2>9. CASE LoadSetting(p)
    <3>1. \E data : Go(p, "writeSetting", data)
      BY <2>9 DEF LoadSetting
    <3>2. Moves(p, RecruitmentAwaits) /\ pc'[p] = "writeSetting"
      BY <2>3, <3>1 DEF RecruitmentAwaits
    <3>3. ApplicantTyped(p)'
      BY <3>2 DEF ApplicantTyped, At
    <3>. QED
      BY <2>2, <2>9, <3>2, <3>3 DEF LoadSetting, recruitmentVars
  <2>10. CASE WriteSetting(p)
    <3>1. ColumnsAgree(d)
      BY <2>0, <2>10 DEF WriteSetting, SettingAgrees, At
    <3>2. Edited(setting[d.id], d.columns) \in Setting
      <4>1. setting[d.id] \in Setting
        BY <1>0, <3>1 DEF ColumnsAgree, RecruitmentRowsTyped
      <4>. QED
        BY <3>1, <4>1, EditedSetting DEF ColumnsAgree
    <3>3. d.edits \subseteq {"dates", "off"}
      BY <3>1 DEF ColumnsAgree, Marks
    <3>4. \A row \in Setting : [row EXCEPT !.touched = @ \cup d.edits] \in Setting
      BY <3>3 DEF Setting
    <3>5. setting' = [setting EXCEPT ![d.id] =
                        [Edited(setting[d.id], d.columns) EXCEPT !.touched = @ \cup d.edits]]
      BY <2>10 DEF WriteSetting
    <3>6. \A s \in DOMAIN setting' : setting'[s] \in Setting
      BY <1>0, <3>2, <3>4, <3>5 DEF RecruitmentRowsTyped
    <3>7. Moves(p, RecruitmentAwaits) /\ pc'[p] = "done"
      BY <2>0, <2>10, Finishes DEF WriteSetting
    <3>8. ApplicantTyped(p)'
      BY <3>7 DEF ApplicantTyped, At
    <3>. QED
      BY <1>0, <2>1, <2>10, <3>6, <3>7, <3>8 DEF WriteSetting, RecruitmentRowsTyped
  <2>11. CASE CreateApplicant(p) \/ DecideOffer(p)
    <3>1. \E who, asked : \/ InContext(p, who, "insertApplicant", asked)
                          \/ InContext(p, who, "decideOffer", asked)
      BY <2>11 DEF CreateApplicant, DecideOffer
    <3>2. Moves(p, RecruitmentAwaits) /\ pc'[p] \in {"insertApplicant", "decideOffer"}
      BY <2>4, <3>1 DEF RecruitmentAwaits
    <3>3. ApplicantTyped(p)'
      BY <3>2 DEF ApplicantTyped, At
    <3>. QED
      BY <2>2, <2>11, <3>2, <3>3 DEF CreateApplicant, DecideOffer, recruitmentVars
  <2>12. CASE InsertApplicant(p)
    <3>1. d.applicant \in Profiles \X Settings
      BY <2>0, <2>12 DEF InsertApplicant, ApplicantAgrees, ApplicantSteps, IsApplicant, At
    <3>2. applicants' \subseteq Profiles \X Settings
      BY <1>0, <2>12, <3>1 DEF InsertApplicant, RecruitmentRowsTyped
    <3>3. Moves(p, RecruitmentAwaits) /\ pc'[p] = "done"
      BY <2>0, <2>12, Finishes DEF InsertApplicant
    <3>4. ApplicantTyped(p)'
      BY <3>3 DEF ApplicantTyped, At
    <3>. QED
      BY <1>0, <2>1, <2>12, <3>2, <3>3, <3>4 DEF InsertApplicant, RecruitmentRowsTyped
  <2>13. CASE SelectRoles(p)
    <3>1. PICK who \in Profiles :
            \E roles \in {<<>>} \cup (Roles \X Roles) \cup {<<r>> : r \in Roles} :
              InContext(p, who, "selectRoles", roles)
      BY <2>13 DEF SelectRoles
    <3>2. PICK roles \in {<<>>} \cup (Roles \X Roles) \cup {<<r>> : r \in Roles} :
            InContext(p, who, "selectRoles", roles)
      BY <3>1
    <3>3. roles \in Seq(Roles)
      <4>1. CASE roles = <<>>
        BY <4>1
      <4>2. CASE roles \in Roles \X Roles
        <5>1. roles = <<roles[1], roles[2]>> /\ roles[1] \in Roles /\ roles[2] \in Roles
          BY <4>2
        <5>2. \A x, y \in Roles : <<x, y>> \in Seq(Roles)
          OBVIOUS
        <5>. QED
          BY <5>1, <5>2
      <4>3. CASE roles \in {<<r>> : r \in Roles}
        <5>1. PICK r \in Roles : roles = <<r>>
          BY <4>3
        <5>. QED
          BY <5>1
      <4>. QED
        BY <3>2, <4>1, <4>2, <4>3
    <3>4. Moves(p, RecruitmentAwaits) /\ pc'[p] = "selectRoles" /\ Data(p)'.asked = roles
      BY <2>4, <3>2 DEF RecruitmentAwaits
    <3>5. ApplicantTyped(p)'
      BY <3>3, <3>4 DEF ApplicantTyped, At
    <3>. QED
      BY <2>2, <2>13, <3>4, <3>5 DEF SelectRoles, recruitmentVars
  <2>14. CASE BeginSelect(p)
    <3>1. d.asked \in Seq(Roles)
      BY <2>0, <2>14 DEF BeginSelect, ApplicantTyped, At
    <3>2. CASE Go(p, "findSelected", [applicant |-> d.applicant, roles |-> d.asked])
      <4>1. /\ Moves(p, RecruitmentAwaits) /\ pc'[p] = "findSelected"
            /\ Data(p)' = [applicant |-> d.applicant, roles |-> d.asked]
        BY <2>3, <3>2 DEF RecruitmentAwaits
      <4>2. ApplicantTyped(p)'
        BY <3>1, <4>1 DEF ApplicantTyped, At
      <4>. QED
        BY <2>2, <2>14, <4>1, <4>2 DEF BeginSelect, recruitmentVars
    <3>3. CASE Finish(p)
      <4>1. Moves(p, RecruitmentAwaits) /\ pc'[p] = "done"
        BY <2>0, <3>3, Finishes
      <4>2. ApplicantTyped(p)'
        BY <4>1 DEF ApplicantTyped, At
      <4>. QED
        BY <2>2, <2>14, <4>1, <4>2 DEF BeginSelect, recruitmentVars
    <3>. QED
      BY <2>14, <3>2, <3>3 DEF BeginSelect
  <2>15. CASE FindSelected(p)
    <3>1. PICK objects : \E removed :
            /\ Go(p, "loadSelected", [applicant |-> d.applicant, objects |-> objects,
                                      removed |-> removed])
            /\ \A i \in DOMAIN objects : objects[i].row \in ApplicantRole
      BY <1>0, <2>0, <2>15, FindSelectedTyped
    <3>2. PICK removed :
            Go(p, "loadSelected", [applicant |-> d.applicant, objects |-> objects,
                                   removed |-> removed])
      BY <3>1
    <3>3. /\ Moves(p, RecruitmentAwaits) /\ pc'[p] = "loadSelected"
          /\ Data(p)' = [applicant |-> d.applicant, objects |-> objects, removed |-> removed]
      BY <2>3, <3>2 DEF RecruitmentAwaits
    <3>4. ApplicantTyped(p)'
      BY <3>1, <3>3 DEF ApplicantTyped, At
    <3>. QED
      BY <2>2, <2>15, <3>3, <3>4 DEF FindSelected
  <2>16. CASE LoadSelected(p)
    <3>. DEFINE stored(o) == o.id \in DOMAIN selected
                differ(o) == {c \in Columns : o.row[c] # selected[o.id][c]}
                change(o) == [id |-> o.id, insert |-> ~stored(o), row |-> o.row,
                              columns |-> IF stored(o) THEN differ(o) ELSE {}]
                changes == [i \in DOMAIN d.objects |-> change(d.objects[i])]
    <3>1. \A i \in DOMAIN d.objects : d.objects[i].row \in ApplicantRole
      BY <2>0, <2>16 DEF LoadSelected, ApplicantTyped, At
    <3>2. \A o : change(o).row = o.row
      OBVIOUS
    <3>3. \A i \in DOMAIN changes : changes[i].row \in ApplicantRole
      <4>. HIDE DEF change
      <4>. QED
        BY <3>1, <3>2
    <3>4. Go(p, "writeSelected",
             [applicant |-> d.applicant, removed |-> d.removed, changes |-> changes])
      BY <2>16 DEF LoadSelected
    <3>. HIDE DEF changes
    <3>5. /\ Moves(p, RecruitmentAwaits) /\ pc'[p] = "writeSelected"
          /\ Data(p)' = [applicant |-> d.applicant, removed |-> d.removed, changes |-> changes]
      BY <2>3, <3>4 DEF RecruitmentAwaits
    <3>6. ApplicantTyped(p)'
      BY <3>3, <3>5 DEF ApplicantTyped, At
    <3>. QED
      BY <2>2, <2>16, <3>5, <3>6 DEF LoadSelected, recruitmentVars
  <2>17. CASE WriteSelected(p)
    <3>1. \A r \in DOMAIN selected' : selected'[r] \in ApplicantRole
      BY <1>0, <2>0, <2>17, WriteSelectedTyped
    <3>2. Finish(p) /\ UNCHANGED <<setting, applicants>>
      BY <2>17 DEF WriteSelected
    <3>3. Moves(p, RecruitmentAwaits) /\ pc'[p] = "done"
      BY <2>0, <3>2, Finishes
    <3>4. ApplicantTyped(p)'
      BY <3>3 DEF ApplicantTyped, At
    <3>. QED
      BY <1>0, <2>1, <3>1, <3>2, <3>3, <3>4 DEF RecruitmentRowsTyped
  <2>18. CASE OfferApplicant(p)
    <3>1. PICK r \in DOMAIN selected : \E about, deadline :
            Accept(p, about, "offerApplicantRole",
                   [applicant |-> selected[r].applicant, row |-> r,
                    role |-> selected[r].role, expires |-> deadline])
      BY <2>18 DEF OfferApplicant
    <3>2. selected[r].role \in Roles
      BY <1>0 DEF RecruitmentRowsTyped, ApplicantRole
    <3>3. PICK deadline : \E about :
            Accept(p, about, "offerApplicantRole",
                   [applicant |-> selected[r].applicant, row |-> r,
                    role |-> selected[r].role, expires |-> deadline])
      BY <3>1
    <3>4. /\ Moves(p, RecruitmentAwaits) /\ pc'[p] = "offerApplicantRole"
          /\ Data(p)' = [applicant |-> selected[r].applicant, row |-> r,
                         role |-> selected[r].role, expires |-> deadline]
      BY <2>3, <3>3 DEF RecruitmentAwaits
    <3>5. ApplicantTyped(p)'
      BY <3>2, <3>4 DEF ApplicantTyped, At
    <3>. QED
      BY <2>2, <2>18, <3>4, <3>5 DEF OfferApplicant, recruitmentVars
  <2>19. CASE OfferApplicantRole(p)
    <3>1. d.role \in Roles /\ d.expires \in Times \cup {None}
      BY <2>0, <2>19 DEF OfferApplicantRole, ApplicantTyped, ApplicantAgrees, At
    <3>2. \A row \in ApplicantRole : \A named \in {d.role, None} :
            [row EXCEPT !.expires = d.expires, !.answered = None, !.accepted = FALSE,
                        !.named = named] \in ApplicantRole
      BY <3>1 DEF ApplicantRole
    <3>3. \A r \in DOMAIN selected' : selected'[r] \in ApplicantRole
      BY <1>0, <2>19, <3>2 DEF OfferApplicantRole, RecruitmentRowsTyped
    <3>4. Moves(p, RecruitmentAwaits) /\ pc'[p] = "done"
      BY <2>0, <2>19, Finishes DEF OfferApplicantRole
    <3>5. ApplicantTyped(p)'
      BY <3>4 DEF ApplicantTyped, At
    <3>. QED
      BY <1>0, <2>1, <2>19, <3>3, <3>4, <3>5 DEF OfferApplicantRole, RecruitmentRowsTyped
  <2>20. CASE BeginDecide(p) \/ CheckReady(p) \/ FindRole(p)
    <3>1. \/ Finish(p)
          \/ \E step \in {"checkReady", "findRole", "writeAnswer"} : \E data : Go(p, step, data)
      BY <2>20 DEF BeginDecide, CheckReady, FindRole
    <3>2. /\ Moves(p, RecruitmentAwaits)
          /\ pc'[p] \in {"done", "checkReady", "findRole", "writeAnswer"}
      BY <2>0, <2>3, <3>1, Finishes DEF RecruitmentAwaits
    <3>3. ApplicantTyped(p)'
      BY <3>2 DEF ApplicantTyped, At
    <3>. QED
      BY <2>2, <2>20, <3>2, <3>3 DEF BeginDecide, CheckReady, FindRole, recruitmentVars
  <2>21. CASE WriteAnswer(p)
    <3>1. d.accept \in BOOLEAN /\ d.at \in Times \cup {None}
      BY <2>0, <2>21 DEF WriteAnswer, ApplicantAgrees, At
    <3>2. \A row \in ApplicantRole :
            [row EXCEPT !.accepted = d.accept, !.answered = d.at] \in ApplicantRole
      BY <3>1 DEF ApplicantRole
    <3>3. \A r \in DOMAIN selected' : selected'[r] \in ApplicantRole
      BY <1>0, <2>21, <3>2 DEF WriteAnswer, RecruitmentRowsTyped
    <3>4. Moves(p, RecruitmentAwaits) /\ pc'[p] = "done"
      BY <2>0, <2>21, Finishes DEF WriteAnswer
    <3>5. ApplicantTyped(p)'
      BY <3>4 DEF ApplicantTyped, At
    <3>. QED
      BY <1>0, <2>1, <2>21, <3>3, <3>4, <3>5 DEF WriteAnswer, RecruitmentRowsTyped
  <2>. QED
    BY <1>1, <2>5, <2>6, <2>7, <2>8, <2>9, <2>10, <2>11, <2>12, <2>13, <2>14, <2>15, <2>16,
       <2>17, <2>18, <2>19, <2>20, <2>21
    DEF RecruitmentNext
<1>2. ASSUME UNCHANGED recruitmentVars, NEW p \in Requests, Die(p)  PROVE RecruitmentTyped'
  <2>1. area = "recruitment" => Moves(p, RecruitmentAwaits) /\ ApplicantTyped(p)'
    BY <1>2, Finishes DEF RecruitmentTyped, RecruitmentInv, Coherent, ApplicantTyped, At
  <2>2. RecruitmentRowsTyped'
    BY <1>0, <1>2 DEF RecruitmentRowsTyped, recruitmentVars
  <2>. QED
    BY <1>2, <2>1, <2>2, OneApplicantTyped DEF RecruitmentTyped, Moves, Die
<1>3. CASE area # "recruitment" /\ UNCHANGED <<area, recruitmentVars>>
  BY <1>0, <1>3 DEF RecruitmentTyped, RecruitmentRowsTyped, recruitmentVars
<1>4. CASE UNCHANGED <<serverVars, recruitmentVars>>
  <2>1. \A p \in Requests : ApplicantTyped(p) => ApplicantTyped(p)'
    BY <1>4 DEF ApplicantTyped, At, Data, serverVars
  <2>. QED
    BY <1>0, <1>4, <2>1 DEF RecruitmentTyped, RecruitmentRowsTyped, recruitmentVars, serverVars
<1>5. CASE area = "recruitment" /\ PassTime
  <2>1. UNCHANGED <<area, pc, req, setting, applicants, selected, issued>>
    BY <1>5 DEF PassTime, serverVars
  <2>2. now' \in Times
    BY <1>5, <2>1 DEF RecruitmentInv, Coherent, RowsAreRows
  <2>3. RecruitmentRowsTyped'
    BY <1>0, <2>1, <2>2 DEF RecruitmentRowsTyped
  <2>4. \A p \in Requests : ApplicantTyped(p) => ApplicantTyped(p)'
    BY <2>1 DEF ApplicantTyped, At, Data
  <2>. QED
    BY <2>1, <2>3, <2>4 DEF RecruitmentTyped
<1>. QED
  BY <1>1, <1>2, <1>3, <1>4, <1>5, RecruitmentSteps

(***************************************************************************)
(* All together                                                            *)
(***************************************************************************)

AreasInv ==
  /\ SchedulerInv /\ RecruitmentInv /\ RegistrationInv /\ MembersInv /\ DiscordInv
  /\ AlbumsInv /\ StreamInv /\ FormsInv /\ ActivitiesInv /\ DirectoryInv
  /\ AnnouncementsInv

ServerTyped ==
  /\ area \in Areas
  /\ SchedulerTyped /\ RecruitmentTyped /\ RegistrationTyped /\ MembersTyped
  /\ DiscordTyped /\ AlbumsTyped /\ ProfilePhotosTyped /\ StreamTyped /\ FormsTyped
  /\ ActivitiesTyped /\ DirectoryTypeOK /\ AnnouncementsTypeOK

LEMMA AreasInvAlways == Spec => []AreasInv
<1>1. Init => AreasInv
  BY SchedulerInvAtFirst, RecruitmentInvAtFirst, RegistrationInvAtFirst, MembersInvAtFirst,
     DiscordInvAtFirst, AlbumsInvAtFirst, StreamInvAtFirst, FormsInvAtFirst,
     ActivitiesInvAtFirst, DirectoryInvAtFirst, AnnouncementsInvAtFirst
  DEF AreasInv
<1>2. AreasInv /\ [Next]_vars => AreasInv'
  BY SchedulerInvKept, RecruitmentInvKeeps, RegistrationInvKept, MembersInvKept,
     DiscordInvKept, AlbumsInvKept, StreamInvKept, FormsInvKept, ActivitiesInvKept,
     DirectoryInvKept, AnnouncementsInvKept
  DEF AreasInv
<1>. QED
  BY <1>1, <1>2, PTL DEF Spec

(* In every area the tables have the types of their columns, with ids within their
   bounds and rows of other tables named only while they are there; and a request is at
   a step of a handler of the area, with data of the types its next statement writes. *)
THEOREM TypeCorrect == Spec => []TypeOK
<1>1. Init => ServerTyped
  <2>1. Init => area \in Areas
    BY DEF Init, InitRequests
  <2>. QED
    BY <2>1, SchedulerTypedAtFirst, RecruitmentTypedAtFirst, RegistrationTypedAtFirst,
       MembersTypedAtFirst, DiscordTypedAtFirst, AlbumsTypedAtFirst,
       ProfilePhotosTypedAtFirst, StreamTypedAtFirst, FormsTypedAtFirst,
       ActivitiesTypedAtFirst, DirectoryTypedAtFirst, AnnouncementsTypedAtFirst
    DEF ServerTyped
<1>2. AreasInv /\ AreasInv' /\ ServerTyped /\ [Next]_vars => ServerTyped'
  BY AreaStays, SchedulerTypedKept, RecruitmentTypedKept, RegistrationTypedKept,
     MembersTypedKept, DiscordTypedKept, AlbumsTypedKept, ProfilePhotosTypedKept,
     StreamTypedKept, FormsTypedKept, ActivitiesTypedKept, DirectoryTypedKept,
     AnnouncementsTypedKept
  DEF AreasInv, ServerTyped
<1>3. AreasInv /\ ServerTyped => TypeOK
  BY RecruitmentIsTyped, RegistrationIsTyped, MembersAreTyped, DiscordIsTyped,
     AlbumsAreTyped, FormsAreTyped, ActivitiesAreTyped
  DEF AreasInv, ServerTyped, SchedulerTyped, ProfilePhotosTyped, StreamTyped, TypeOK
<1>. QED
  BY <1>1, <1>2, <1>3, AreasInvAlways, PTL DEF Spec
===============================================================================
