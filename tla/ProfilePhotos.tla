---------------------------- MODULE ProfilePhotos -----------------------------
(***************************************************************************)
(* Photos of profiles: imported from the NAS (src/accounts/profile), scaled *)
(* by the workers of the photo queue (src/photo), and shown. The id of a    *)
(* photo is made of its contents.                                          *)
(*                                                                         *)
(* ruined is history: the files whose job failed.                          *)
(***************************************************************************)
EXTENDS Requests

CONSTANTS
  Members, \* profiles
  Photos,  \* contents of files of the NAS
  NoPhoto,
  HasEmail \* the members who have an e-mail address

VARIABLES
  photoOf,   \* profiles: member -> photo
  tels,      \* profiles: the members who have telephone numbers
  photoRows, \* profile_photos: photo -> member
  photoJobs, \* of the queue
  files,     \* of the storage
  ruined

profilePhotoVars == <<photoOf, tels, photoRows, photoJobs, files, ruined>>

(* What a job makes: a file of the photo in a format, or the avatar of a member. *)
Products == [format : {"webp", "jpeg"}, photo : Photos]
              \cup [avatarOf : HasEmail, photo : Photos]

ProfilePhotosAwaits == {"addJobs", "savePhoto", "saveProfile"}

ProfilePhotosTypeOK ==
  /\ area = "profilePhotos" => pc \in StepsAmong(ProfilePhotosAwaits)
  /\ photoOf \in [Members -> Photos \cup {NoPhoto}]
  /\ tels \subseteq Members
  /\ DOMAIN photoRows \subseteq Photos
  /\ \A photo \in DOMAIN photoRows : photoRows[photo] \in Members
  /\ photoJobs \subseteq Products /\ files \subseteq Products /\ ruined \subseteq Products

InitProfilePhotos ==
  /\ photoOf = [m \in Members |-> NoPhoto]
  /\ tels = Members
  /\ photoRows = <<>>
  /\ photoJobs = {} /\ files = {} /\ ruined = {}

-------------------------------------------------------------------------------
(* PUT profiles/:profileId/photos: importFromNas finds the profile, without its
   telephone numbers, and reads the photo; *)
FilesOf(photo) == [format : {"webp", "jpeg"}, photo : {photo}]
ProductsOf(m, photo) ==
  FilesOf(photo) \cup [avatarOf : {m} \cap HasEmail, photo : {photo}]

\* mutant: the photo is saved and its jobs are not queued
SaveFirst(p) ==
  /\ Arrives(p, "profilePhotos")
  /\ \E m \in Members, photo \in Photos :
       Accept(p, {<<"photo", m>>}, "savePhoto", [member |-> m, photo |-> photo])
  /\ UNCHANGED profilePhotoVars
ImportProfilePhoto(p) ==
  /\ Arrives(p, "profilePhotos")
  /\ \E m \in Members, photo \in Photos :
       Accept(p, {<<"photo", m>>}, "addJobs",
              [member |-> m, photo |-> photo, jobs |-> ProductsOf(m, photo)])
  /\ UNCHANGED profilePhotoVars

(* adds the jobs, together; *)
AddJob(p) ==
  /\ At(p, "addJobs")
  /\ LET d == Data(p) IN
     \E job \in d.jobs :
       /\ photoJobs' = photoJobs \cup {job}
       /\ ruined' = ruined \ {job}
       /\ Go(p, IF d.jobs = {job} THEN "savePhoto" ELSE "addJobs",
             IF d.jobs = {job} THEN [member |-> d.member, photo |-> d.photo]
             ELSE [member |-> d.member, photo |-> d.photo, jobs |-> d.jobs \ {job}])
  /\ UNCHANGED <<photoOf, tels, photoRows, files>>

(* saves the row of the photo, that of another member if it was hers before; *)
SavePhoto(p) ==
  /\ At(p, "savePhoto")
  /\ photoRows' = Put(photoRows, Data(p).photo, Data(p).member)
  /\ Go(p, "saveProfile", Data(p))
  /\ UNCHANGED <<photoOf, tels, photoJobs, files, ruined>>

(* and then the profile as it was found: with the photo and without numbers. *)
SaveProfile(p) ==
  /\ At(p, "saveProfile")
  /\ photoOf' = [photoOf EXCEPT ![Data(p).member] = Data(p).photo]
  /\ tels' = tels \ {Data(p).member}
  /\ Finish(p)
  /\ UNCHANGED <<photoRows, photoJobs, files, ruined>>

-------------------------------------------------------------------------------
(* PhotoConsumerService.process: of a worker that dies another takes over. *)
ProcessPhoto ==
  /\ area = "profilePhotos"
  /\ \E job \in photoJobs :
       /\ photoJobs' = photoJobs \ {job}
       /\ \/ files' = files \cup {job} /\ UNCHANGED ruined
          \/ ruined' = ruined \cup {job} /\ UNCHANGED files
  /\ UNCHANGED <<serverVars, photoOf, tels, photoRows>>

ProfilePhotosNext(p) ==
  \/ ImportProfilePhoto(p) \/ AddJob(p) \/ SavePhoto(p) \/ SaveProfile(p)

-------------------------------------------------------------------------------
(* The photo of a profile has its row, and its files or jobs that will make them,
   whatever imports cross or die, unless such a job fails. *)
PhotosWillShow ==
  \A m \in Members :
    photoOf[m] # NoPhoto =>
      /\ photoOf[m] \in DOMAIN photoRows
      /\ FilesOf(photoOf[m]) \subseteq files \cup photoJobs \cup ruined
===============================================================================
