-------------------------------- MODULE Server --------------------------------
(***************************************************************************)
(* The areas of the server, each with its tables and all that writes them.  *)
(* Handlers of one area interleave at every await, and any of them may die. *)
(***************************************************************************)
EXTENDS Scheduler, Recruitment, Registration, Members, DiscordSync, Albums,
        ProfilePhotos, PhotoStream, Forms, Activities, Directory, Announcements

vars == <<serverVars, scheduled, recruitmentVars, registrationVars, memberVars,
          discordVars, albumVars, profilePhotoVars, photoStreamVars, formVars,
          activityVars, directoryVars, announcementVars>>

TypeOK ==
  /\ area \in Areas
  /\ SchedulerTypeOK
  /\ RecruitmentTypeOK
  /\ RegistrationTypeOK
  /\ MembersTypeOK
  /\ DiscordTypeOK
  /\ AlbumsTypeOK
  /\ ProfilePhotosTypeOK
  /\ PhotoStreamTypeOK
  /\ FormsTypeOK
  /\ ActivitiesTypeOK
  /\ DirectoryTypeOK
  /\ AnnouncementsTypeOK

Init ==
  /\ InitRequests
  /\ InitScheduler
  /\ InitRecruitment
  /\ InitRegistration
  /\ InitMembers
  /\ InitDiscord
  /\ InitAlbums
  /\ InitProfilePhotos
  /\ InitPhotoStream
  /\ InitForms
  /\ InitActivities
  /\ InitDirectory
  /\ InitAnnouncements

(* What the handlers of an area leave alone: the tables of the others. *)
OutsideOfScheduler == UNCHANGED
  <<area, recruitmentVars, registrationVars, memberVars, discordVars, albumVars,
    profilePhotoVars, photoStreamVars, formVars, activityVars, directoryVars,
    announcementVars>>
OutsideOfRecruitment == UNCHANGED
  <<area, scheduled, registrationVars, memberVars, discordVars, albumVars,
    profilePhotoVars, photoStreamVars, formVars, activityVars, directoryVars,
    announcementVars>>
OutsideOfRegistration == UNCHANGED
  <<area, scheduled, recruitmentVars, memberVars, discordVars, albumVars,
    profilePhotoVars, photoStreamVars, formVars, activityVars, directoryVars,
    announcementVars>>
OutsideOfMembers == UNCHANGED
  <<area, scheduled, recruitmentVars, registrationVars, discordVars, albumVars,
    profilePhotoVars, photoStreamVars, formVars, activityVars, directoryVars,
    announcementVars>>
OutsideOfDiscordSync == UNCHANGED
  <<area, scheduled, recruitmentVars, registrationVars, memberVars, albumVars,
    profilePhotoVars, photoStreamVars, formVars, activityVars, directoryVars,
    announcementVars>>
OutsideOfAlbums == UNCHANGED
  <<area, scheduled, recruitmentVars, registrationVars, memberVars, discordVars,
    profilePhotoVars, photoStreamVars, formVars, activityVars, directoryVars,
    announcementVars>>
OutsideOfProfilePhotos == UNCHANGED
  <<area, scheduled, recruitmentVars, registrationVars, memberVars, discordVars,
    albumVars, photoStreamVars, formVars, activityVars, directoryVars,
    announcementVars>>
OutsideOfPhotoStream == UNCHANGED
  <<area, scheduled, recruitmentVars, registrationVars, memberVars, discordVars,
    albumVars, profilePhotoVars, formVars, activityVars, directoryVars,
    announcementVars>>
OutsideOfForms == UNCHANGED
  <<area, scheduled, recruitmentVars, registrationVars, memberVars, discordVars,
    albumVars, profilePhotoVars, photoStreamVars, activityVars, directoryVars,
    announcementVars>>
OutsideOfActivities == UNCHANGED
  <<area, scheduled, recruitmentVars, registrationVars, memberVars, discordVars,
    albumVars, profilePhotoVars, photoStreamVars, formVars, directoryVars,
    announcementVars>>
OutsideOfDirectory == UNCHANGED
  <<area, scheduled, recruitmentVars, registrationVars, memberVars, discordVars,
    albumVars, profilePhotoVars, photoStreamVars, formVars, activityVars,
    announcementVars>>
OutsideOfAnnouncements == UNCHANGED
  <<area, scheduled, recruitmentVars, registrationVars, memberVars, discordVars,
    albumVars, profilePhotoVars, photoStreamVars, formVars, activityVars,
    directoryVars>>

Handle(p) ==
  \/ area = "scheduler" /\ SchedulerNext(p) /\ OutsideOfScheduler
  \/ area = "recruitment" /\ RecruitmentNext(p) /\ OutsideOfRecruitment
  \/ area = "registration" /\ RegistrationNext(p) /\ OutsideOfRegistration
  \/ area = "members" /\ MembersNext(p) /\ OutsideOfMembers
  \/ area = "discord" /\ DiscordNext(p) /\ OutsideOfDiscordSync
  \/ area = "albums" /\ AlbumsNext(p) /\ OutsideOfAlbums
  \/ area = "profilePhotos" /\ ProfilePhotosNext(p) /\ OutsideOfProfilePhotos
  \/ area = "photoStream" /\ PhotoStreamNext(p) /\ OutsideOfPhotoStream
  \/ area = "forms" /\ FormsNext(p) /\ OutsideOfForms
  \/ area = "activities" /\ ActivitiesNext(p) /\ OutsideOfActivities
  \/ area = "directory" /\ DirectoryNext(p) /\ OutsideOfDirectory
  \/ area = "announcements" /\ AnnouncementsNext(p) /\ OutsideOfAnnouncements

Crash(p) ==
  /\ Die(p)
  /\ UNCHANGED <<area, scheduled, recruitmentVars, registrationVars, memberVars,
                 discordVars, albumVars, profilePhotoVars, photoStreamVars,
                 formVars, activityVars, directoryVars, announcementVars>>

(* What happens without a request. *)
Environment ==
  \/ PassTime /\ OutsideOfRecruitment
  \/ ExpireToken /\ OutsideOfRegistration
  \/ ExpireCache /\ OutsideOfDiscordSync
  \/ ProcessPhoto /\ OutsideOfProfilePhotos
  \/ PassTick /\ OutsideOfAnnouncements

Next ==
  \/ \E p \in Requests : Handle(p) \/ Crash(p)
  \/ Environment

Spec == Init /\ [][Next]_vars
===============================================================================
