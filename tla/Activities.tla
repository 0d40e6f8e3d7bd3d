------------------------------ MODULE Activities -------------------------------
(***************************************************************************)
(* The activities of the gallery with their tags (src/gallery/activity),    *)
(* and their videos (src/gallery/video). The titles of tags are unique;     *)
(* a tag that an activity names is looked for and made if there is none.    *)
(*                                                                         *)
(* Activities, tags and videos are in PostgreSQL, and each handler is one   *)
(* transaction of several statements at READ COMMITTED: it sees what others *)
(* commit in between, and shows nothing before it commits. What is known of *)
(* a video comes from YouTube, through a cache.                             *)
(*                                                                         *)
(* sent is history: the tags that were last sent for an activity.           *)
(***************************************************************************)
EXTENDS Requests

CONSTANTS
  Activity,  \* ids of activities (bound)
  TagTitles,
  TagIds,    \* 1.. (bound)
  Videos     \* ids at YouTube

(* There is an id for every title. *)
ASSUME TitlesAssumption ==
  IsFiniteSet(TagTitles) /\ 1..Cardinality(TagTitles) \subseteq TagIds

VARIABLES
  activity, \* gallery_activities, and gallery_activity_tags: id -> deleted, tags
  tag,      \* gallery_tags: id -> title
  video,    \* gallery_youtube_videos: id -> activity
  sent

activityVars == <<activity, tag, video, sent>>

ActivitiesAwaits ==
  {"resolveTags", "findActivity", "saveActivity", "saveTagsOnly", "saveVideo"}

ActivitiesTypeOK ==
  /\ area = "activities" => pc \in StepsAmong(ActivitiesAwaits)
  /\ DOMAIN activity \subseteq Activity
  /\ \A a \in DOMAIN activity : activity[a] \in [deleted : BOOLEAN, tags : SUBSET TagIds]
  /\ DOMAIN tag \subseteq TagIds
  /\ \A t \in DOMAIN tag : tag[t] \in TagTitles
  /\ DOMAIN video \subseteq Videos
  /\ \A v \in DOMAIN video : video[v] \in Activity
  /\ sent \in [Activity -> SUBSET TagTitles]

InitActivities ==
  /\ video = <<>>
  /\ \E title \in TagTitles, a \in Activity, tags \in SUBSET {1},
        old \in IF area = "activities" THEN BOOLEAN ELSE {FALSE} :
       /\ tag = IF old THEN <<title>> ELSE <<>>
       /\ activity = IF old THEN Put(<<>>, a, [deleted |-> FALSE, tags |-> tags]) ELSE <<>>
       /\ sent = [b \in Activity |-> IF old /\ b = a /\ tags # {} THEN {title} ELSE {}]

ActivityOf(a) == <<"activity", a>>

-------------------------------------------------------------------------------
(* POST gallery/activities, with an id of its own, and PUT gallery/activities/:id *)
CreateGalleryActivity(p) ==
  /\ Arrives(p, "activities")
  /\ \E a \in Activity \ DOMAIN activity, titles \in SUBSET TagTitles :
       /\ \A q \in Requests : ActivityOf(a) \notin req[q].about
       /\ Accept(p, {ActivityOf(a)}, "resolveTags", [id |-> a, titles |-> titles, new |-> TRUE])
  /\ UNCHANGED activityVars

UpdateGalleryActivity(p) ==
  /\ Arrives(p, "activities")
  /\ \E a \in DOMAIN activity, titles \in SUBSET TagTitles :
       Accept(p, {ActivityOf(a)}, "resolveTags", [id |-> a, titles |-> titles, new |-> FALSE])
  /\ UNCHANGED activityVars

(* resolveTagEntities: the tags that are there. A new activity has none to replace. *)
ResolveTagEntities(p) ==
  /\ At(p, "resolveTags")
  /\ LET d == Data(p)
         found == {t \in DOMAIN tag : tag[t] \in d.titles} IN
     Go(p, IF d.new THEN "saveActivity" ELSE "findActivity",
        [id |-> d.id, titles |-> d.titles, new |-> d.new, found |-> found,
         missing |-> d.titles \ {tag[t] : t \in found}, added |-> found, removed |-> {}])
  /\ UNCHANGED activityVars

(* findOneBy, which does not see what is softly deleted. Then save reads the tags of
   the activity again, and finds out which to add and which to remove. *)
FindActivity(p) ==
  /\ At(p, "findActivity")
  /\ LET d == Data(p) IN
     IF activity[d.id].deleted
       THEN Go(p, "saveTagsOnly", d)
       ELSE Go(p, "saveActivity",
               Edited(d, [added |-> d.found \ activity[d.id].tags,
                          removed |-> activity[d.id].tags \ d.found]))
  /\ UNCHANGED activityVars

(* The transaction inserts the missing tags, which fails if others have been faster,
   then what belongs to the activity, and commits. *)
NewTags(missing) ==
  LET n == Cardinality(DOMAIN tag) IN
  {f \in [(n + 1)..(n + Cardinality(missing)) -> missing] :
     \A t, u \in DOMAIN f : f[t] = f[u] => t = u}
WithTags(new) ==
  [t \in DOMAIN tag \cup DOMAIN new |-> IF t \in DOMAIN new THEN new[t] ELSE tag[t]]
Taken(missing) == \E t \in DOMAIN tag : tag[t] \in missing

\* mutant: tags are only added
TagsKept(old, d) == old \cup d.added
TagsReplaced(old, d) == (old \ d.removed) \cup d.added

SaveActivity(p) ==
  /\ At(p, "saveActivity")
  /\ LET d == Data(p)
         old == IF d.new THEN [deleted |-> FALSE, tags |-> {}] ELSE activity[d.id] IN
     IF Taken(d.missing) THEN UNCHANGED activityVars
     ELSE \E new \in NewTags(d.missing) :
       /\ tag' = WithTags(new)
       /\ activity' = Put(activity, d.id,
            [deleted |-> old.deleted, tags |-> TagsReplaced(old.tags, d) \cup DOMAIN new])
       /\ sent' = [sent EXCEPT ![d.id] = d.titles]
       /\ UNCHANGED video
  /\ Finish(p)

(* The tags of an activity that is not found are committed all the same. *)
SaveTagsOnly(p) ==
  /\ At(p, "saveTagsOnly")
  /\ LET missing == Data(p).missing IN
     tag' \in IF Taken(missing) THEN {tag} ELSE {WithTags(new) : new \in NewTags(missing)}
  /\ Finish(p)
  /\ UNCHANGED <<activity, video, sent>>

(* DELETE gallery/activities/:id: softly; nothing cascades. *)
DeleteGalleryActivity(p) ==
  /\ Arrives(p, "activities")
  /\ \E a \in DOMAIN activity :
       /\ activity' = Put(activity, a, [deleted |-> TRUE, tags |-> activity[a].tags])
       /\ Serve(p, {ActivityOf(a)})
  /\ UNCHANGED <<tag, video, sent>>

-------------------------------------------------------------------------------
(* POST gallery/videos: save finds the video's row, or none; *)
CreateGalleryVideo(p) ==
  /\ Arrives(p, "activities")
  /\ \E v \in Videos, a \in DOMAIN activity :
       Accept(p, {<<"video", v>>}, "saveVideo",
              [video |-> v, activity |-> a, insert |-> v \notin DOMAIN video])
  /\ UNCHANGED activityVars

(* it is inserted, or moves to the activity, and YouTube is asked about it. An
   insert fails if another request has inserted it, an update of a row that is gone
   changes nothing, and if YouTube fails, so does the transaction. *)
SaveVideo(p) ==
  /\ At(p, "saveVideo")
  /\ LET d == Data(p) IN
     \/ video' = IF d.insert = (d.video \in DOMAIN video) THEN video
                 ELSE Put(video, d.video, d.activity)
     \/ UNCHANGED video
  /\ Finish(p)
  /\ UNCHANGED <<activity, tag, sent>>

(* DELETE gallery/videos/:id *)
DeleteGalleryVideo(p) ==
  /\ Arrives(p, "activities")
  /\ \E v \in DOMAIN video :
       /\ video' = [other \in DOMAIN video \ {v} |-> video[other]]
       /\ Serve(p, {<<"video", v>>})
  /\ UNCHANGED <<activity, tag, sent>>

ActivitiesNext(p) ==
  \/ CreateGalleryActivity(p) \/ UpdateGalleryActivity(p) \/ DeleteGalleryActivity(p)
  \/ ResolveTagEntities(p) \/ FindActivity(p) \/ SaveActivity(p) \/ SaveTagsOnly(p)
  \/ CreateGalleryVideo(p) \/ SaveVideo(p) \/ DeleteGalleryVideo(p)

-------------------------------------------------------------------------------
(* No title has two tags, although tags are looked for before they are made; and an
   activity that only one request at a time was about has the tags that were last
   sent for it, whatever others make of the same tags. *)
ActivitiesHaveTheirTags ==
  /\ \A t, u \in DOMAIN tag : tag[t] = tag[u] => t = u
  /\ \A a \in DOMAIN activity :
       ActivityOf(a) \notin crossed => {tag[t] : t \in activity[a].tags} = sent[a]
===============================================================================
