-------------------------------- MODULE Albums --------------------------------
(***************************************************************************)
(* The albums of an activity (src/gallery/album): their order, and the      *)
(* upload tasks that tell uploaders about them. Albums are in PostgreSQL,   *)
(* upload tasks in MongoDB, which knows nothing of the transactions.        *)
(*                                                                         *)
(* A folder stands for all the settings that make an album uploadable. A    *)
(* row is pending until its transaction commits, and for ever if that dies. *)
(* edited and ranking are history: the albums that were updated, and the    *)
(* last ranking: place -> album, of those that were listed.                *)
(***************************************************************************)
EXTENDS Requests

CONSTANTS
  AlbumIds, \* 1.. (bound)
  Folders,  \* upload directories
  NoFolder,
  NoAlbum   \* the album of a task that has none

ASSUME AlbumsAssumption ==
  /\ 1..2 \subseteq AlbumIds
  /\ NoAlbum \notin AlbumIds
  /\ Folders # {}

VARIABLES
  album,      \* gallery_albums: id -> rank, folder and state
  uploadTask, \* tasks of MongoDB: album -> folder
  edited, ranking

albumVars == <<album, uploadTask, edited, ranking>>

GalleryAlbum ==
  [rank : Nat, folder : Folders \cup {NoFolder}, state : {"pending", "listed", "deleted"}]

AlbumsAwaits ==
  {"insertAlbum", "upsertTask", "commitAlbum", "loadAlbum", "loadRanks", "writeRanks"}

AlbumsTypeOK ==
  /\ area = "albums" => pc \in StepsAmong(AlbumsAwaits)
  /\ DOMAIN album \subseteq AlbumIds
  /\ \A a \in DOMAIN album : album[a] \in GalleryAlbum
  /\ DOMAIN uploadTask \subseteq AlbumIds \cup {NoAlbum}
  /\ \A a \in DOMAIN uploadTask : uploadTask[a] \in Folders
  /\ edited \subseteq AlbumIds
  /\ DOMAIN ranking \subseteq 1..2
  /\ \A i \in DOMAIN ranking : ranking[i] \in AlbumIds

InitAlbums ==
  /\ edited = {} /\ ranking = <<>>
  /\ \E n \in IF area = "albums" THEN 0..2 ELSE {0} :
       LET folder == CHOOSE f \in Folders : TRUE IN
       /\ album = [a \in 1..n |-> [rank |-> a - 1, folder |-> folder, state |-> "listed"]]
       /\ uploadTask = [a \in 1..n |-> folder]

Listed == {a \in DOMAIN album : album[a].state = "listed"}

-------------------------------------------------------------------------------
(* POST gallery/albums: create, one transaction, counts the albums *)
CreateAlbum(p) ==
  /\ Arrives(p, "albums")
  /\ \E folder \in Folders \cup {NoFolder} :
       Accept(p, {<<"create">>}, "insertAlbum",
              [folder |-> folder, rank |-> Cardinality(Listed)])
  /\ UNCHANGED albumVars

InsertAlbum(p) ==
  /\ At(p, "insertAlbum")
  /\ LET d == Data(p)
         free == AlbumIds \ DOMAIN album IN
     \E id \in free :
       /\ \A other \in free : id <= other
       /\ album' = Put(album, id, [rank |-> d.rank, folder |-> d.folder, state |-> "pending"])
       /\ Go(p, IF d.folder = NoFolder THEN "commitAlbum" ELSE "upsertTask",
             [id |-> id, task |-> id, folder |-> d.folder, columns |-> <<>>])
  /\ UNCHANGED <<uploadTask, edited, ranking>>

(* upsertUploadTaskInfo, of create and of update *)
\* mutant: no task is written
UpsertNoTask(p) ==
  /\ At(p, "upsertTask")
  /\ Go(p, "commitAlbum", Data(p))
  /\ UNCHANGED albumVars
UpsertUploadTaskInfo(p) ==
  /\ At(p, "upsertTask")
  /\ LET d == Data(p) IN
     /\ uploadTask' = Put(uploadTask, d.task, d.folder)
     /\ Go(p, "commitAlbum", d)
  /\ UNCHANGED <<album, edited, ranking>>

Saved(row, columns) ==
  [rank |-> IF "rank" \in DOMAIN columns THEN columns["rank"] ELSE row.rank,
   folder |-> IF "folder" \in DOMAIN columns THEN columns["folder"] ELSE row.folder,
   state |-> IF row.state = "pending" THEN "listed" ELSE row.state]

CommitAlbum(p) ==
  /\ At(p, "commitAlbum")
  /\ album' = [album EXCEPT ![Data(p).id] = Saved(@, Data(p).columns)]
  /\ Finish(p)
  /\ UNCHANGED <<uploadTask, edited, ranking>>

-------------------------------------------------------------------------------
(* PUT gallery/albums/:albumId: update merges what was sent into the row it found,
   which save writes where it differs from the row it reads again. The task is
   looked up with what was sent, and that has no id. *)
\* mutant: columns that were not sent are written, too
UpdateWholeAlbum(p) ==
  /\ Arrives(p, "albums")
  /\ \E a \in Listed, folder \in Folders :
       Accept(p, {<<"rank">>}, "loadAlbum",
              [id |-> a, folder |-> folder, entity |-> [rank |-> 0, folder |-> folder]])
  /\ UNCHANGED albumVars
UpdateAlbum(p) ==
  /\ Arrives(p, "albums")
  /\ \E a \in Listed, folder \in Folders \cup {NoFolder} :
       Accept(p, {<<"rank">>}, "loadAlbum",
              [id |-> a, folder |-> folder,
               entity |-> [rank |-> album[a].rank,
                           folder |-> IF folder = NoFolder THEN album[a].folder ELSE folder]])
  /\ UNCHANGED albumVars

Differing(entity, a) ==
  [c \in {c \in {"rank", "folder"} : entity[c] # album[a][c]} |-> entity[c]]

LoadAlbum(p) ==
  /\ At(p, "loadAlbum")
  /\ LET d == Data(p) IN
     /\ edited' = edited \cup {d.id}
     /\ Go(p, IF d.folder = NoFolder THEN "commitAlbum" ELSE "upsertTask",
           [id |-> d.id, task |-> NoAlbum, folder |-> d.folder,
            columns |-> Differing(d.entity, d.id)])
  /\ UNCHANGED <<album, uploadTask, ranking>>

(* DELETE gallery/albums/:albumId: remove, softly. The task stays. *)
RemoveAlbum(p) ==
  /\ Arrives(p, "albums")
  /\ \E a \in Listed : album' = [album EXCEPT ![a].state = "deleted"]
  /\ Serve(p, {<<"remove">>})
  /\ UNCHANGED <<uploadTask, edited, ranking>>

-------------------------------------------------------------------------------
(* PUT gallery/albums/rank: rankAlbums reads the albums; those that are not in the
   body come behind those that are. *)
Orders == UNION {{s \in [1..n -> AlbumIds] : \A i, j \in 1..n : s[i] = s[j] => i = j} : n \in 1..2}

RankOf(order, a) ==
  IF \E i \in DOMAIN order : order[i] = a
    THEN (CHOOSE i \in DOMAIN order : order[i] = a) - 1
    ELSE Len(order)

RankAlbums(p) ==
  /\ Arrives(p, "albums")
  /\ \E order \in Orders :
       Accept(p, {<<"rank">>}, "loadRanks",
              [order |-> [i \in {i \in DOMAIN order : order[i] \in Listed} |-> order[i]],
               ranks |-> [a \in Listed |-> RankOf(order, a)]])
  /\ UNCHANGED albumVars

(* Each save reads its row again. *)
LoadRanks(p) ==
  /\ At(p, "loadRanks")
  /\ LET d == Data(p) IN
     Go(p, "writeRanks",
        [order |-> d.order,
         ranks |-> [a \in {a \in DOMAIN d.ranks : d.ranks[a] # album[a].rank} |-> d.ranks[a]]])
  /\ UNCHANGED albumVars

WriteRanks(p) ==
  /\ At(p, "writeRanks")
  /\ LET d == Data(p) IN
     /\ album' = [a \in DOMAIN album |->
          IF a \in DOMAIN d.ranks THEN [album[a] EXCEPT !.rank = d.ranks[a]] ELSE album[a]]
     /\ ranking' = d.order
  /\ Finish(p)
  /\ UNCHANGED <<uploadTask, edited>>

AlbumsNext(p) ==
  \/ CreateAlbum(p) \/ InsertAlbum(p) \/ UpsertUploadTaskInfo(p) \/ CommitAlbum(p)
  \/ UpdateAlbum(p) \/ LoadAlbum(p) \/ RemoveAlbum(p)
  \/ RankAlbums(p) \/ LoadRanks(p) \/ WriteRanks(p)

-------------------------------------------------------------------------------
(* Whatever dies in between the two databases, an album that is listed and was made
   uploadable has its task, with its folder until the album is updated. *)
AlbumsHaveTasks ==
  \A a \in Listed \ edited :
    album[a].folder # NoFolder => a \in DOMAIN uploadTask /\ uploadTask[a] = album[a].folder

(* The albums of the last ranking stand in its order, through updates, removals and
   creations, unless an update or another ranking was under way meanwhile. *)
RankingsStand ==
  <<"rank">> \notin crossed =>
    \A i, j \in DOMAIN ranking :
      i < j /\ ranking[i] \in Listed /\ ranking[j] \in Listed
        => album[ranking[i]].rank < album[ranking[j]].rank
===============================================================================
