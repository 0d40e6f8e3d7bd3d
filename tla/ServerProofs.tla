------------------------------ MODULE ServerProofs -----------------------------
(***************************************************************************)
(* Theorems about areas of Server, for any number of requests. An area is  *)
(* only disturbed by its own handlers and by the death of one, so each     *)
(* theorem has a lemma that says what a step of the server is to its area, *)
(* an inductive invariant of the area, and a step per handler.             *)
(***************************************************************************)
EXTENDS Server, FiniteSetTheorems, TLAPS

(***************************************************************************)
(* Requests                                                                *)
(***************************************************************************)

(* Every request is at a step, and carries what it is about and its data. *)
Sent ==
  /\ pc = [q \in Requests |-> pc[q]]
  /\ req = [q \in Requests |-> [about |-> req[q].about, data |-> req[q].data]]

Others(p) == \A q \in Requests \ {p} : pc'[q] = pc[q] /\ req'[q] = req[q]

LEMMA SentAtFirst == InitRequests => Sent
BY DEF InitRequests, Sent, Blank

LEMMA AcceptStep ==
  ASSUME Sent, NEW p \in Requests, NEW about, NEW step, NEW data,
         Accept(p, about, step, data)
  PROVE  /\ Sent'
         /\ pc'[p] = step
         /\ req'[p] = [about |-> about, data |-> data]
         /\ Others(p)
BY DEF Sent, Accept, Others

LEMMA GoStep ==
  ASSUME Sent, NEW p \in Requests, NEW step, NEW data, Go(p, step, data)
  PROVE  /\ Sent'
         /\ pc'[p] = step
         /\ req'[p].about = req[p].about
         /\ req'[p].data = data
         /\ Others(p)
<1>1. req[p] = [about |-> req[p].about, data |-> req[p].data]
  BY DEF Sent
<1>2. [req[p] EXCEPT !.data = data] = [about |-> req[p].about, data |-> data]
  BY <1>1
<1>3. req' = [req EXCEPT ![p] = [about |-> req[p].about, data |-> data]]
  BY <1>2 DEF Go
<1>. QED  BY <1>3 DEF Sent, Go, Others

LEMMA FinishStep ==
  ASSUME Sent, NEW p \in Requests, Finish(p)
  PROVE  Sent' /\ pc'[p] = "done" /\ Others(p)
BY DEF Sent, Finish, Others, Blank

LEMMA ServeStep ==
  ASSUME Sent, NEW p \in Requests, NEW about, Serve(p, about)
  PROVE  Sent' /\ pc'[p] = "done" /\ Others(p) /\ UNCHANGED <<area, req, broken>>
BY DEF Sent, Serve, Others

LEMMA DieStep ==
  ASSUME Sent, NEW p \in Requests, Die(p)
  PROVE  Sent' /\ pc'[p] = "done" /\ Others(p) /\ broken' = broken \cup req[p].about
BY DEF Sent, Die, Others, Blank

(***************************************************************************)
(* Requests that are under way together                                    *)
(***************************************************************************)

(* What two of them are about has crossed. *)
Alone ==
  \A p, q \in Requests :
    p # q /\ InFlight(p) /\ InFlight(q) => req[p].about \cap req[q].about \subseteq crossed

LEMMA AcceptAlone ==
  ASSUME Sent, Alone, NEW p \in Requests, NEW about, NEW step, NEW data,
         Accept(p, about, step, data)
  PROVE  Alone' /\ crossed \subseteq crossed'
<1>0. Others(p) /\ req'[p] = [about |-> about, data |-> data]
  BY AcceptStep
<1>1. Others(p) /\ req'[p].about = about
  BY <1>0
<1>2. crossed' = crossed \cup Shared(about)
  BY DEF Accept
<1>3. ASSUME NEW q \in Requests, q # p, InFlight(q)'
      PROVE  about \cap req'[q].about \subseteq crossed'
  BY <1>1, <1>2, <1>3 DEF Shared, Others, InFlight
<1>. QED  BY <1>1, <1>2, <1>3 DEF Alone, Others, InFlight

LEMMA GoAlone ==
  ASSUME Sent, Alone, NEW p \in Requests, NEW step, NEW data, InFlight(p),
         Go(p, step, data)
  PROVE  Alone' /\ crossed' = crossed
<1>1. Others(p) /\ req'[p].about = req[p].about /\ crossed' = crossed
  BY GoStep DEF Go
<1>. QED  BY <1>1 DEF Alone, Others, InFlight

LEMMA FinishAlone ==
  ASSUME Sent, Alone, NEW p \in Requests, Finish(p) \/ Die(p)
  PROVE  /\ Sent' /\ Alone' /\ crossed' = crossed /\ area' = area
         /\ pc'[p] = "done" /\ Others(p)
<1>1. Sent' /\ pc'[p] = "done" /\ Others(p) /\ crossed' = crossed /\ area' = area
  BY FinishStep, DieStep DEF Finish, Die
<1>. QED  BY <1>1 DEF Alone, Others, InFlight

(***************************************************************************)
(* Small sets                                                              *)
(***************************************************************************)

LEMMA AtMostOne ==
  ASSUME NEW S, IsFiniteSet(S), Cardinality(S) <= 1, NEW a \in S, NEW b \in S
  PROVE  a = b
<1>1. Cardinality(S) \in Nat /\ Cardinality(S) # 0
  BY FS_CardinalityType, FS_EmptySet
<1>2. Cardinality(S) = 1
  BY <1>1
<1>. QED  BY <1>2, FS_Singleton

LEMMA OfOne ==
  ASSUME NEW S, NEW a, S \subseteq {a}
  PROVE  Cardinality(S) <= 1
<1>1. CASE S = {}
  BY <1>1, FS_EmptySet
<1>2. CASE S = {a}
  BY <1>2, FS_Singleton
<1>. QED  BY <1>1, <1>2

LEMMA OfTwo ==
  ASSUME NEW S, NEW a, NEW b, S \subseteq {a, b}
  PROVE  Cardinality(S) <= 2
<1>1. IsFiniteSet({a}) /\ Cardinality({a}) = 1
  BY FS_Singleton
<1>2. IsFiniteSet({a} \cup {b}) /\ Cardinality({a} \cup {b}) <= 2
  BY <1>1, FS_AddElement
<1>3. S \in SUBSET ({a} \cup {b})
  OBVIOUS
<1>4. Cardinality(S) <= Cardinality({a} \cup {b}) /\ IsFiniteSet(S)
  BY <1>2, <1>3, FS_Subset
<1>. QED  BY <1>2, <1>4, FS_CardinalityType

(***************************************************************************)
(* PhotoStream: stored copies                                              *)
(***************************************************************************)

LEMMA StreamSteps ==
  ASSUME [Next]_vars
  PROVE  \/ area = "photoStream" /\ \E p \in Requests : PhotoStreamNext(p)
         \/ UNCHANGED photoStreamVars /\ \E p \in Requests : Die(p)
         \/ area # "photoStream" /\ UNCHANGED <<area, photoStreamVars>>
         \/ UNCHANGED <<serverVars, photoStreamVars>>
BY DEF Next, vars, Handle, Crash, Environment, PassTime, ExpireToken, ExpireCache,
  ProcessPhoto, OutsideOfScheduler, OutsideOfRecruitment, OutsideOfRegistration,
  OutsideOfMembers, OutsideOfDiscordSync, OutsideOfAlbums, OutsideOfProfilePhotos,
  OutsideOfPhotoStream, OutsideOfForms, OutsideOfActivities, OutsideOfDirectory,
  OutsideOfAnnouncements, PassTick

LEMMA SizesAreNumbers == \A size \in Sizes : size \in Nat /\ size >= size
BY PhotoStreamAssumption

(* What stored copies are made of *)
CopiesAreMade ==
  /\ copies = [size \in DOMAIN copies |-> copies[size]]
  /\ DOMAIN copies \subseteq Sizes
  /\ \A size \in DOMAIN copies : copies[size] \in Made

(* What a request will use or store is no smaller than what was asked for. *)
StreamAgrees(p) ==
  /\ At(p, "tryStream") => Data(p).target \in PhotoPath
  /\ At(p, "tryProcess") =>
       /\ Data(p).target \in PhotoPath
       /\ Data(p).current \in Sizes
       /\ Data(p).current >= Data(p).target.size
  /\ At(p, "tryOriginal") => Data(p).target \in PhotoPath
  /\ At(p, "saveBuffer") =>
       /\ Data(p).size \in Sizes
       /\ Data(p).made \in Made
       /\ Data(p).made.least >= Data(p).size
       /\ Data(p).made.marked

StreamInv ==
  /\ CopiesAreMade
  /\ CopiesAreGood
  /\ area = "photoStream" => Sent /\ \A p \in Requests : StreamAgrees(p)

(* The steps that only one request notices. *)
LEMMA OneStreamAgrees ==
  ASSUME \A q \in Requests : StreamAgrees(q), NEW p \in Requests, Others(p), StreamAgrees(p)'
  PROVE  (\A q \in Requests : StreamAgrees(q))'
BY DEF StreamAgrees, Others, At, Data

LEMMA FallBackAgrees ==
  ASSUME Sent, NEW p \in Requests, NEW target \in PhotoPath, NEW size \in Sizes,
         NEW isSource \in BOOLEAN, size >= target.size, FallBack(p, target, size, isSource)
  PROVE  Sent' /\ Others(p) /\ StreamAgrees(p)'
<1>. DEFINE next == NextFallback(size, isSource)
<1>0. size \in Nat /\ target.size \in Nat /\ Thumbnail \in Nat /\ Preview \in Nat
  BY PhotoStreamAssumption DEF PhotoPath
<1>1. next = NoSize \/ (next \in Sizes /\ next >= target.size)
  BY <1>0, PhotoStreamAssumption DEF NextFallback
<1>2. CASE next = NoSize
  <2>1. Go(p, "tryOriginal", [target |-> target])
    BY <1>2 DEF FallBack
  <2>. QED  BY <2>1, GoStep DEF StreamAgrees, At, Data
<1>3. CASE next # NoSize
  <2>1. Go(p, "tryProcess", [target |-> target, current |-> next])
    BY <1>3 DEF FallBack
  <2>. QED  BY <2>1, <1>1, <1>3, GoStep DEF StreamAgrees, At, Data
<1>. QED  BY <1>2, <1>3

LEMMA AnswerAgrees ==
  ASSUME Sent, NEW p \in Requests, NEW target \in PhotoPath, NEW made \in Made,
         made.least >= target.size, made.marked, Answer(p, target, made)
  PROVE  Sent' /\ Others(p) /\ StreamAgrees(p)'
<1>1. CASE target.isRequestASource /\ UploadEnabled
  <2>1. Go(p, "saveBuffer", [size |-> target.size, made |-> made])
    BY <1>1 DEF Answer
  <2>. QED  BY <2>1, GoStep DEF StreamAgrees, At, Data, PhotoPath
<1>2. CASE ~(target.isRequestASource /\ UploadEnabled)
  <2>1. Finish(p)
    BY <1>2 DEF Answer
  <2>. QED  BY <2>1, FinishStep DEF StreamAgrees, At
<1>. QED  BY <1>1, <1>2

LEMMA StreamInvAtFirst == Init => StreamInv
<1>. SUFFICES ASSUME Init  PROVE StreamInv
  OBVIOUS
<1>1. Sent /\ copies = <<>> /\ \A p \in Requests : pc[p] = "new"
  BY SentAtFirst DEF Init, InitRequests, InitPhotoStream
<1>. QED  BY <1>1 DEF StreamInv, CopiesAreMade, CopiesAreGood, StreamAgrees, At

LEMMA StreamInvKept == StreamInv /\ [Next]_vars => StreamInv'
<1>. SUFFICES ASSUME StreamInv, [Next]_vars  PROVE StreamInv'
  OBVIOUS
<1>1. CASE UNCHANGED <<serverVars, photoStreamVars>>
  BY <1>1 DEF StreamInv, CopiesAreMade, CopiesAreGood, Sent, StreamAgrees, At, Data,
    serverVars, photoStreamVars
<1>2. CASE area # "photoStream" /\ UNCHANGED <<area, photoStreamVars>>
  BY <1>2 DEF StreamInv, CopiesAreMade, CopiesAreGood, photoStreamVars
<1>3. ASSUME UNCHANGED photoStreamVars, NEW p \in Requests, Die(p)  PROVE StreamInv'
  <2>1. CopiesAreMade' /\ CopiesAreGood' /\ area' = area
    BY <1>3 DEF StreamInv, CopiesAreMade, CopiesAreGood, photoStreamVars, Die
  <2>2. CASE area = "photoStream"
    <3>1. Sent' /\ Others(p) /\ StreamAgrees(p)'
      BY <1>3, <2>2, DieStep DEF StreamInv, StreamAgrees, At
    <3>. QED  BY <3>1, <2>1, <2>2, OneStreamAgrees DEF StreamInv
  <2>. QED  BY <2>1, <2>2 DEF StreamInv
<1>4. ASSUME area = "photoStream", NEW p \in Requests, PhotoStreamNext(p)  PROVE StreamInv'
  <2>1. Sent /\ \A q \in Requests : StreamAgrees(q)
    BY <1>4 DEF StreamInv
  (* It is enough to look at the request and, if it stores a copy, at that. *)
  <2>2. ASSUME Sent' /\ Others(p) /\ StreamAgrees(p)', UNCHANGED copies  PROVE StreamInv'
    BY <2>1, <2>2, OneStreamAgrees DEF StreamInv, CopiesAreMade, CopiesAreGood
  <2>3. CASE GetPhoto(p)
    <3>1. PICK target, about, data :
            /\ target \in PhotoPath /\ data = [target |-> target]
            /\ Accept(p, about, "tryStream", data)
      BY <2>3 DEF GetPhoto
    <3>2. /\ Sent' /\ Others(p) /\ pc'[p] = "tryStream"
          /\ req'[p] = [about |-> about, data |-> data]
      BY <3>1, <2>1, AcceptStep
    <3>3. StreamAgrees(p)'
      BY <3>1, <3>2 DEF StreamAgrees, At, Data
    <3>. QED  BY <3>2, <3>3, <2>2, <2>3 DEF GetPhoto, photoStreamVars
  <2>4. CASE TryStream(p)
    <3>. DEFINE target == Data(p).target
    <3>1. target \in PhotoPath
      BY <2>1, <2>4 DEF TryStream, StreamAgrees
    <3>2. Finish(p) \/ FallBack(p, target, target.size, target.isRequestASource)
      BY <2>4 DEF TryStream
    <3>3. Sent' /\ Others(p) /\ StreamAgrees(p)'
      <4>1. CASE Finish(p)
        BY <4>1, <2>1, FinishStep DEF StreamAgrees, At
      <4>2. CASE FallBack(p, target, target.size, target.isRequestASource)
        <5>1. target.size \in Sizes /\ target.isRequestASource \in BOOLEAN
          BY <3>1 DEF PhotoPath
        <5>2. target.size >= target.size
          BY <5>1, SizesAreNumbers
        <5>. QED  BY <4>2, <5>1, <5>2, <3>1, <2>1, FallBackAgrees
      <4>. QED  BY <4>1, <4>2, <3>2
    <3>. QED  BY <3>3, <2>2, <2>4 DEF TryStream, photoStreamVars
  <2>5. CASE TryProcess(p)
    <3>. DEFINE d == Data(p)
                made == [copies[d.current] EXCEPT !.least = Smaller(@, d.target.size)]
    <3>1. d.target \in PhotoPath /\ d.current \in Sizes /\ d.current >= d.target.size
      BY <2>1, <2>5 DEF TryProcess, StreamAgrees
    <3>2. Sent' /\ Others(p) /\ StreamAgrees(p)'
      <4>1. CASE FallBack(p, d.target, d.current, TRUE)
        BY <4>1, <3>1, <2>1, FallBackAgrees
      <4>2. CASE d.current \in DOMAIN copies /\ Answer(p, d.target, made)
        <5>1. copies[d.current] \in Made /\ copies[d.current].least >= d.current
                /\ copies[d.current].marked
          BY <4>2 DEF StreamInv, CopiesAreMade, CopiesAreGood
        <5>2. made \in Made /\ made.least >= d.target.size /\ made.marked
          BY <5>1, <3>1, PhotoStreamAssumption DEF Made, PhotoPath, Smaller
        <5>. QED  BY <4>2, <5>2, <3>1, <2>1, AnswerAgrees
      <4>. QED  BY <4>1, <4>2, <2>5 DEF TryProcess
    <3>. QED  BY <3>2, <2>2, <2>5 DEF TryProcess, photoStreamVars
  <2>6. CASE TryOriginal(p)
    <3>. DEFINE target == Data(p).target
                made == FromOriginal(target.size)
    <3>1. target \in PhotoPath
      BY <2>1, <2>6 DEF TryOriginal, StreamAgrees
    <3>2. Finish(p) \/ Answer(p, target, made)
      BY <2>6 DEF TryOriginal
    <3>3. Sent' /\ Others(p) /\ StreamAgrees(p)'
      <4>1. CASE Finish(p)
        BY <4>1, <2>1, FinishStep DEF StreamAgrees, At
      <4>2. CASE Answer(p, target, made)
        <5>0. target.size \in Sizes /\ target.size \in Nat
          BY <3>1, PhotoStreamAssumption DEF PhotoPath
        <5>1. made \in Made /\ made.least >= target.size /\ made.marked
          BY <5>0 DEF Made, FromOriginal
        <5>. QED  BY <4>2, <5>1, <3>1, <2>1, AnswerAgrees
      <4>. QED  BY <4>1, <4>2, <3>2
    <3>. QED  BY <3>3, <2>2, <2>6 DEF TryOriginal, photoStreamVars
  <2>7. CASE SaveBuffer(p)
    <3>. DEFINE size == Data(p).size
                made == Data(p).made
    <3>1. size \in Sizes /\ made \in Made /\ made.least >= size /\ made.marked
      BY <2>1, <2>7 DEF SaveBuffer, StreamAgrees
    <3>2. copies' = [s \in DOMAIN copies \cup {size} |-> IF s = size THEN made ELSE copies[s]]
      BY <2>7 DEF SaveBuffer, Put
    <3>3. CopiesAreMade' /\ CopiesAreGood'
      BY <3>1, <3>2 DEF StreamInv, CopiesAreMade, CopiesAreGood
    <3>4. Sent' /\ Others(p) /\ StreamAgrees(p)' /\ area' = area
      BY <2>7, <2>1, FinishStep DEF SaveBuffer, Finish, StreamAgrees, At
    <3>. QED  BY <3>3, <3>4, <2>1, OneStreamAgrees DEF StreamInv
  <2>8. CASE ProcessCopy(p)
    <3>1. PICK size \in {Thumbnail, Preview} :
            Accept(p, {<<"message">>}, "saveBuffer",
                   [size |-> size, made |-> FromOriginal(size)])
      BY <2>8 DEF ProcessCopy
    <3>2. /\ Sent' /\ Others(p) /\ pc'[p] = "saveBuffer"
          /\ req'[p] = [about |-> {<<"message">>},
                        data |-> [size |-> size, made |-> FromOriginal(size)]]
      BY <3>1, <2>1, AcceptStep
    <3>3. /\ size \in Sizes /\ FromOriginal(size) \in Made
          /\ FromOriginal(size).least >= size /\ FromOriginal(size).marked
      <4>1. size \in Sizes
        BY PhotoStreamAssumption
      <4>. QED  BY <4>1, SizesAreNumbers DEF Made, FromOriginal
    <3>4. StreamAgrees(p)'
      BY <3>2, <3>3 DEF StreamAgrees, At, Data
    <3>. QED  BY <3>2, <3>4, <2>2, <2>8 DEF ProcessCopy, photoStreamVars
  <2>9. CASE ChangeOriginal(p)
    <3>1. Sent' /\ Others(p) /\ StreamAgrees(p)'
      BY <2>9, <2>1, ServeStep DEF ChangeOriginal, StreamAgrees, At
    <3>. QED  BY <3>1, <2>2, <2>9 DEF ChangeOriginal
  <2>. QED  BY <1>4, <2>3, <2>4, <2>5, <2>6, <2>7, <2>8, <2>9 DEF PhotoStreamNext
<1>. QED  BY <1>1, <1>2, <1>3, <1>4, StreamSteps

(* No stored copy of a photo was enlarged from a smaller one or lacks the watermark
   (src/photo/stream, tryProcess and saveProcssedBuffer): for any sizes, any number
   of requests that fall back on each other's copies, and any that die. *)
THEOREM CopiesAreAlwaysGood == Spec => []CopiesAreGood
<1>1. StreamInv => CopiesAreGood
  BY DEF StreamInv
<1>. QED  BY <1>1, StreamInvAtFirst, StreamInvKept, PTL DEF Spec

(***************************************************************************)
(* Albums: upload tasks                                                    *)
(***************************************************************************)

LEMMA AlbumSteps ==
  ASSUME [Next]_vars
  PROVE  \/ area = "albums" /\ \E p \in Requests : AlbumsNext(p)
         \/ UNCHANGED albumVars /\ \E p \in Requests : Die(p)
         \/ area # "albums" /\ UNCHANGED <<area, albumVars>>
         \/ UNCHANGED <<serverVars, albumVars>>
BY DEF Next, vars, Handle, Crash, Environment, PassTime, ExpireToken, ExpireCache,
  ProcessPhoto, OutsideOfScheduler, OutsideOfRecruitment, OutsideOfRegistration,
  OutsideOfMembers, OutsideOfDiscordSync, OutsideOfAlbums, OutsideOfProfilePhotos,
  OutsideOfPhotoStream, OutsideOfForms, OutsideOfActivities, OutsideOfDirectory,
  OutsideOfAnnouncements, PassTick

AlbumsAreRows ==
  /\ DOMAIN album \subseteq AlbumIds
  /\ album = [a \in DOMAIN album |-> [rank |-> album[a].rank, folder |-> album[a].folder,
                                      state |-> album[a].state]]

HasTask(a) ==
  album[a].folder # NoFolder => a \in DOMAIN uploadTask /\ uploadTask[a] = album[a].folder

(* A request that commits a new album has seen to its task. *)
AlbumAgrees(p) ==
  /\ At(p, "loadAlbum") => Data(p).id \in DOMAIN album
  /\ At(p, "upsertTask") =>
       /\ Data(p).id \in DOMAIN album
       /\ \/ Data(p).task = NoAlbum /\ Data(p).id \in edited
          \/ /\ Data(p).task = Data(p).id
             /\ Data(p).columns = <<>>
             /\ Data(p).folder = album[Data(p).id].folder
          \/ Data(p).task = Data(p).id /\ Data(p).id \in edited
  /\ At(p, "commitAlbum") =>
       /\ Data(p).id \in DOMAIN album
       /\ \/ Data(p).id \in edited
          \/ Data(p).columns = <<>> /\ HasTask(Data(p).id)

AlbumsInv ==
  /\ AlbumsAreRows
  /\ AlbumsHaveTasks
  /\ area = "albums" => Sent /\ \A p \in Requests : AlbumAgrees(p)

(* What every step leaves as it is: folders and their tasks, but for albums that
   have been updated. *)
TasksStay ==
  /\ DOMAIN album \subseteq DOMAIN album'
  /\ edited \subseteq edited'
  /\ \A a \in DOMAIN album \ edited' :
       album'[a].folder = album[a].folder /\ (HasTask(a) => HasTask(a)')

LEMMA AlbumAgreesStill ==
  ASSUME NEW q \in Requests, AlbumAgrees(q), TasksStay, pc'[q] = pc[q], req'[q] = req[q]
  PROVE  AlbumAgrees(q)'
BY DEF AlbumAgrees, TasksStay, At, Data

LEMMA TasksStayListed ==
  ASSUME AlbumsInv, TasksStay, \A a \in Listed' \ Listed : a \in edited' \/ HasTask(a)'
  PROVE  AlbumsHaveTasks'
BY DEF AlbumsInv, AlbumsHaveTasks, TasksStay, HasTask, Listed

LEMMA AlbumsInvAtFirst == Init => AlbumsInv
<1>. SUFFICES ASSUME Init  PROVE AlbumsInv
  OBVIOUS
<1>1. Sent /\ \A p \in Requests : pc[p] = "new"
  BY SentAtFirst DEF Init, InitRequests
<1>. DEFINE folder == CHOOSE f \in Folders : TRUE
<1>2. PICK n \in 0..2 :
        /\ album = [a \in 1..n |-> [rank |-> a - 1, folder |-> folder, state |-> "listed"]]
        /\ uploadTask = [a \in 1..n |-> folder]
  <2>1. InitAlbums
    BY DEF Init
  <2>. QED  BY <2>1 DEF InitAlbums
<1>3. 1..n \subseteq 1..2
  OBVIOUS
<1>4. AlbumsAreRows /\ AlbumsHaveTasks
  BY <1>2, <1>3, AlbumsAssumption DEF AlbumsAreRows, AlbumsHaveTasks, Listed
<1>. QED  BY <1>1, <1>4 DEF AlbumsInv, AlbumAgrees, At

LEMMA AlbumsInvKept == AlbumsInv /\ [Next]_vars => AlbumsInv'
<1>. SUFFICES ASSUME AlbumsInv, [Next]_vars  PROVE AlbumsInv'
  OBVIOUS
<1>1. CASE UNCHANGED <<serverVars, albumVars>>
  BY <1>1 DEF AlbumsInv, AlbumsAreRows, AlbumsHaveTasks, Listed, Sent, AlbumAgrees, HasTask,
    At, Data, serverVars, albumVars
<1>2. CASE area # "albums" /\ UNCHANGED <<area, albumVars>>
  BY <1>2 DEF AlbumsInv, AlbumsAreRows, AlbumsHaveTasks, Listed, albumVars
<1>3. ASSUME UNCHANGED albumVars, NEW p \in Requests, Die(p)  PROVE AlbumsInv'
  <2>1. AlbumsAreRows' /\ AlbumsHaveTasks' /\ TasksStay /\ area' = area
    BY <1>3 DEF AlbumsInv, AlbumsAreRows, AlbumsHaveTasks, Listed, TasksStay, HasTask,
      albumVars, Die
  <2>2. CASE area = "albums"
    <3>1. Sent' /\ Others(p) /\ AlbumAgrees(p)'
      BY <1>3, <2>2, DieStep DEF AlbumsInv, AlbumAgrees, At
    <3>. QED  BY <3>1, <2>1, <2>2, AlbumAgreesStill DEF AlbumsInv, Others
  <2>. QED  BY <2>1, <2>2 DEF AlbumsInv
<1>4. ASSUME area = "albums", NEW p \in Requests, AlbumsNext(p)  PROVE AlbumsInv'
  <2>1. Sent /\ (\A q \in Requests : AlbumAgrees(q)) /\ AlbumsAreRows
    BY <1>4 DEF AlbumsInv
  (* It is enough to look at the request, the rows and what is newly listed. *)
  <2>2. ASSUME Sent', Others(p), AlbumAgrees(p)', TasksStay, AlbumsAreRows',
               \A a \in Listed' \ Listed : a \in edited' \/ HasTask(a)'
        PROVE  AlbumsInv'
    <3>1. AlbumsHaveTasks'
      BY <2>2, TasksStayListed
    <3>2. \A q \in Requests : AlbumAgrees(q)'
      BY <2>1, <2>2, AlbumAgreesStill DEF Others
    <3>. QED  BY <2>2, <3>1, <3>2 DEF AlbumsInv
  <2>3. ASSUME UNCHANGED albumVars
        PROVE  TasksStay /\ AlbumsAreRows' /\ Listed' = Listed
    BY <2>1, <2>3 DEF albumVars, TasksStay, HasTask, AlbumsAreRows, Listed
  <2>4. CASE CreateAlbum(p)
    <3>1. PICK about, data : Accept(p, about, "insertAlbum", data)
      BY <2>4 DEF CreateAlbum
    <3>2. Sent' /\ Others(p) /\ pc'[p] = "insertAlbum"
      BY <3>1, <2>1, AcceptStep
    <3>3. AlbumAgrees(p)'
      BY <3>2 DEF AlbumAgrees, At
    <3>. QED  BY <3>2, <3>3, <2>2, <2>3, <2>4 DEF CreateAlbum
  <2>5. CASE InsertAlbum(p)
    <3>. DEFINE d == Data(p)
                step == IF d.folder = NoFolder THEN "commitAlbum" ELSE "upsertTask"
    <3>1. PICK id \in AlbumIds \ DOMAIN album :
            /\ album' = Put(album, id, [rank |-> d.rank, folder |-> d.folder,
                                        state |-> "pending"])
            /\ Go(p, step, [id |-> id, task |-> id, folder |-> d.folder, columns |-> <<>>])
      BY <2>5 DEF InsertAlbum
    <3>2. UNCHANGED <<uploadTask, edited>>
      BY <2>5 DEF InsertAlbum
    <3>3. /\ DOMAIN album' = DOMAIN album \cup {id}
          /\ album'[id] = [rank |-> d.rank, folder |-> d.folder, state |-> "pending"]
          /\ \A a \in DOMAIN album : album'[a] = album[a]
      BY <3>1 DEF Put
    <3>4. AlbumsAreRows'
      BY <3>1, <2>1 DEF AlbumsAreRows, Put
    <3>5. TasksStay
      BY <3>2, <3>3 DEF TasksStay, HasTask
    <3>6. Listed' \subseteq Listed
      BY <3>3 DEF Listed
    <3>7. /\ Sent' /\ Others(p) /\ pc'[p] = step
          /\ req'[p].data = [id |-> id, task |-> id, folder |-> d.folder, columns |-> <<>>]
      BY <3>1, <2>1, GoStep
    <3>8. AlbumAgrees(p)'
      BY <3>7, <3>3 DEF AlbumAgrees, HasTask, At, Data
    <3>. QED  BY <3>4, <3>5, <3>6, <3>7, <3>8, <2>2
  <2>6. CASE UpsertUploadTaskInfo(p)
    <3>. DEFINE d == Data(p)
    <3>1. Go(p, "commitAlbum", d) /\ uploadTask' = Put(uploadTask, d.task, d.folder)
            /\ UNCHANGED <<album, edited>> /\ At(p, "upsertTask")
      BY <2>6 DEF UpsertUploadTaskInfo
    <3>0. AlbumAgrees(p)
      BY <2>1
    <3>2. /\ d.id \in DOMAIN album
          /\ \/ d.id \in edited
             \/ d.task = d.id /\ d.columns = <<>> /\ d.folder = album[d.id].folder
      BY <3>0, <3>1 DEF AlbumAgrees
    <3>7. \/ d.id \in edited
          \/ /\ d.columns = <<>>
             /\ d.id \in DOMAIN uploadTask' /\ uploadTask'[d.id] = album'[d.id].folder
      BY <3>1, <3>2 DEF Put
    <3>3. \A a \in DOMAIN album \ edited : HasTask(a) => HasTask(a)'
      <4>1. TAKE a \in DOMAIN album \ edited
      <4>2. a # NoAlbum
        BY <2>1, AlbumsAssumption DEF AlbumsAreRows
      <4>. QED  BY <4>2, <3>1, <2>1 DEF AlbumAgrees, HasTask, Put
    <3>4. TasksStay /\ AlbumsAreRows' /\ Listed' = Listed
      BY <3>1, <3>3, <2>1 DEF TasksStay, AlbumsAreRows, Listed
    <3>5. Sent' /\ Others(p) /\ pc'[p] = "commitAlbum" /\ req'[p].data = d
      BY <3>1, <2>1, GoStep
    <3>6. AlbumAgrees(p)'
      BY <3>1, <3>2, <3>5, <3>7 DEF AlbumAgrees, HasTask, At, Data
    <3>. QED  BY <3>4, <3>5, <3>6, <2>2
  <2>7. CASE CommitAlbum(p)
    <3>. DEFINE d == Data(p)
    <3>1. /\ album' = [album EXCEPT ![d.id] = Saved(album[d.id], d.columns)]
          /\ UNCHANGED <<uploadTask, edited>> /\ Finish(p) /\ At(p, "commitAlbum")
      BY <2>7 DEF CommitAlbum
    <3>0. AlbumAgrees(p)
      BY <2>1
    <3>2. d.id \in DOMAIN album /\ (d.id \in edited \/ (d.columns = <<>> /\ HasTask(d.id)))
      BY <3>0, <3>1 DEF AlbumAgrees
    <3>3. d.columns = <<>> => Saved(album[d.id], d.columns).folder = album[d.id].folder
      BY DEF Saved
    <3>4. /\ DOMAIN album' = DOMAIN album
          /\ album'[d.id] = Saved(album[d.id], d.columns)
          /\ \A a \in DOMAIN album \ {d.id} : album'[a] = album[a]
      BY <3>1, <3>2, <2>1 DEF AlbumsAreRows
    <3>5. TasksStay
      BY <3>1, <3>2, <3>3, <3>4 DEF TasksStay, HasTask
    <3>6. AlbumsAreRows'
      BY <3>1, <3>2, <2>1 DEF AlbumsAreRows, Saved
    <3>7. \A a \in Listed' \ Listed : a \in edited' \/ HasTask(a)'
      BY <3>1, <3>2, <3>4, <3>5 DEF Listed, TasksStay
    <3>8. Sent' /\ Others(p) /\ AlbumAgrees(p)'
      BY <3>1, <2>1, FinishStep DEF AlbumAgrees, At
    <3>. QED  BY <3>5, <3>6, <3>7, <3>8, <2>2
  <2>8. CASE UpdateAlbum(p)
    <3>1. PICK a, folder, entity :
            /\ a \in Listed
            /\ Accept(p, {<<"rank">>}, "loadAlbum",
                      [id |-> a, folder |-> folder, entity |-> entity])
      BY <2>8 DEF UpdateAlbum
    <3>2. /\ Sent' /\ Others(p) /\ pc'[p] = "loadAlbum"
          /\ req'[p] = [about |-> {<<"rank">>},
                        data |-> [id |-> a, folder |-> folder, entity |-> entity]]
      BY <3>1, <2>1, AcceptStep
    <3>3. a \in DOMAIN album'
      BY <3>1, <2>8 DEF Listed, UpdateAlbum, albumVars
    <3>4. AlbumAgrees(p)'
      BY <3>2, <3>3 DEF AlbumAgrees, At, Data
    <3>. QED  BY <3>2, <3>4, <2>2, <2>3, <2>8 DEF UpdateAlbum
  <2>9. CASE LoadAlbum(p)
    <3>. DEFINE d == Data(p)
                step == IF d.folder = NoFolder THEN "commitAlbum" ELSE "upsertTask"
    <3>1. PICK columns :
            Go(p, step, [id |-> d.id, task |-> NoAlbum, folder |-> d.folder,
                         columns |-> columns])
      BY <2>9 DEF LoadAlbum
    <3>2. edited' = edited \cup {d.id} /\ UNCHANGED <<album, uploadTask>> /\ d.id \in DOMAIN album
      BY <2>9, <2>1 DEF LoadAlbum, AlbumAgrees
    <3>3. TasksStay /\ AlbumsAreRows' /\ Listed' = Listed
      BY <3>2, <2>1 DEF TasksStay, AlbumsAreRows, HasTask, Listed
    <3>4. /\ Sent' /\ Others(p) /\ pc'[p] = step
          /\ req'[p].data = [id |-> d.id, task |-> NoAlbum, folder |-> d.folder,
                             columns |-> columns]
      BY <3>1, <2>1, GoStep
    <3>5. AlbumAgrees(p)'
      BY <3>2, <3>4 DEF AlbumAgrees, At, Data
    <3>. QED  BY <3>3, <3>4, <3>5, <2>2
  <2>10. CASE RemoveAlbum(p)
    <3>1. PICK a \in Listed : album' = [album EXCEPT ![a].state = "deleted"]
      BY <2>10 DEF RemoveAlbum
    <3>2. UNCHANGED <<uploadTask, edited>> /\ Serve(p, {<<"remove">>})
      BY <2>10 DEF RemoveAlbum
    <3>5. /\ album[a] = [rank |-> album[a].rank, folder |-> album[a].folder,
                         state |-> album[a].state]
          /\ a \in DOMAIN album
      BY <2>1 DEF AlbumsAreRows, Listed
    <3>6. album' = [album EXCEPT ![a] = [rank |-> album[a].rank, folder |-> album[a].folder,
                                         state |-> "deleted"]]
      <4>1. [album[a] EXCEPT !.state = "deleted"]
              = [rank |-> album[a].rank, folder |-> album[a].folder, state |-> "deleted"]
        BY <3>5
      <4>. QED  BY <3>1, <4>1
    <3>3. /\ DOMAIN album' = DOMAIN album /\ AlbumsAreRows'
          /\ \A b \in DOMAIN album : /\ album'[b].folder = album[b].folder
                                     /\ album'[b].state \in {album[b].state, "deleted"}
      BY <3>5, <3>6, <2>1 DEF AlbumsAreRows
    <3>4. TasksStay /\ Listed' \subseteq Listed
      BY <3>2, <3>3 DEF TasksStay, HasTask, Listed
    <3>7. Sent' /\ Others(p) /\ AlbumAgrees(p)'
      BY <3>2, <2>1, ServeStep DEF AlbumAgrees, At
    <3>. QED  BY <3>3, <3>4, <3>7, <2>2
  <2>11. CASE RankAlbums(p)
    <3>1. PICK about, data : Accept(p, about, "loadRanks", data)
      BY <2>11 DEF RankAlbums
    <3>2. Sent' /\ Others(p) /\ pc'[p] = "loadRanks"
      BY <3>1, <2>1, AcceptStep
    <3>3. AlbumAgrees(p)'
      BY <3>2 DEF AlbumAgrees, At
    <3>. QED  BY <3>2, <3>3, <2>2, <2>3, <2>11 DEF RankAlbums
  <2>12. CASE LoadRanks(p)
    <3>1. PICK data : Go(p, "writeRanks", data)
      BY <2>12 DEF LoadRanks
    <3>2. Sent' /\ Others(p) /\ AlbumAgrees(p)'
      BY <3>1, <2>1, GoStep DEF AlbumAgrees, At
    <3>. QED  BY <3>2, <2>2, <2>3, <2>12 DEF LoadRanks
  <2>13. CASE WriteRanks(p)
    <3>. DEFINE ranks == Data(p).ranks
    <3>1. /\ album' = [a \in DOMAIN album |-> IF a \in DOMAIN ranks
                         THEN [album[a] EXCEPT !.rank = ranks[a]] ELSE album[a]]
          /\ UNCHANGED <<uploadTask, edited>> /\ Finish(p)
      BY <2>13 DEF WriteRanks
    <3>2. \A a \in DOMAIN album :
            album[a] = [rank |-> album[a].rank, folder |-> album[a].folder,
                        state |-> album[a].state]
      BY <2>1 DEF AlbumsAreRows
    <3>3. /\ DOMAIN album' = DOMAIN album
          /\ \A a \in DOMAIN album :
               album'[a] = [rank |-> IF a \in DOMAIN ranks THEN ranks[a] ELSE album[a].rank,
                            folder |-> album[a].folder, state |-> album[a].state]
      BY <3>1, <3>2
    <3>4. TasksStay /\ Listed' = Listed
      BY <3>1, <3>3 DEF TasksStay, HasTask, Listed
    <3>5. AlbumsAreRows'
      BY <3>1, <3>3, <2>1 DEF AlbumsAreRows
    <3>6. Sent' /\ Others(p) /\ AlbumAgrees(p)'
      BY <3>1, <2>1, FinishStep DEF AlbumAgrees, At
    <3>. QED  BY <3>4, <3>5, <3>6, <2>2
  <2>. QED  BY <1>4, <2>4, <2>5, <2>6, <2>7, <2>8, <2>9, <2>10, <2>11, <2>12, <2>13
            DEF AlbumsNext
<1>. QED  BY <1>1, <1>2, <1>3, <1>4, AlbumSteps

(* An album that is listed and was made uploadable has its upload task, with its
   folder until it is updated (src/gallery/album, create and upsertUploadTaskInfo):
   for any number of albums and requests, whatever dies between the two databases. *)
THEOREM AlbumsAlwaysHaveTasks == Spec => []AlbumsHaveTasks
<1>1. AlbumsInv => AlbumsHaveTasks
  BY DEF AlbumsInv
<1>. QED  BY <1>1, AlbumsInvAtFirst, AlbumsInvKept, PTL DEF Spec

(***************************************************************************)
(* Albums: rankings                                                        *)
(***************************************************************************)

Rank == <<"rank">>

(* The rank that an album will have when ranks have been written *)
WrittenRank(ranks, a) == IF a \in DOMAIN ranks THEN ranks[a] ELSE album[a].rank

Stands(order, ranks) ==
  /\ \A i \in DOMAIN order : order[i] \in DOMAIN album
  /\ \A i, j \in DOMAIN order :
       i < j => WrittenRank(ranks, order[i]) < WrittenRank(ranks, order[j])

(* Unless requests about ranks have crossed, an update writes no rank, and what is
   written of a ranking puts its albums in order. *)
RankAgrees(p) ==
  /\ At(p, "loadAlbum") =>
       /\ Rank \in req[p].about
       /\ Rank \notin crossed => Data(p).entity["rank"] = album[Data(p).id]["rank"]
  /\ (At(p, "upsertTask") \/ At(p, "commitAlbum")) /\ Rank \notin crossed =>
       "rank" \notin DOMAIN Data(p).columns
  /\ At(p, "loadRanks") =>
       /\ Rank \in req[p].about
       /\ Rank \notin crossed =>
            /\ \A i \in DOMAIN Data(p).order : Data(p).order[i] \in DOMAIN Data(p).ranks
            /\ Stands(Data(p).order, Data(p).ranks)
  /\ At(p, "writeRanks") =>
       /\ Rank \in req[p].about
       /\ Rank \notin crossed => Stands(Data(p).order, Data(p).ranks)

RanksInv ==
  /\ area # "albums" => ranking = <<>>
  /\ area = "albums" => Alone /\ \A p \in Requests : RankAgrees(p)
  /\ Rank \notin crossed => Stands(ranking, <<>>)

(* What every step leaves as it is unless it writes a ranking: the ranks of the rows *)
RanksStay ==
  /\ DOMAIN album \subseteq DOMAIN album'
  /\ \A a \in DOMAIN album : album'[a].rank = album[a].rank

LEMMA OrderOfRanks ==
  ASSUME NEW order \in Orders, NEW i \in DOMAIN order, NEW j \in DOMAIN order, i < j
  PROVE  RankOf(order, order[i]) < RankOf(order, order[j])
<1>1. PICK n \in 1..2 :
        order \in [1..n -> AlbumIds] /\ \A k, l \in 1..n : order[k] = order[l] => k = l
  BY DEF Orders
<1>2. ASSUME NEW k \in DOMAIN order  PROVE RankOf(order, order[k]) = k - 1
  <2>1. (CHOOSE l \in DOMAIN order : order[l] = order[k]) = k
    BY <1>1
  <2>. QED  BY <2>1 DEF RankOf
<1>. QED  BY <1>1, <1>2

LEMMA StandsStill ==
  ASSUME RanksStay, NEW order, NEW ranks, Stands(order, ranks)
  PROVE  Stands(order, ranks)'
BY DEF Stands, WrittenRank, RanksStay

LEMMA RankAgreesStill ==
  ASSUME NEW q \in Requests, AlbumAgrees(q), RankAgrees(q), RanksStay, crossed \subseteq crossed',
         pc'[q] = pc[q], req'[q] = req[q]
  PROVE  RankAgrees(q)'
<1>1. PICK d : d = Data(q)
  OBVIOUS
<1>2. Data(q)' = d
  BY <1>1 DEF Data
<1>3. Stands(d.order, d.ranks) => Stands(d.order, d.ranks)'
  BY StandsStill
<1>. QED  BY <1>1, <1>2, <1>3 DEF RankAgrees, AlbumAgrees, RanksStay, At

LEMMA RanksInvAtFirst == Init => RanksInv
<1>. SUFFICES ASSUME Init  PROVE RanksInv
  OBVIOUS
<1>1. \A p \in Requests : pc[p] = "new"
  BY DEF Init, InitRequests
<1>2. ranking = <<>>
  BY DEF Init, InitAlbums
<1>. QED  BY <1>1, <1>2 DEF RanksInv, Alone, InFlight, RankAgrees, At, Stands

LEMMA RanksInvKept == AlbumsInv /\ RanksInv /\ AlbumsInv' /\ [Next]_vars => RanksInv'
<1>. SUFFICES ASSUME AlbumsInv, RanksInv, AlbumsInv', [Next]_vars  PROVE RanksInv'
  OBVIOUS
<1>1. CASE UNCHANGED <<serverVars, albumVars>>
  <2>1. UNCHANGED <<area, pc, req, crossed, album, ranking>>
    BY <1>1 DEF serverVars, albumVars
  <2>2. \A order, ranks : Stands(order, ranks)' = Stands(order, ranks)
    BY <2>1 DEF Stands, WrittenRank
  <2>3. Alone' = Alone
    BY <2>1 DEF Alone, InFlight
  <2>4. \A q \in Requests : RankAgrees(q) => RankAgrees(q)'
    BY <2>1, <2>2 DEF RankAgrees, At, Data
  <2>. QED  BY <2>1, <2>2, <2>3, <2>4 DEF RanksInv
<1>2. CASE area # "albums" /\ UNCHANGED <<area, albumVars>>
  BY <1>2 DEF RanksInv, Stands, albumVars
(* It is enough to look at the request and the rows, unless a ranking is written. *)
<1>3. ASSUME NEW p \in Requests, area = "albums", area' = area, UNCHANGED ranking, RanksStay,
             Others(p), Alone', crossed \subseteq crossed', RankAgrees(p)'
      PROVE  RanksInv'
  <2>1. \A q \in Requests : AlbumAgrees(q) /\ RankAgrees(q)
    BY <1>3 DEF RanksInv, AlbumsInv
  <2>2. \A q \in Requests : RankAgrees(q)'
    BY <1>3, <2>1, RankAgreesStill DEF Others
  <2>3. PICK order : order = ranking
    OBVIOUS
  <2>4. Stands(order, <<>>) => Stands(order, <<>>)'
    BY <1>3, StandsStill
  <2>. QED  BY <1>3, <2>2, <2>3, <2>4 DEF RanksInv
<1>4. ASSUME UNCHANGED albumVars, NEW p \in Requests, Die(p)  PROVE RanksInv'
  <2>1. CASE area # "albums"
    BY <1>4, <2>1 DEF RanksInv, Stands, albumVars, Die
  <2>2. CASE area = "albums"
    <3>1. /\ Sent' /\ Alone' /\ crossed' = crossed /\ area' = area
          /\ pc'[p] = "done" /\ Others(p)
      BY <1>4, <2>2, FinishAlone DEF RanksInv, AlbumsInv
    <3>2. RankAgrees(p)' /\ RanksStay
      BY <1>4, <3>1 DEF RankAgrees, At, RanksStay, albumVars
    <3>. QED  BY <1>4, <2>2, <3>1, <3>2, <1>3 DEF albumVars
  <2>. QED  BY <2>1, <2>2
<1>5. ASSUME area = "albums", NEW p \in Requests, AlbumsNext(p)  PROVE RanksInv'
  <2>1. Sent /\ Alone /\ AlbumsAreRows /\ \A q \in Requests : AlbumAgrees(q) /\ RankAgrees(q)
    BY <1>5 DEF AlbumsInv, RanksInv
  <2>2. UNCHANGED albumVars => RanksStay /\ ranking' = ranking
    BY DEF RanksStay, albumVars
  <2>3. ASSUME NEW about, NEW step, NEW data, Accept(p, about, step, data)
        PROVE  /\ area' = area /\ Others(p) /\ Alone' /\ crossed \subseteq crossed'
               /\ pc'[p] = step /\ req'[p] = [about |-> about, data |-> data]
    <3>1. Others(p) /\ pc'[p] = step /\ req'[p] = [about |-> about, data |-> data]
      BY <2>1, <2>3, AcceptStep
    <3>2. Alone' /\ crossed \subseteq crossed'
      BY <2>1, <2>3, AcceptAlone
    <3>3. area' = area
      BY <2>3 DEF Accept
    <3>. QED  BY <3>1, <3>2, <3>3
  <2>4. ASSUME NEW step, NEW data, Go(p, step, data), pc[p] \notin {"new", "done"}
        PROVE  /\ area' = area /\ Others(p) /\ Alone' /\ crossed' = crossed
               /\ pc'[p] = step /\ req'[p].about = req[p].about /\ req'[p].data = data
    BY <2>1, <2>4, GoStep, GoAlone DEF Go, InFlight
  <2>5. CASE CreateAlbum(p)
    <3>1. PICK about, data : Accept(p, about, "insertAlbum", data)
      BY <2>5 DEF CreateAlbum
    <3>2. /\ area' = area /\ Others(p) /\ Alone' /\ crossed \subseteq crossed'
          /\ pc'[p] = "insertAlbum"
      BY <3>1, <2>3
    <3>3. RankAgrees(p)'
      BY <3>2 DEF RankAgrees, At
    <3>. QED  BY <1>3, <1>5, <2>2, <2>5, <3>2, <3>3 DEF CreateAlbum
  <2>6. CASE InsertAlbum(p)
    <3>. DEFINE d == Data(p)
                step == IF d.folder = NoFolder THEN "commitAlbum" ELSE "upsertTask"
    <3>1. PICK id \in AlbumIds \ DOMAIN album :
            /\ album' = Put(album, id, [rank |-> d.rank, folder |-> d.folder,
                                        state |-> "pending"])
            /\ Go(p, step, [id |-> id, task |-> id, folder |-> d.folder, columns |-> <<>>])
      BY <2>6 DEF InsertAlbum
    <3>2. UNCHANGED ranking /\ pc[p] = "insertAlbum"
      BY <2>6 DEF InsertAlbum, At
    <3>3. RanksStay
      BY <3>1 DEF Put, RanksStay
    <3>4. /\ area' = area /\ Others(p) /\ Alone' /\ crossed' = crossed
          /\ pc'[p] = step /\ Data(p)'.columns = <<>>
      BY <3>1, <3>2, <2>4 DEF Data
    <3>5. RankAgrees(p)'
      BY <3>4 DEF RankAgrees, At
    <3>. QED  BY <1>3, <1>5, <3>2, <3>3, <3>4, <3>5
  <2>7. CASE UpsertUploadTaskInfo(p)
    <3>. DEFINE d == Data(p)
    <3>1. Go(p, "commitAlbum", d) /\ UNCHANGED <<album, ranking>> /\ pc[p] = "upsertTask"
      BY <2>7 DEF UpsertUploadTaskInfo, At
    <3>2. /\ area' = area /\ Others(p) /\ Alone' /\ crossed' = crossed
          /\ pc'[p] = "commitAlbum" /\ Data(p)' = d
      BY <3>1, <2>4 DEF Data
    <3>3. RankAgrees(p)' /\ RanksStay
      BY <3>1, <3>2, <2>1 DEF RankAgrees, At, RanksStay
    <3>. QED  BY <1>3, <1>5, <3>1, <3>2, <3>3
  <2>8. CASE CommitAlbum(p)
    <3>. DEFINE d == Data(p)
    <3>1. /\ album' = [album EXCEPT ![d.id] = Saved(album[d.id], d.columns)]
          /\ UNCHANGED ranking /\ Finish(p) /\ pc[p] = "commitAlbum"
      BY <2>8 DEF CommitAlbum, At
    <3>2. /\ area' = area /\ Others(p) /\ Alone' /\ crossed' = crossed /\ pc'[p] = "done"
      BY <3>1, <2>1, FinishAlone
    <3>3. RankAgrees(p)'
      BY <3>2 DEF RankAgrees, At
    <3>4. CASE Rank \in crossed
      <4>1. \A q \in Requests : RankAgrees(q)'
        <5>1. TAKE q \in Requests
        <5>2. CASE q # p
          BY <3>2, <3>4, <5>2, <2>1 DEF RankAgrees, Others, At, Data
        <5>. QED  BY <3>3, <5>2
      <4>. QED  BY <1>5, <3>2, <3>4, <4>1 DEF RanksInv
    <3>5. CASE Rank \notin crossed
      <4>1. d.id \in DOMAIN album /\ Saved(album[d.id], d.columns).rank = album[d.id].rank
        BY <3>1, <3>5, <2>1 DEF AlbumAgrees, RankAgrees, Saved, At
      <4>2. RanksStay
        BY <3>1, <4>1, <2>1 DEF RanksStay, AlbumsAreRows
      <4>. QED  BY <1>3, <1>5, <3>1, <3>2, <3>3, <4>2
    <3>. QED  BY <3>4, <3>5
  <2>9. CASE UpdateAlbum(p)
    <3>1. PICK a, folder, entity :
            /\ entity.rank = album[a].rank
            /\ Accept(p, {Rank}, "loadAlbum", [id |-> a, folder |-> folder, entity |-> entity])
      BY <2>9 DEF UpdateAlbum, Rank
    <3>2. /\ area' = area /\ Others(p) /\ Alone' /\ crossed \subseteq crossed'
          /\ pc'[p] = "loadAlbum"
          /\ req'[p] = [about |-> {Rank},
                        data |-> [id |-> a, folder |-> folder, entity |-> entity]]
      BY <3>1, <2>3
    <3>3. UNCHANGED albumVars
      BY <2>9 DEF UpdateAlbum
    <3>4. RankAgrees(p)'
      BY <3>1, <3>2, <3>3 DEF RankAgrees, At, Data, albumVars
    <3>. QED  BY <1>3, <1>5, <2>2, <3>2, <3>3, <3>4
  <2>10. CASE LoadAlbum(p)
    <3>. DEFINE d == Data(p)
                step == IF d.folder = NoFolder THEN "commitAlbum" ELSE "upsertTask"
                columns == Differing(d.entity, d.id)
    <3>1. /\ Go(p, step, [id |-> d.id, task |-> NoAlbum, folder |-> d.folder,
                          columns |-> columns])
          /\ UNCHANGED <<album, ranking>> /\ pc[p] = "loadAlbum"
      BY <2>10 DEF LoadAlbum, At
    <3>2. Rank \notin crossed => "rank" \notin DOMAIN columns
      BY <3>1, <2>1 DEF RankAgrees, At, Differing
    <3>. HIDE DEF columns
    <3>3. /\ area' = area /\ Others(p) /\ Alone' /\ crossed' = crossed
          /\ pc'[p] = step /\ Data(p)'.columns = columns
      BY <3>1, <2>4 DEF Data
    <3>4. RankAgrees(p)' /\ RanksStay
      BY <3>1, <3>2, <3>3 DEF RankAgrees, At, RanksStay
    <3>. QED  BY <1>3, <1>5, <3>1, <3>3, <3>4
  <2>11. CASE RemoveAlbum(p)
    <3>1. PICK a \in Listed : album' = [album EXCEPT ![a].state = "deleted"]
      BY <2>11 DEF RemoveAlbum
    <3>2. UNCHANGED ranking /\ Serve(p, {<<"remove">>})
      BY <2>11 DEF RemoveAlbum
    <3>3. RanksStay
      BY <3>1, <2>1 DEF RanksStay, AlbumsAreRows, Listed
    <3>4. /\ area' = area /\ Others(p) /\ pc'[p] = "done" /\ req' = req
          /\ crossed \subseteq crossed'
      BY <3>2, <2>1, ServeStep DEF Serve
    <3>5. Alone'
      BY <3>4, <2>1 DEF Alone, Others, InFlight
    <3>6. RankAgrees(p)'
      BY <3>4 DEF RankAgrees, At
    <3>. QED  BY <1>3, <1>5, <3>2, <3>3, <3>4, <3>5, <3>6
  <2>12. CASE RankAlbums(p)
    <3>1. PICK all \in Orders :
            Accept(p, {Rank}, "loadRanks",
                   [order |-> [i \in {i \in DOMAIN all : all[i] \in Listed} |-> all[i]],
                    ranks |-> [a \in Listed |-> RankOf(all, a)]])
      BY <2>12 DEF RankAlbums, Rank
    <3>0. PICK order, ranks :
            /\ order = [i \in {i \in DOMAIN all : all[i] \in Listed} |-> all[i]]
            /\ ranks = [a \in Listed |-> RankOf(all, a)]
      OBVIOUS
    <3>2. UNCHANGED albumVars
      BY <2>12 DEF RankAlbums
    <3>3. Stands(order, ranks) /\ \A i \in DOMAIN order : order[i] \in DOMAIN ranks
      BY <3>0, OrderOfRanks DEF Stands, WrittenRank, Listed
    <3>4. /\ area' = area /\ Others(p) /\ Alone' /\ crossed \subseteq crossed'
          /\ pc'[p] = "loadRanks"
          /\ req'[p] = [about |-> {Rank}, data |-> [order |-> order, ranks |-> ranks]]
      BY <3>0, <3>1, <2>3
    <3>5. Stands(order, ranks)'
      BY <3>2, <3>3, <2>2, StandsStill
    <3>6. RankAgrees(p)'
      BY <3>3, <3>4, <3>5 DEF RankAgrees, At, Data
    <3>. QED  BY <1>3, <1>5, <2>2, <3>2, <3>4, <3>6
  <2>13. CASE LoadRanks(p)
    <3>1. PICK d : d = Data(p)
      OBVIOUS
    <3>0. PICK ranks :
            ranks = [a \in {a \in DOMAIN d.ranks : d.ranks[a] # album[a].rank} |-> d.ranks[a]]
      OBVIOUS
    <3>2. /\ Go(p, "writeRanks", [order |-> d.order, ranks |-> ranks])
          /\ UNCHANGED <<album, ranking>> /\ pc[p] = "loadRanks"
      BY <3>0, <3>1, <2>13 DEF LoadRanks, At, albumVars
    <3>3. Rank \in req[p].about /\ (Rank \notin crossed => Stands(d.order, ranks))
      BY <3>0, <3>1, <3>2, <2>1 DEF RankAgrees, At, Stands, WrittenRank
    <3>4. /\ area' = area /\ Others(p) /\ Alone' /\ crossed' = crossed
          /\ pc'[p] = "writeRanks" /\ req'[p].about = req[p].about
          /\ Data(p)' = [order |-> d.order, ranks |-> ranks]
      BY <3>2, <2>4 DEF Data
    <3>5. RanksStay
      BY <3>2 DEF RanksStay
    <3>6. Stands(d.order, ranks) => Stands(d.order, ranks)'
      BY <3>5, StandsStill
    <3>7. RankAgrees(p)'
      BY <3>3, <3>4, <3>6 DEF RankAgrees, At
    <3>. QED  BY <1>3, <1>5, <3>2, <3>4, <3>5, <3>7
  <2>14. CASE WriteRanks(p)
    <3>1. PICK d : d = Data(p)
      OBVIOUS
    <3>2. /\ album' = [a \in DOMAIN album |-> IF a \in DOMAIN d.ranks
                         THEN [album[a] EXCEPT !.rank = d.ranks[a]] ELSE album[a]]
          /\ ranking' = d.order /\ Finish(p) /\ pc[p] = "writeRanks"
      BY <3>1, <2>14 DEF WriteRanks, At
    <3>3. \A a \in DOMAIN album :
            album[a] = [rank |-> album[a].rank, folder |-> album[a].folder,
                        state |-> album[a].state]
      BY <2>1 DEF AlbumsAreRows
    <3>4. /\ DOMAIN album' = DOMAIN album
          /\ \A a \in DOMAIN album : album'[a].rank = WrittenRank(d.ranks, a)
      BY <3>2, <3>3 DEF WrittenRank
    <3>5. Rank \in req[p].about /\ (Rank \notin crossed => Stands(d.order, d.ranks))
      BY <3>1, <3>2, <2>1 DEF RankAgrees, At
    <3>6. /\ area' = area /\ Others(p) /\ Alone' /\ crossed' = crossed /\ pc'[p] = "done"
      BY <3>2, <2>1, FinishAlone
    <3>7. Rank \notin crossed => Stands(ranking, <<>>)'
      BY <3>2, <3>4, <3>5 DEF Stands, WrittenRank
    <3>8. ASSUME NEW q \in Requests  PROVE RankAgrees(q)'
      <4>1. CASE q = p
        BY <3>6, <4>1 DEF RankAgrees, At
      <4>2. CASE q # p
        <5>1. pc'[q] = pc[q] /\ req'[q] = req[q] /\ RankAgrees(q)
          BY <3>6, <4>2, <2>1 DEF Others
        <5>2. Rank \notin crossed => ~At(q, "loadAlbum") /\ ~At(q, "loadRanks") /\ ~At(q, "writeRanks")
          BY <3>2, <3>5, <4>2, <5>1, <2>1 DEF Alone, InFlight, RankAgrees, At
        <5>. QED  BY <3>6, <5>1, <5>2 DEF RankAgrees, At, Data
      <4>. QED  BY <4>1, <4>2
    <3>. QED  BY <1>5, <3>6, <3>7, <3>8 DEF RanksInv
  <2>. QED  BY <1>5, <2>5, <2>6, <2>7, <2>8, <2>9, <2>10, <2>11, <2>12, <2>13, <2>14
            DEF AlbumsNext
<1>. QED  BY <1>1, <1>2, <1>4, <1>5, AlbumSteps

(* The albums of a ranking stand in its order through updates, removals and creations
   (src/gallery/album, rankAlbums and update), unless two requests that write ranks
   were under way at once: for any number of albums and requests. *)
THEOREM RankingsAlwaysStand == Spec => []RankingsStand
<1>1. RanksInv => RankingsStand
  BY DEF RanksInv, RankingsStand, Stands, WrittenRank, Rank
<1>2. AlbumsInv /\ RanksInv /\ [Next]_vars => (AlbumsInv /\ RanksInv)'
  BY AlbumsInvKept, RanksInvKept
<1>3. Init => AlbumsInv /\ RanksInv
  BY AlbumsInvAtFirst, RanksInvAtFirst
<1>. QED  BY <1>1, <1>2, <1>3, PTL DEF Spec

(***************************************************************************)
(* Scheduler: repeating jobs                                               *)
(***************************************************************************)

LEMMA SchedulerSteps ==
  ASSUME [Next]_vars
  PROVE  \/ area = "scheduler" /\ \E p \in Requests : SchedulerNext(p)
         \/ UNCHANGED scheduled /\ \E p \in Requests : Die(p)
         \/ area # "scheduler" /\ UNCHANGED <<area, scheduled>>
         \/ UNCHANGED <<serverVars, scheduled>>
BY DEF Next, vars, Handle, Crash, Environment, PassTime, ExpireToken, ExpireCache,
  ProcessPhoto, OutsideOfScheduler, OutsideOfRecruitment, OutsideOfRegistration,
  OutsideOfMembers, OutsideOfDiscordSync, OutsideOfAlbums, OutsideOfProfilePhotos,
  OutsideOfPhotoStream, OutsideOfForms, OutsideOfActivities, OutsideOfDirectory,
  OutsideOfAnnouncements, PassTick

(* A replica that starts removes or adds. *)
Starting(p) ==
  /\ pc[p] \in {"new", "removeSchedules", "addSchedules", "done"}
  /\ InFlight(p) => req[p].about = {<<"scheduler">>}
  /\ At(p, "addSchedules") => Data(p).next \in Nat \ {0}

(* The replica will add the i-th job of the configuration. *)
WillAdd(p, i) == At(p, "removeSchedules") \/ (At(p, "addSchedules") /\ Data(p).next <= i)

(* A job of the configuration that is not scheduled will be, by somebody. *)
MissingJobsCome ==
  \A i \in 1..Len(Configured) :
    \/ Configured[i] \in scheduled
    \/ \A p \in Requests : At(p, "new")
    \/ \E p \in Requests : WillAdd(p, i)

(* A job of an older configuration that is still scheduled will be removed by every
   replica that has started. *)
OldJobsGo ==
  \A key \in scheduled \ Current : \A p \in Requests :
    At(p, "new") \/ (At(p, "removeSchedules") /\ key \in Data(p).keys)

SchedulerInv ==
  area = "scheduler" =>
    /\ Sent
    /\ \A p \in Requests : Starting(p)
    /\ broken = {} => MissingJobsCome /\ OldJobsGo

LEMMA OthersStart ==
  ASSUME \A q \in Requests : Starting(q), NEW p \in Requests, Others(p), Starting(p)'
  PROVE  (\A q \in Requests : Starting(q))'
BY DEF Starting, Others, At, Data, InFlight

LEMMA SchedulerInvAtFirst == Init => SchedulerInv
BY SentAtFirst DEF Init, InitRequests, SchedulerInv, Starting, MissingJobsCome, OldJobsGo,
  InFlight, At

LEMMA SchedulerInvKept == SchedulerInv /\ [Next]_vars => SchedulerInv'
<1>. SUFFICES ASSUME SchedulerInv, [Next]_vars  PROVE SchedulerInv'
  OBVIOUS
<1>1. CASE UNCHANGED <<serverVars, scheduled>>
  BY <1>1 DEF SchedulerInv, Sent, Starting, MissingJobsCome, OldJobsGo, WillAdd, Current,
    InFlight, At, Data, serverVars
<1>2. CASE area # "scheduler" /\ UNCHANGED <<area, scheduled>>
  BY <1>2 DEF SchedulerInv
<1>3. ASSUME UNCHANGED scheduled, NEW p \in Requests, Die(p)  PROVE SchedulerInv'
  <2>1. CASE area = "scheduler"
    <3>1. /\ Sent' /\ Others(p) /\ pc'[p] = "done"
          /\ broken' = broken \cup req[p].about
      BY <1>3, <2>1, DieStep DEF SchedulerInv
    <3>2. req[p].about = {<<"scheduler">>}
      BY <1>3, <2>1 DEF SchedulerInv, Starting, Die
    <3>3. Starting(p)'
      BY <3>1 DEF Starting, InFlight, At
    <3>. QED  BY <2>1, <3>1, <3>2, <3>3, OthersStart DEF SchedulerInv
  <2>. QED  BY <1>3, <2>1 DEF SchedulerInv, Die
<1>4. ASSUME area = "scheduler", NEW p \in Requests, SchedulerNext(p)  PROVE SchedulerInv'
  <2>1. Sent /\ (\A q \in Requests : Starting(q)) /\ Starting(p)
    BY <1>4 DEF SchedulerInv
  (* While nothing died, no step of a replica breaks it. *)
  <2>2. ASSUME Sent', Others(p), Starting(p)', UNCHANGED broken,
               broken = {} /\ MissingJobsCome /\ OldJobsGo => MissingJobsCome' /\ OldJobsGo'
        PROVE  SchedulerInv'
    BY <1>4, <2>1, <2>2, OthersStart DEF SchedulerInv
  <2>3. CASE Register(p)
    <3>1. /\ Accept(p, {<<"scheduler">>}, "removeSchedules", [keys |-> scheduled])
          /\ UNCHANGED scheduled
      BY <2>3 DEF Register
    <3>2. /\ Sent' /\ Others(p) /\ pc'[p] = "removeSchedules"
          /\ req'[p] = [about |-> {<<"scheduler">>}, data |-> [keys |-> scheduled]]
      BY <3>1, <2>1, AcceptStep
    <3>3. Starting(p)' /\ UNCHANGED broken
      BY <3>1, <3>2 DEF Starting, At, Accept
    <3>4. MissingJobsCome'
      BY <3>2 DEF MissingJobsCome, WillAdd, At
    <3>5. OldJobsGo => OldJobsGo'
      BY <3>1, <3>2 DEF OldJobsGo, Others, Current, At, Data
    <3>. QED  BY <3>2, <3>3, <3>4, <3>5, <2>2
  <2>4. CASE RemoveSchedule(p)
    <3>1. PICK key \in Data(p).keys :
            /\ scheduled' = scheduled \ {key}
            /\ Go(p, "removeSchedules", [keys |-> Data(p).keys \ {key}])
      BY <2>4 DEF RemoveSchedule
    <3>2. /\ Sent' /\ Others(p) /\ pc'[p] = "removeSchedules"
          /\ req'[p].about = req[p].about /\ req'[p].data = [keys |-> Data(p).keys \ {key}]
      BY <3>1, <2>1, GoStep
    <3>3. Starting(p)' /\ UNCHANGED broken
      BY <3>1, <3>2, <2>1, <2>4 DEF Starting, InFlight, At, Go, RemoveSchedule
    <3>4. MissingJobsCome'
      BY <3>2 DEF MissingJobsCome, WillAdd, At
    <3>5. OldJobsGo => OldJobsGo'
      BY <3>1, <3>2, <2>4 DEF OldJobsGo, Others, Current, At, Data, RemoveSchedule
    <3>. QED  BY <3>2, <3>3, <3>4, <3>5, <2>2
  <2>5. CASE Unregistered(p)
    <3>1. /\ At(p, "removeSchedules") /\ Data(p).keys = {}
          /\ Go(p, "addSchedules", [next |-> 1]) /\ UNCHANGED scheduled
      BY <2>5 DEF Unregistered
    <3>2. /\ Sent' /\ Others(p) /\ pc'[p] = "addSchedules"
          /\ req'[p].about = req[p].about /\ req'[p].data = [next |-> 1]
      BY <3>1, <2>1, GoStep
    <3>3. Starting(p)' /\ UNCHANGED broken
      BY <3>1, <3>2, <2>1 DEF Starting, InFlight, At, Data, Go
    <3>4. MissingJobsCome'
      BY <3>2 DEF MissingJobsCome, WillAdd, At, Data
    <3>5. OldJobsGo => OldJobsGo'
      BY <3>1 DEF OldJobsGo, Current, At
    <3>. QED  BY <3>2, <3>3, <3>4, <3>5, <2>2
  <2>6. CASE AddSchedule(p)
    <3>. DEFINE next == Data(p).next
    <3>1. At(p, "addSchedules") /\ next \in Nat \ {0}
      BY <2>1, <2>6 DEF AddSchedule, Starting
    <3>2. CASE next <= Len(Configured)
      <4>1. /\ scheduled' = scheduled \cup {Configured[next]}
            /\ Go(p, "addSchedules", [next |-> next + 1])
        BY <2>6, <3>2 DEF AddSchedule
      <4>2. /\ Sent' /\ Others(p) /\ pc'[p] = "addSchedules"
            /\ req'[p].about = req[p].about /\ req'[p].data = [next |-> next + 1]
        BY <4>1, <2>1, GoStep
      <4>3. Starting(p)' /\ UNCHANGED broken
        BY <4>1, <4>2, <3>1, <2>1 DEF Starting, InFlight, At, Data, Go
      <4>4. ASSUME MissingJobsCome  PROVE MissingJobsCome'
        <5>1. SUFFICES ASSUME NEW i \in 1..Len(Configured), Configured[i] \notin scheduled'
                       PROVE  \E q \in Requests : WillAdd(q, i)'
          BY DEF MissingJobsCome
        <5>2. PICK q \in Requests : WillAdd(q, i)
          BY <5>1, <4>1, <4>4, <3>1 DEF MissingJobsCome, At
        <5>3. CASE q = p
          <6>1. next <= i /\ next # i
            BY <5>1, <5>2, <5>3, <4>1, <3>1 DEF WillAdd, At
          <6>2. next + 1 <= i
            BY <6>1, <3>1
          <6>. QED  BY <6>2, <4>2 DEF WillAdd, At, Data
        <5>4. CASE q # p
          BY <5>2, <5>4, <4>2 DEF WillAdd, Others, At, Data
        <5>. QED  BY <5>3, <5>4
      <4>5. OldJobsGo => OldJobsGo'
        <5>1. Configured[next] \in Current
          BY <3>1, <3>2, SchedulesAssumption DEF Current
        <5>. QED  BY <5>1, <4>1, <3>1 DEF OldJobsGo, Current, At
      <4>. QED  BY <4>2, <4>3, <4>4, <4>5, <2>2
    <3>3. CASE ~(next <= Len(Configured))
      <4>1. Finish(p) /\ UNCHANGED scheduled
        BY <2>6, <3>3 DEF AddSchedule
      <4>2. Sent' /\ Others(p) /\ pc'[p] = "done"
        BY <4>1, <2>1, FinishStep
      <4>3. Starting(p)' /\ UNCHANGED broken
        BY <4>1, <4>2 DEF Starting, InFlight, At, Finish
      <4>4. ASSUME MissingJobsCome  PROVE MissingJobsCome'
        <5>1. SUFFICES ASSUME NEW i \in 1..Len(Configured), Configured[i] \notin scheduled'
                       PROVE  \E q \in Requests : WillAdd(q, i)'
          BY DEF MissingJobsCome
        <5>2. PICK q \in Requests : WillAdd(q, i)
          BY <5>1, <4>1, <4>4, <3>1 DEF MissingJobsCome, At
        <5>3. ~(next <= i)
          BY <3>1, <3>3, SchedulesAssumption
        <5>4. q # p
          BY <5>2, <5>3, <3>1 DEF WillAdd, At
        <5>. QED  BY <5>2, <5>4, <4>2 DEF WillAdd, Others, At, Data
      <4>5. OldJobsGo => OldJobsGo'
        BY <4>1, <3>1 DEF OldJobsGo, Current, At
      <4>. QED  BY <4>2, <4>3, <4>4, <4>5, <2>2
    <3>. QED  BY <3>2, <3>3
  <2>. QED  BY <1>4, <2>3, <2>4, <2>5, <2>6 DEF SchedulerNext
<1>. QED  BY <1>1, <1>2, <1>3, <1>4, SchedulerSteps

(* Once all replicas that started are up, exactly the jobs of the configuration are
   scheduled (src/scheduler, onModuleInit): for any number of replicas that start
   together, any configuration and whatever was scheduled before. *)
THEOREM JobsAreAlwaysScheduled == Spec => []EveryJobIsScheduled
<1>1. SchedulerInv => EveryJobIsScheduled
  <2>. SUFFICES ASSUME SchedulerInv, area = "scheduler", broken = {},
                       NEW p \in Requests, At(p, "done"), \A q \in Requests : ~InFlight(q)
                PROVE  scheduled = Current
    BY DEF EveryJobIsScheduled
  <2>1. MissingJobsCome /\ OldJobsGo
    BY DEF SchedulerInv
  <2>2. \A q \in Requests : ~At(q, "removeSchedules") /\ ~At(q, "addSchedules")
    BY DEF InFlight, At
  <2>3. \A i \in 1..Len(Configured) : Configured[i] \in scheduled
    BY <2>1, <2>2 DEF MissingJobsCome, WillAdd, At
  <2>4. scheduled \ Current = {}
    BY <2>1, <2>2 DEF OldJobsGo, At
  <2>. QED  BY <2>3, <2>4 DEF Current
<1>. QED  BY <1>1, SchedulerInvAtFirst, SchedulerInvKept, PTL DEF Spec

(***************************************************************************)
(* ProfilePhotos: files and jobs                                           *)
(***************************************************************************)

LEMMA ProfilePhotoSteps ==
  ASSUME [Next]_vars
  PROVE  \/ area = "profilePhotos" /\ \E p \in Requests : ProfilePhotosNext(p)
         \/ area = "profilePhotos" /\ ProcessPhoto
         \/ UNCHANGED profilePhotoVars /\ \E p \in Requests : Die(p)
         \/ area # "profilePhotos" /\ UNCHANGED <<area, profilePhotoVars>>
         \/ UNCHANGED <<serverVars, profilePhotoVars>>
BY DEF Next, vars, Handle, Crash, Environment, PassTime, ExpireToken, ExpireCache,
  ProcessPhoto, OutsideOfScheduler, OutsideOfRecruitment, OutsideOfRegistration,
  OutsideOfMembers, OutsideOfDiscordSync, OutsideOfAlbums, OutsideOfProfilePhotos,
  OutsideOfPhotoStream, OutsideOfForms, OutsideOfActivities, OutsideOfDirectory,
  OutsideOfAnnouncements, PassTick

(* The files that are there, will be made, or failed. *)
Begun == files \cup photoJobs \cup ruined

(* What an import will put on the profile is begun, but for the jobs it has yet to
   add. *)
ImportAgrees(p) ==
  /\ At(p, "addJobs") => FilesOf(Data(p).photo) \subseteq Begun \cup Data(p).jobs
  /\ At(p, "savePhoto") => FilesOf(Data(p).photo) \subseteq Begun
  /\ At(p, "saveProfile") =>
       FilesOf(Data(p).photo) \subseteq Begun /\ Data(p).photo \in DOMAIN photoRows

ProfilePhotosInv ==
  /\ photoOf = [m \in Members |-> photoOf[m]]
  /\ PhotosWillShow
  /\ area = "profilePhotos" => Sent /\ \A p \in Requests : ImportAgrees(p)

(* Nothing that was begun is forgotten, and no row is removed. *)
Grows == Begun \subseteq Begun' /\ DOMAIN photoRows \subseteq DOMAIN photoRows'

LEMMA ImportAgreesStill ==
  ASSUME NEW q \in Requests, ImportAgrees(q), Grows, pc'[q] = pc[q], req'[q] = req[q]
  PROVE  ImportAgrees(q)'
<1>1. Data(q)' = Data(q)
  BY DEF Data
<1>2. \A photo : FilesOf(photo)' = FilesOf(photo)
  BY DEF FilesOf
<1>. QED  BY <1>1, <1>2 DEF ImportAgrees, Grows, At

LEMMA PhotosWillShowStill ==
  ASSUME PhotosWillShow, Grows, photoOf' = photoOf
  PROVE  PhotosWillShow'
BY DEF PhotosWillShow, Grows, Begun, FilesOf

LEMMA ProfilePhotosInvAtFirst == Init => ProfilePhotosInv
BY SentAtFirst DEF Init, InitRequests, InitProfilePhotos, ProfilePhotosInv, PhotosWillShow,
  ImportAgrees, At

LEMMA ProfilePhotosInvKept == ProfilePhotosInv /\ [Next]_vars => ProfilePhotosInv'
<1>. SUFFICES ASSUME ProfilePhotosInv, [Next]_vars  PROVE ProfilePhotosInv'
  OBVIOUS
<1>0. ASSUME UNCHANGED profilePhotoVars
      PROVE  Grows /\ PhotosWillShow' /\ photoOf' = [m \in Members |-> photoOf'[m]]
  <2>1. Grows /\ photoOf' = photoOf
    BY <1>0 DEF Grows, Begun, profilePhotoVars
  <2>. QED  BY <2>1, PhotosWillShowStill DEF ProfilePhotosInv
<1>1. CASE UNCHANGED <<serverVars, profilePhotoVars>>
  <2>1. /\ UNCHANGED <<area, pc, req, profilePhotoVars>>
    BY <1>1 DEF serverVars
  <2>2. Sent => Sent'
    BY <2>1 DEF Sent
  <2>. QED  BY <1>0, <2>1, <2>2, ImportAgreesStill DEF ProfilePhotosInv
<1>2. CASE area # "profilePhotos" /\ UNCHANGED <<area, profilePhotoVars>>
  BY <1>0, <1>2 DEF ProfilePhotosInv
<1>3. ASSUME UNCHANGED profilePhotoVars, NEW p \in Requests, Die(p)  PROVE ProfilePhotosInv'
  <2>1. area' = area
    BY <1>3 DEF Die
  <2>2. CASE area = "profilePhotos"
    <3>1. Sent' /\ Others(p) /\ ImportAgrees(p)'
      BY <1>3, <2>2, DieStep DEF ProfilePhotosInv, ImportAgrees, At
    <3>. QED  BY <3>1, <2>1, <2>2, <1>0, <1>3, ImportAgreesStill DEF ProfilePhotosInv, Others
  <2>. QED  BY <2>1, <2>2, <1>0, <1>3 DEF ProfilePhotosInv
<1>4. CASE area = "profilePhotos" /\ ProcessPhoto
  <2>1. UNCHANGED <<area, pc, req, photoOf, photoRows>> /\ Begun \subseteq Begun'
    BY <1>4 DEF ProcessPhoto, serverVars, Begun
  <2>2. Grows /\ (Sent => Sent')
    BY <2>1 DEF Grows, Sent
  <2>. QED  BY <2>1, <2>2, ImportAgreesStill, PhotosWillShowStill DEF ProfilePhotosInv
<1>5. ASSUME area = "profilePhotos", NEW p \in Requests, ProfilePhotosNext(p)
      PROVE  ProfilePhotosInv'
  <2>1. Sent /\ (\A q \in Requests : ImportAgrees(q)) /\ ImportAgrees(p)
    BY <1>5 DEF ProfilePhotosInv
  (* It is enough to look at the request and at the profile it writes. *)
  <2>2. ASSUME Sent', Others(p), ImportAgrees(p)', Grows, PhotosWillShow',
               photoOf' = [m \in Members |-> photoOf'[m]]
        PROVE  ProfilePhotosInv'
    BY <2>1, <2>2, ImportAgreesStill DEF ProfilePhotosInv, Others
  <2>3. CASE ImportProfilePhoto(p)
    <3>1. PICK m, photo :
            Accept(p, {<<"photo", m>>}, "addJobs",
                   [member |-> m, photo |-> photo, jobs |-> ProductsOf(m, photo)])
      BY <2>3 DEF ImportProfilePhoto
    <3>2. /\ Sent' /\ Others(p) /\ pc'[p] = "addJobs"
          /\ req'[p] = [about |-> {<<"photo", m>>},
                        data |-> [member |-> m, photo |-> photo, jobs |-> ProductsOf(m, photo)]]
      BY <3>1, <2>1, AcceptStep
    <3>3. FilesOf(photo) \subseteq ProductsOf(m, photo)
      BY DEF ProductsOf
    <3>4. ImportAgrees(p)'
      BY <3>2, <3>3 DEF ImportAgrees, At, Data
    <3>. QED  BY <3>2, <3>4, <1>0, <2>2, <2>3 DEF ImportProfilePhoto
  <2>4. CASE AddJob(p)
    <3>. DEFINE d == Data(p)
    <3>1. PICK job \in d.jobs :
            /\ photoJobs' = photoJobs \cup {job}
            /\ ruined' = ruined \ {job}
            /\ Go(p, IF d.jobs = {job} THEN "savePhoto" ELSE "addJobs",
                  IF d.jobs = {job} THEN [member |-> d.member, photo |-> d.photo]
                  ELSE [member |-> d.member, photo |-> d.photo, jobs |-> d.jobs \ {job}])
      BY <2>4 DEF AddJob
    <3>2. UNCHANGED <<photoOf, photoRows, files>> /\ At(p, "addJobs")
      BY <2>4 DEF AddJob
    <3>3. Begun \cup {job} \subseteq Begun' /\ Grows
      BY <3>1, <3>2 DEF Begun, Grows
    <3>4. FilesOf(d.photo) \subseteq Begun \cup d.jobs
      BY <3>2, <2>1 DEF ImportAgrees
    <3>5. Sent' /\ Others(p) /\ ImportAgrees(p)'
      <4>1. CASE d.jobs = {job}
        <5>1. Go(p, "savePhoto", [member |-> d.member, photo |-> d.photo])
          BY <3>1, <4>1
        <5>2. /\ Sent' /\ Others(p) /\ pc'[p] = "savePhoto"
              /\ req'[p].data = [member |-> d.member, photo |-> d.photo]
          BY <5>1, <2>1, GoStep
        <5>3. FilesOf(d.photo) \subseteq Begun'
          BY <3>3, <3>4, <4>1
        <5>4. ImportAgrees(p)'
          BY <5>2, <5>3 DEF ImportAgrees, At, Data
        <5>. QED  BY <5>2, <5>4
      <4>2. CASE d.jobs # {job}
        <5>. DEFINE rest == [member |-> d.member, photo |-> d.photo, jobs |-> d.jobs \ {job}]
        <5>1. Go(p, "addJobs", rest)
          BY <3>1, <4>2
        <5>2. Sent' /\ Others(p) /\ pc'[p] = "addJobs" /\ req'[p].data = rest
          BY <5>1, <2>1, GoStep
        <5>3. FilesOf(d.photo) \subseteq Begun' \cup (d.jobs \ {job})
          BY <3>3, <3>4
        <5>4. rest.photo = d.photo /\ rest.jobs = d.jobs \ {job}
          OBVIOUS
        <5>5. ImportAgrees(p)'
          BY <5>2, <5>3, <5>4 DEF ImportAgrees, At, Data
        <5>. QED  BY <5>2, <5>5
      <4>. QED  BY <4>1, <4>2
    <3>6. PhotosWillShow' /\ photoOf' = [m \in Members |-> photoOf'[m]]
      BY <3>2, <3>3, PhotosWillShowStill DEF ProfilePhotosInv
    <3>. QED  BY <3>3, <3>5, <3>6, <2>2
  <2>5. CASE SavePhoto(p)
    <3>. DEFINE d == Data(p)
    <3>1. /\ photoRows' = Put(photoRows, d.photo, d.member)
          /\ Go(p, "saveProfile", d) /\ At(p, "savePhoto")
          /\ UNCHANGED <<photoOf, photoJobs, files, ruined>>
      BY <2>5 DEF SavePhoto
    <3>2. DOMAIN photoRows' = DOMAIN photoRows \cup {d.photo}
      BY <3>1 DEF Put
    <3>3. Grows /\ Begun' = Begun
      BY <3>1, <3>2 DEF Grows, Begun
    <3>4. Sent' /\ Others(p) /\ pc'[p] = "saveProfile" /\ req'[p].data = d
      BY <3>1, <2>1, GoStep
    <3>5. FilesOf(d.photo) \subseteq Begun
      BY <3>1, <2>1 DEF ImportAgrees
    <3>6. ImportAgrees(p)'
      BY <3>2, <3>3, <3>4, <3>5 DEF ImportAgrees, At, Data
    <3>7. PhotosWillShow' /\ photoOf' = [m \in Members |-> photoOf'[m]]
      BY <3>1, <3>3, PhotosWillShowStill DEF ProfilePhotosInv
    <3>. QED  BY <3>3, <3>4, <3>6, <3>7, <2>2
  <2>6. CASE SaveProfile(p)
    <3>. DEFINE d == Data(p)
    <3>1. /\ photoOf' = [photoOf EXCEPT ![d.member] = d.photo]
          /\ Finish(p) /\ At(p, "saveProfile")
          /\ UNCHANGED <<photoRows, photoJobs, files, ruined>>
      BY <2>6 DEF SaveProfile
    <3>2. Grows /\ Begun' = Begun
      BY <3>1 DEF Grows, Begun
    <3>3. Sent' /\ Others(p) /\ ImportAgrees(p)'
      BY <3>1, <2>1, FinishStep DEF ImportAgrees, At
    <3>4. FilesOf(d.photo) \subseteq Begun /\ d.photo \in DOMAIN photoRows
      BY <3>1, <2>1 DEF ImportAgrees
    <3>5. photoOf' = [m \in Members |-> IF m = d.member THEN d.photo ELSE photoOf[m]]
      BY <3>1 DEF ProfilePhotosInv
    <3>6. PhotosWillShow'
      BY <3>1, <3>4, <3>5 DEF ProfilePhotosInv, PhotosWillShow, Begun, FilesOf
    <3>. QED  BY <3>2, <3>3, <3>5, <3>6, <2>2
  <2>. QED  BY <1>5, <2>3, <2>4, <2>5, <2>6 DEF ProfilePhotosNext
<1>. QED  BY <1>1, <1>2, <1>3, <1>4, <1>5, ProfilePhotoSteps

(* The photo of a profile has its row and its files, or jobs that will make them,
   unless such a job failed (src/accounts/profile, importFromNas): for any number of
   members, photos and imports, however they overlap and die. *)
THEOREM PhotosWillAlwaysShow == Spec => []PhotosWillShow
<1>1. ProfilePhotosInv => PhotosWillShow
  BY DEF ProfilePhotosInv
<1>. QED  BY <1>1, ProfilePhotosInvAtFirst, ProfilePhotosInvKept, PTL DEF Spec

(***************************************************************************)
(* Activities: tags                                                        *)
(***************************************************************************)

LEMMA ActivitySteps ==
  ASSUME [Next]_vars
  PROVE  \/ area = "activities" /\ \E p \in Requests : ActivitiesNext(p)
         \/ UNCHANGED activityVars /\ \E p \in Requests : Die(p)
         \/ area # "activities" /\ UNCHANGED <<area, activityVars>>
         \/ UNCHANGED <<serverVars, activityVars>>
BY DEF Next, vars, Handle, Crash, Environment, PassTime, ExpireToken, ExpireCache,
  ProcessPhoto, OutsideOfScheduler, OutsideOfRecruitment, OutsideOfRegistration,
  OutsideOfMembers, OutsideOfDiscordSync, OutsideOfAlbums, OutsideOfProfilePhotos,
  OutsideOfPhotoStream, OutsideOfForms, OutsideOfActivities, OutsideOfDirectory,
  OutsideOfAnnouncements, PassTick

TagsAreNumbered ==
  /\ tag = [t \in DOMAIN tag |-> tag[t]]
  /\ \E n \in Nat : DOMAIN tag = 1..n
  /\ \A t, u \in DOMAIN tag : tag[t] = tag[u] => t = u

ActivitiesAreRows ==
  /\ sent = [a \in Activity |-> sent[a]]
  /\ DOMAIN activity \subseteq Activity
  /\ \A a \in DOMAIN activity :
       /\ activity[a] = [deleted |-> activity[a].deleted, tags |-> activity[a].tags]
       /\ activity[a].tags \subseteq DOMAIN tag

TitlesOf(tags) == {tag[t] : t \in tags}

HasTags(a) == TitlesOf(activity[a].tags) = sent[a]

(* What a request has found of the tags *)
Resolved(d) ==
  /\ d.titles \subseteq TagTitles
  /\ d.missing \subseteq d.titles
  /\ d.found \subseteq DOMAIN tag
  /\ TitlesOf(d.found) = d.titles \ d.missing

ActivityAgrees(p) ==
  /\ (At(p, "resolveTags") \/ At(p, "findActivity") \/ At(p, "saveActivity")) =>
       /\ ActivityOf(Data(p).id) \in req[p].about
       /\ Data(p).id \in Activity
       /\ Data(p).new \/ Data(p).id \in DOMAIN activity
  /\ At(p, "resolveTags") => Data(p).titles \subseteq TagTitles
  /\ At(p, "findActivity") =>
       /\ ~Data(p).new
       /\ DOMAIN Data(p) = {"id", "titles", "new", "found", "missing", "added", "removed"}
  /\ (At(p, "findActivity") \/ At(p, "saveTagsOnly") \/ At(p, "saveActivity")) => Resolved(Data(p))
  /\ At(p, "saveActivity") =>
       /\ Data(p).added \subseteq Data(p).found
       /\ ActivityOf(Data(p).id) \notin crossed =>
            TagsReplaced(IF Data(p).new THEN {} ELSE activity[Data(p).id].tags, Data(p))
              = Data(p).found

ActivitiesInv ==
  /\ area # "activities" => DOMAIN activity = {} /\ DOMAIN tag = {}
  /\ area = "activities" =>
       /\ Sent /\ Alone
       /\ TagsAreNumbered /\ ActivitiesAreRows
       /\ \A p \in Requests : ActivityAgrees(p)
       /\ \A a \in DOMAIN activity : ActivityOf(a) \notin crossed => HasTags(a)

(* Tags are never changed, and activities only those of owned. *)
TagsStay ==
  /\ DOMAIN tag \subseteq DOMAIN tag'
  /\ \A t \in DOMAIN tag : tag'[t] = tag[t]

ActivitiesStay(owned) ==
  /\ DOMAIN activity \subseteq DOMAIN activity'
  /\ \A a \in DOMAIN activity \ owned : activity'[a].tags = activity[a].tags

LEMMA TitlesStay ==
  ASSUME TagsStay, NEW tags, tags \subseteq DOMAIN tag
  PROVE  tags \subseteq DOMAIN tag' /\ TitlesOf(tags)' = TitlesOf(tags)
BY DEF TagsStay, TitlesOf

(* A request whose activity nobody else has changed *)
LEMMA ActivityAgreesStill ==
  ASSUME NEW q \in Requests, ActivityAgrees(q), TagsStay, NEW owned, ActivitiesStay(owned),
         crossed \subseteq crossed', pc'[q] = pc[q], req'[q] = req[q],
         \A a \in owned : ActivityOf(a) \in req[q].about /\ InFlight(q) => ActivityOf(a) \in crossed
  PROVE  ActivityAgrees(q)'
<1>1. PICK d : d = Data(q)
  OBVIOUS
<1>2. Data(q)' = d
  BY <1>1 DEF Data
<1>3. Resolved(d) => Resolved(d)'
  BY TitlesStay DEF Resolved
<1>4. At(q, "resolveTags") \/ At(q, "findActivity") \/ At(q, "saveActivity") => InFlight(q)
  BY DEF At, InFlight
<1>5. ASSUME At(q, "saveActivity"), ActivityOf(d.id) \notin crossed, ~d.new
      PROVE  activity'[d.id].tags = activity[d.id].tags
  BY <1>1, <1>4, <1>5 DEF ActivityAgrees, ActivitiesStay
<1>6. ASSUME At(q, "saveActivity")
      PROVE  /\ d.added \subseteq d.found
             /\ ActivityOf(d.id) \notin crossed' =>
                  TagsReplaced(IF d.new THEN {} ELSE activity'[d.id].tags, d) = d.found
  BY <1>1, <1>5, <1>6 DEF ActivityAgrees
<1>. QED  BY <1>1, <1>2, <1>3, <1>6 DEF ActivityAgrees, ActivitiesStay, At

(* The new tags are numbered behind the others, one for each title that is missing. *)
LEMMA NewTagsAreNumbered ==
  ASSUME TagsAreNumbered, NEW missing, missing \subseteq TagTitles, ~Taken(missing),
         NEW new \in NewTags(missing), tag' = WithTags(new)
  PROVE  /\ TagsAreNumbered' /\ TagsStay
         /\ DOMAIN new \subseteq DOMAIN tag'
         /\ TitlesOf(DOMAIN new)' = missing
<1>1. PICK n \in Nat : DOMAIN tag = 1..n
  BY DEF TagsAreNumbered
<1>2. Cardinality(DOMAIN tag) = n
  BY <1>1, FS_Interval
<1>3. IsFiniteSet(missing)
  BY TitlesAssumption, FS_Subset
<1>4. PICK k \in Nat : k = Cardinality(missing)
  BY <1>3, FS_CardinalityType
<1>5. /\ new \in [(n + 1)..(n + k) -> missing]
      /\ \A t, u \in DOMAIN new : new[t] = new[u] => t = u
  BY <1>2, <1>4 DEF NewTags
<1>6. DOMAIN new = (n + 1)..(n + k)
  BY <1>5
<1>7. \A title \in missing : \E t \in DOMAIN new : new[t] = title
  <2>1. new \in Injection(DOMAIN new, missing)
    BY <1>5, <1>6 DEF Injection, IsInjective
  <2>2. Cardinality(DOMAIN new) = k
    BY <1>6, FS_Interval
  <2>3. new \in Surjection(DOMAIN new, missing)
    BY <1>3, <1>4, <2>1, <2>2, FS_Injection
  <2>. QED  BY <2>3 DEF Surjection
<1>8. /\ DOMAIN tag' = DOMAIN tag \cup DOMAIN new
      /\ tag' = [t \in DOMAIN tag' |-> tag'[t]]
      /\ \A t \in DOMAIN new : tag'[t] = new[t]
      /\ \A t \in DOMAIN tag : tag'[t] = tag[t]
  <2>1. \A t \in DOMAIN tag : t \notin DOMAIN new
    BY <1>1, <1>6
  <2>. QED  BY <2>1 DEF WithTags
<1>9. DOMAIN tag' = 1..(n + k)
  BY <1>1, <1>6, <1>8
<1>10. ASSUME NEW t \in DOMAIN tag', NEW u \in DOMAIN tag', tag'[t] = tag'[u]  PROVE t = u
  <2>1. \A v \in DOMAIN tag, w \in DOMAIN new : tag[v] # new[w]
    BY <1>5, <1>6 DEF Taken
  <2>. QED  BY <1>5, <1>8, <1>10, <2>1 DEF TagsAreNumbered
<1>11. n + k \in Nat
  OBVIOUS
<1>12. TitlesOf(DOMAIN new)' = missing
  BY <1>5, <1>6, <1>7, <1>8 DEF TitlesOf
<1>. QED  BY <1>8, <1>9, <1>10, <1>11, <1>12 DEF TagsAreNumbered, TagsStay

LEMMA ActivitiesInvAtFirst == Init => ActivitiesInv
<1>. SUFFICES ASSUME Init  PROVE ActivitiesInv
  OBVIOUS
<1>1. Sent /\ \A p \in Requests : pc[p] = "new"
  BY SentAtFirst DEF Init, InitRequests
<1>2. PICK title \in TagTitles, a \in Activity, tags \in SUBSET {1},
           old \in IF area = "activities" THEN BOOLEAN ELSE {FALSE} :
       /\ tag = IF old THEN <<title>> ELSE <<>>
       /\ activity = IF old THEN Put(<<>>, a, [deleted |-> FALSE, tags |-> tags]) ELSE <<>>
       /\ sent = [b \in Activity |-> IF old /\ b = a /\ tags # {} THEN {title} ELSE {}]
  BY DEF Init, InitActivities
<1>3. Alone /\ \A p \in Requests : ActivityAgrees(p)
  BY <1>1 DEF Alone, InFlight, ActivityAgrees, At
<1>4. CASE old
  <2>1. tag = <<title>> /\ DOMAIN tag = 1..1 /\ tag[1] = title
    BY <1>2, <1>4
  <2>2. TagsAreNumbered
    BY <2>1 DEF TagsAreNumbered
  <2>3. DOMAIN activity = {a} /\ activity[a] = [deleted |-> FALSE, tags |-> tags]
    BY <1>2, <1>4 DEF Put
  <2>4. sent[a] = (IF tags = {} THEN {} ELSE {title}) /\ sent = [b \in Activity |-> sent[b]]
    BY <1>2, <1>4
  <2>5. tags = {} \/ tags = {1}
    OBVIOUS
  <2>6. ActivitiesAreRows /\ HasTags(a)
    BY <2>1, <2>3, <2>4, <2>5 DEF ActivitiesAreRows, HasTags, TitlesOf
  <2>7. area = "activities"
    BY <1>2, <1>4
  <2>. QED  BY <1>1, <1>3, <2>2, <2>3, <2>6, <2>7 DEF ActivitiesInv
<1>5. CASE ~old
  <2>1. tag = <<>> /\ activity = <<>> /\ sent = [b \in Activity |-> sent[b]]
    BY <1>2, <1>5
  <2>2. DOMAIN tag = {} /\ DOMAIN activity = {} /\ DOMAIN tag = 1..0
    BY <2>1
  <2>3. 0 \in Nat /\ tag = [t \in DOMAIN tag |-> tag[t]]
    BY <2>1
  <2>4. TagsAreNumbered /\ ActivitiesAreRows
    BY <2>1, <2>2, <2>3 DEF TagsAreNumbered, ActivitiesAreRows
  <2>. QED  BY <1>1, <1>3, <2>2, <2>4 DEF ActivitiesInv
<1>. QED  BY <1>4, <1>5

LEMMA ActivitiesInvKept == ActivitiesInv /\ [Next]_vars => ActivitiesInv'
<1>. SUFFICES ASSUME ActivitiesInv, [Next]_vars  PROVE ActivitiesInv'
  OBVIOUS
<1>1. CASE UNCHANGED <<serverVars, activityVars>>
  BY <1>1 DEF ActivitiesInv, Sent, Alone, InFlight, TagsAreNumbered, ActivitiesAreRows,
    ActivityAgrees, Resolved, TitlesOf, HasTags, At, Data, serverVars, activityVars
<1>2. CASE area # "activities" /\ UNCHANGED <<area, activityVars>>
  BY <1>2 DEF ActivitiesInv, activityVars
(* It is enough to look at the request, the tags and its activity. *)
<1>3. ASSUME NEW p \in Requests, area = "activities", area' = area, Sent', Others(p), Alone',
             crossed \subseteq crossed', TagsStay, TagsAreNumbered', ActivitiesAreRows',
             NEW owned, ActivitiesStay(owned), ActivityAgrees(p)',
             \A a \in owned : ActivityOf(a) \in req[p].about /\ InFlight(p),
             \A a \in DOMAIN activity \ owned : sent'[a] = sent[a],
             DOMAIN activity' \subseteq DOMAIN activity \cup owned,
             \A a \in owned : ActivityOf(a) \notin crossed' => HasTags(a)'
      PROVE  ActivitiesInv'
  <2>1. Alone /\ ActivitiesAreRows /\ (\A q \in Requests : ActivityAgrees(q))
          /\ \A a \in DOMAIN activity : ActivityOf(a) \notin crossed => HasTags(a)
    BY <1>3 DEF ActivitiesInv
  <2>2. ASSUME NEW q \in Requests  PROVE ActivityAgrees(q)'
    <3>1. CASE q # p
      <4>1. pc'[q] = pc[q] /\ req'[q] = req[q] /\ ActivityAgrees(q)
        BY <1>3, <2>1, <3>1 DEF Others
      <4>2. \A a \in owned : ActivityOf(a) \in req[q].about /\ InFlight(q) => ActivityOf(a) \in crossed
        BY <1>3, <2>1, <3>1 DEF Alone
      <4>. QED  BY <1>3, <4>1, <4>2, ActivityAgreesStill
    <3>. QED  BY <1>3, <3>1
  <2>3. ASSUME NEW a \in DOMAIN activity', ActivityOf(a) \notin crossed'  PROVE HasTags(a)'
    <3>1. CASE a \notin owned
      <4>1. PICK tags : tags = activity[a].tags
        OBVIOUS
      <4>2. /\ tags \subseteq DOMAIN tag /\ TitlesOf(tags) = sent[a]
            /\ activity'[a].tags = tags /\ sent'[a] = sent[a]
        BY <1>3, <2>1, <2>3, <3>1, <4>1 DEF HasTags, ActivitiesAreRows, ActivitiesStay
      <4>3. TitlesOf(tags)' = TitlesOf(tags)
        BY <1>3, <4>2, TitlesStay
      <4>. QED  BY <4>2, <4>3 DEF HasTags, TitlesOf
    <3>. QED  BY <1>3, <2>3, <3>1
  <2>. QED  BY <1>3, <2>2, <2>3 DEF ActivitiesInv
<1>4. ASSUME NEW p \in Requests, area = "activities", area' = area, Sent', Others(p), Alone',
             crossed \subseteq crossed', ActivityAgrees(p)', UNCHANGED <<activity, tag, sent>>
      PROVE  ActivitiesInv'
  <2>1. TagsAreNumbered' /\ ActivitiesAreRows' /\ TagsStay /\ ActivitiesStay({})
    BY <1>4 DEF ActivitiesInv, TagsAreNumbered, ActivitiesAreRows, TagsStay, ActivitiesStay
  <2>. DEFINE owned == {}
  <2>2. ActivitiesStay(owned)
    BY <2>1
  <2>. QED  BY <1>3, <1>4, <2>1, <2>2
<1>5. ASSUME UNCHANGED activityVars, NEW p \in Requests, Die(p)  PROVE ActivitiesInv'
  <2>1. CASE area # "activities"
    BY <1>5, <2>1 DEF ActivitiesInv, activityVars, Die
  <2>2. CASE area = "activities"
    <3>1. /\ Sent' /\ Alone' /\ crossed' = crossed /\ area' = area
          /\ pc'[p] = "done" /\ Others(p)
      BY <1>5, <2>2, FinishAlone DEF ActivitiesInv
    <3>2. ActivityAgrees(p)'
      BY <3>1 DEF ActivityAgrees, At
    <3>. QED  BY <1>4, <1>5, <2>2, <3>1, <3>2 DEF activityVars
  <2>. QED  BY <2>1, <2>2
<1>6. ASSUME area = "activities", NEW p \in Requests, ActivitiesNext(p)  PROVE ActivitiesInv'
  <2>1. /\ Sent /\ Alone /\ TagsAreNumbered /\ ActivitiesAreRows
        /\ \A q \in Requests : ActivityAgrees(q)
    BY <1>6 DEF ActivitiesInv
  <2>2. ASSUME NEW about, NEW step, NEW data, Accept(p, about, step, data)
        PROVE  /\ area' = area /\ Sent' /\ Others(p) /\ Alone' /\ crossed \subseteq crossed'
               /\ pc'[p] = step /\ req'[p] = [about |-> about, data |-> data]
    <3>1. /\ Sent' /\ Others(p)
          /\ pc'[p] = step /\ req'[p] = [about |-> about, data |-> data]
      BY <2>1, <2>2, AcceptStep
    <3>2. Alone' /\ crossed \subseteq crossed'
      BY <2>1, <2>2, AcceptAlone
    <3>3. area' = area
      BY <2>2 DEF Accept
    <3>. QED  BY <3>1, <3>2, <3>3
  <2>3. ASSUME NEW step, NEW data, Go(p, step, data), pc[p] \notin {"new", "done"}
        PROVE  /\ area' = area /\ Sent' /\ Others(p) /\ Alone' /\ crossed' = crossed
               /\ pc'[p] = step /\ req'[p].about = req[p].about /\ req'[p].data = data
    BY <2>1, <2>3, GoStep, GoAlone DEF Go, InFlight
  <2>4. ASSUME Finish(p)
        PROVE  /\ Sent' /\ Alone' /\ crossed' = crossed /\ area' = area
               /\ Others(p) /\ ActivityAgrees(p)'
    BY <2>1, <2>4, FinishAlone DEF ActivityAgrees, At
  <2>5. ASSUME NEW about, Serve(p, about)
        PROVE  /\ area' = area /\ Sent' /\ Others(p) /\ Alone' /\ crossed \subseteq crossed'
               /\ ActivityAgrees(p)'
    <3>1. /\ area' = area /\ Sent' /\ Others(p) /\ pc'[p] = "done" /\ req' = req
          /\ crossed \subseteq crossed'
      BY <2>1, <2>5, ServeStep DEF Serve
    <3>. QED  BY <2>1, <3>1 DEF Alone, Others, InFlight, ActivityAgrees, At
  <2>6. CASE CreateGalleryActivity(p) \/ UpdateGalleryActivity(p)
    <3>1. PICK a \in Activity, titles \in SUBSET TagTitles, new \in BOOLEAN :
            /\ new \/ a \in DOMAIN activity
            /\ Accept(p, {ActivityOf(a)}, "resolveTags", [id |-> a, titles |-> titles, new |-> new])
            /\ UNCHANGED <<activity, tag, sent>>
      BY <2>1, <2>6 DEF CreateGalleryActivity, UpdateGalleryActivity, activityVars,
        ActivitiesAreRows
    <3>2. /\ area' = area /\ Sent' /\ Others(p) /\ Alone' /\ crossed \subseteq crossed'
          /\ pc'[p] = "resolveTags"
          /\ req'[p] = [about |-> {ActivityOf(a)},
                        data |-> [id |-> a, titles |-> titles, new |-> new]]
      BY <2>2, <3>1
    <3>3. ActivityAgrees(p)'
      BY <3>1, <3>2 DEF ActivityAgrees, At, Data
    <3>. QED  BY <1>4, <1>6, <3>1, <3>2, <3>3
  <2>7. CASE DeleteGalleryActivity(p)
    <3>1. PICK a \in DOMAIN activity :
            /\ activity' = Put(activity, a, [deleted |-> TRUE, tags |-> activity[a].tags])
            /\ Serve(p, {ActivityOf(a)})
      BY <2>7 DEF DeleteGalleryActivity
    <3>2. UNCHANGED <<tag, sent>>
      BY <2>7 DEF DeleteGalleryActivity
    <3>3. /\ DOMAIN activity' = DOMAIN activity
          /\ \A b \in DOMAIN activity :
               /\ activity'[b].tags = activity[b].tags
               /\ activity'[b] = [deleted |-> activity'[b].deleted, tags |-> activity'[b].tags]
      BY <2>1, <3>1 DEF Put, ActivitiesAreRows
    <3>. DEFINE owned == {}
    <3>4. /\ TagsStay /\ ActivitiesStay(owned)
          /\ TagsAreNumbered' /\ ActivitiesAreRows'
      BY <2>1, <3>2, <3>3 DEF TagsStay, ActivitiesStay, TagsAreNumbered, ActivitiesAreRows
    <3>5. /\ area' = area /\ Sent' /\ Others(p) /\ Alone' /\ crossed \subseteq crossed'
          /\ ActivityAgrees(p)'
      BY <2>5, <3>1
    <3>. QED  BY <1>3, <1>6, <3>2, <3>3, <3>4, <3>5
  <2>8. CASE ResolveTagEntities(p)
    <3>1. PICK d : d = Data(p)
      OBVIOUS
    <3>0. PICK found, missing, data :
            /\ found = {t \in DOMAIN tag : tag[t] \in d.titles}
            /\ missing = d.titles \ {tag[t] : t \in found}
            /\ data = [id |-> d.id, titles |-> d.titles, new |-> d.new, found |-> found,
                       missing |-> missing, added |-> found, removed |-> {}]
      OBVIOUS
    <3>. DEFINE step == IF d.new THEN "saveActivity" ELSE "findActivity"
    <3>2. /\ Go(p, step, data) /\ pc[p] = "resolveTags"
          /\ UNCHANGED <<activity, tag, sent>>
      BY <2>8, <3>0, <3>1 DEF ResolveTagEntities, At, activityVars
    <3>3. /\ ActivityOf(d.id) \in req[p].about /\ d.id \in Activity
          /\ d.new \/ d.id \in DOMAIN activity
          /\ d.titles \subseteq TagTitles
      BY <2>1, <3>1, <3>2 DEF ActivityAgrees, At
    <3>4. /\ missing \subseteq d.titles /\ found \subseteq DOMAIN tag
          /\ TitlesOf(found) = d.titles \ missing
      BY <3>0 DEF TitlesOf
    <3>5. Resolved(data)
      BY <3>0, <3>3, <3>4 DEF Resolved
    <3>6. /\ data.id = d.id /\ data.new = d.new /\ data.found = found /\ data.added = found
          /\ data.removed = {}
          /\ DOMAIN data = {"id", "titles", "new", "found", "missing", "added", "removed"}
      BY <3>0
    <3>7. d.new => TagsReplaced({}, data) = found
      BY <3>6 DEF TagsReplaced
    <3>8. /\ area' = area /\ Sent' /\ Others(p) /\ Alone' /\ crossed' = crossed
          /\ pc'[p] = step /\ req'[p].about = req[p].about /\ Data(p)' = data
      BY <2>3, <3>2 DEF Data
    <3>9. Resolved(data)'
      BY <3>2, <3>5 DEF Resolved, TitlesOf
    <3>10. ActivityAgrees(p)'
      <4>1. CASE d.new
        BY <3>2, <3>3, <3>6, <3>7, <3>8, <3>9, <4>1 DEF ActivityAgrees, At
      <4>2. CASE ~d.new
        BY <3>2, <3>3, <3>6, <3>8, <3>9, <4>2 DEF ActivityAgrees, At
      <4>. QED  BY <4>1, <4>2
    <3>. QED  BY <1>4, <1>6, <3>2, <3>8, <3>10
  <2>9. CASE FindActivity(p)
    <3>1. PICK d : d = Data(p)
      OBVIOUS
    <3>0. PICK old, data :
            /\ old = activity[d.id].tags
            /\ data = Edited(d, [added |-> d.found \ old, removed |-> old \ d.found])
      OBVIOUS
    <3>2. /\ pc[p] = "findActivity" /\ UNCHANGED <<activity, tag, sent>>
          /\ Go(p, "saveTagsOnly", d) \/ Go(p, "saveActivity", data)
      BY <2>9, <3>0, <3>1 DEF FindActivity, At, activityVars
    <3>3. /\ ActivityOf(d.id) \in req[p].about /\ d.id \in Activity /\ ~d.new
          /\ d.id \in DOMAIN activity /\ Resolved(d)
          /\ DOMAIN d = {"id", "titles", "new", "found", "missing", "added", "removed"}
      BY <2>1, <3>1, <3>2 DEF ActivityAgrees, At
    <3>4. /\ data.id = d.id /\ data.new = d.new /\ data.found = d.found
          /\ data.titles = d.titles /\ data.missing = d.missing
          /\ data.added = d.found \ old /\ data.removed = old \ d.found
      BY <3>0, <3>3 DEF Edited
    <3>5. TagsReplaced(old, data) = d.found
      BY <3>4 DEF TagsReplaced
    <3>6. Resolved(d)' /\ Resolved(data)'
      BY <3>2, <3>3, <3>4 DEF Resolved, TitlesOf
    <3>7. CASE Go(p, "saveTagsOnly", d)
      <4>1. /\ area' = area /\ Sent' /\ Others(p) /\ Alone' /\ crossed' = crossed
            /\ pc'[p] = "saveTagsOnly" /\ Data(p)' = d
        BY <2>3, <3>2, <3>7 DEF Data
      <4>2. ActivityAgrees(p)'
        BY <3>6, <4>1 DEF ActivityAgrees, At
      <4>. QED  BY <1>4, <1>6, <3>2, <4>1, <4>2
    <3>8. CASE Go(p, "saveActivity", data)
      <4>1. /\ area' = area /\ Sent' /\ Others(p) /\ Alone' /\ crossed' = crossed
            /\ pc'[p] = "saveActivity" /\ req'[p].about = req[p].about /\ Data(p)' = data
        BY <2>3, <3>2, <3>8 DEF Data
      <4>2. ActivityAgrees(p)'
        BY <3>0, <3>2, <3>3, <3>4, <3>5, <3>6, <4>1 DEF ActivityAgrees, At
      <4>. QED  BY <1>4, <1>6, <3>2, <4>1, <4>2
    <3>. QED  BY <3>2, <3>7, <3>8
  <2>10. CASE SaveActivity(p)
    <3>1. PICK d : d = Data(p)
      OBVIOUS
    <3>2. Finish(p) /\ pc[p] = "saveActivity"
      BY <2>10 DEF SaveActivity, At
    <3>3. /\ Sent' /\ Alone' /\ crossed' = crossed /\ area' = area /\ Others(p)
          /\ ActivityAgrees(p)'
      BY <2>4, <3>2
    <3>4. CASE UNCHANGED activityVars
      BY <1>4, <1>6, <3>3, <3>4 DEF activityVars
    <3>0. PICK old :
            old = IF d.new THEN [deleted |-> FALSE, tags |-> {}] ELSE activity[d.id]
      OBVIOUS
    <3>5. CASE ~Taken(d.missing) /\ \E new \in NewTags(d.missing) :
            /\ tag' = WithTags(new)
            /\ activity' = Put(activity, d.id,
                 [deleted |-> old.deleted, tags |-> TagsReplaced(old.tags, d) \cup DOMAIN new])
            /\ sent' = [sent EXCEPT ![d.id] = d.titles]
      <4>1. PICK new \in NewTags(d.missing) :
            /\ tag' = WithTags(new)
            /\ activity' = Put(activity, d.id,
                 [deleted |-> old.deleted, tags |-> TagsReplaced(old.tags, d) \cup DOMAIN new])
            /\ sent' = [sent EXCEPT ![d.id] = d.titles]
        BY <3>5
      <4>2. /\ ActivityOf(d.id) \in req[p].about /\ d.id \in Activity /\ Resolved(d)
            /\ d.new \/ d.id \in DOMAIN activity
            /\ d.added \subseteq d.found
            /\ ActivityOf(d.id) \notin crossed => TagsReplaced(old.tags, d) = d.found
        BY <2>1, <3>0, <3>1, <3>2 DEF ActivityAgrees, At
      <4>3. /\ TagsAreNumbered' /\ TagsStay /\ DOMAIN new \subseteq DOMAIN tag'
            /\ TitlesOf(DOMAIN new)' = d.missing
        BY <2>1, <3>5, <4>1, <4>2, NewTagsAreNumbered DEF Resolved
      <4>0. PICK tags : tags = TagsReplaced(old.tags, d) \cup DOMAIN new
        OBVIOUS
      <4>4. /\ DOMAIN activity' = DOMAIN activity \cup {d.id}
            /\ activity'[d.id] = [deleted |-> old.deleted, tags |-> tags]
            /\ \A a \in DOMAIN activity \ {d.id} : activity'[a] = activity[a]
        BY <4>0, <4>1 DEF Put
      <4>5. tags \subseteq DOMAIN tag'
        <5>1. old.tags \subseteq DOMAIN tag /\ d.found \subseteq DOMAIN tag
          BY <2>1, <3>0, <4>2 DEF ActivitiesAreRows, Resolved
        <5>. QED  BY <4>0, <4>2, <4>3, <5>1 DEF TagsReplaced, TagsStay
      <4>6. sent' = [a \in Activity |-> sent'[a]] /\ sent'[d.id] = d.titles
            /\ \A a \in Activity \ {d.id} : sent'[a] = sent[a]
        <5>1. sent = [a \in Activity |-> sent[a]]
          BY <2>1 DEF ActivitiesAreRows
        <5>. QED  BY <4>1, <4>2, <5>1
      <4>7. ASSUME ActivityOf(d.id) \notin crossed  PROVE TitlesOf(tags)' = d.titles
        <5>1. tags = d.found \cup DOMAIN new
          BY <4>0, <4>2, <4>7
        <5>2. /\ TitlesOf(d.found) = d.titles \ d.missing /\ d.missing \subseteq d.titles
              /\ d.found \subseteq DOMAIN tag
          BY <4>2 DEF Resolved
        <5>3. TitlesOf(d.found)' = d.titles \ d.missing
          BY <4>3, <5>2, TitlesStay
        <5>4. TitlesOf(tags)' = TitlesOf(d.found)' \cup TitlesOf(DOMAIN new)'
          BY <5>1 DEF TitlesOf
        <5>. QED  BY <4>3, <5>2, <5>3, <5>4
      <4>8. ActivityOf(d.id) \notin crossed' => HasTags(d.id)'
        BY <3>3, <4>4, <4>6, <4>7 DEF HasTags, TitlesOf
      <4>9. ActivitiesAreRows'
        <5>1. \A a \in DOMAIN activity \ {d.id} :
                /\ activity'[a] = [deleted |-> activity'[a].deleted, tags |-> activity'[a].tags]
                /\ activity'[a].tags \subseteq DOMAIN tag'
          BY <2>1, <4>3, <4>4 DEF ActivitiesAreRows, TagsStay
        <5>. QED  BY <2>1, <4>2, <4>4, <4>5, <4>6, <5>1 DEF ActivitiesAreRows
      <4>10. InFlight(p)
        BY <3>2 DEF InFlight
      <4>. DEFINE owned == {d.id}
      <4>11. /\ ActivitiesStay(owned)
             /\ \A a \in owned : ActivityOf(a) \in req[p].about /\ InFlight(p)
             /\ \A a \in DOMAIN activity \ owned : sent'[a] = sent[a]
             /\ DOMAIN activity' \subseteq DOMAIN activity \cup owned
             /\ \A a \in owned : ActivityOf(a) \notin crossed' => HasTags(a)'
        BY <2>1, <4>2, <4>4, <4>6, <4>8, <4>10 DEF ActivitiesStay, ActivitiesAreRows
      <4>12. crossed \subseteq crossed'
        BY <3>3
      <4>. HIDE DEF owned
      <4>. QED  BY <1>3, <1>6, <3>3, <4>3, <4>9, <4>11, <4>12
    <3>. QED  BY <2>10, <3>0, <3>1, <3>4, <3>5 DEF SaveActivity
  <2>11. CASE SaveTagsOnly(p)
    <3>1. PICK missing : missing = Data(p).missing
      OBVIOUS
    <3>2. /\ Finish(p) /\ pc[p] = "saveTagsOnly" /\ UNCHANGED <<activity, sent>>
          /\ tag' = tag \/ (~Taken(missing) /\ \E new \in NewTags(missing) : tag' = WithTags(new))
      BY <2>11, <3>1 DEF SaveTagsOnly, At
    <3>3. /\ Sent' /\ Alone' /\ crossed' = crossed /\ area' = area /\ Others(p)
          /\ ActivityAgrees(p)'
      BY <2>4, <3>2
    <3>4. CASE tag' = tag
      BY <1>4, <1>6, <3>2, <3>3, <3>4
    <3>5. CASE ~Taken(missing) /\ \E new \in NewTags(missing) : tag' = WithTags(new)
      <4>1. missing \subseteq TagTitles
        BY <2>1, <3>1, <3>2 DEF ActivityAgrees, Resolved, At
      <4>2. TagsAreNumbered' /\ TagsStay
        BY <2>1, <3>5, <4>1, NewTagsAreNumbered
      <4>. DEFINE owned == {}
      <4>3. ActivitiesAreRows' /\ ActivitiesStay(owned)
        BY <2>1, <3>2, <4>2 DEF ActivitiesAreRows, ActivitiesStay, TagsStay
      <4>. QED  BY <1>3, <1>6, <3>2, <3>3, <4>2, <4>3
    <3>. QED  BY <3>2, <3>4, <3>5
  <2>12. CASE CreateGalleryVideo(p)
    <3>1. PICK about, data : Accept(p, about, "saveVideo", data)
      BY <2>12 DEF CreateGalleryVideo
    <3>2. /\ area' = area /\ Sent' /\ Others(p) /\ Alone' /\ crossed \subseteq crossed'
          /\ pc'[p] = "saveVideo"
      BY <2>2, <3>1
    <3>3. ActivityAgrees(p)' /\ UNCHANGED <<activity, tag, sent>>
      BY <2>12, <3>2 DEF ActivityAgrees, At, CreateGalleryVideo, activityVars
    <3>. QED  BY <1>4, <1>6, <3>2, <3>3
  <2>13. CASE SaveVideo(p)
    <3>1. Finish(p) /\ UNCHANGED <<activity, tag, sent>>
      BY <2>13 DEF SaveVideo
    <3>. QED  BY <1>4, <1>6, <2>4, <3>1
  <2>14. CASE DeleteGalleryVideo(p)
    <3>1. (\E about : Serve(p, about)) /\ UNCHANGED <<activity, tag, sent>>
      BY <2>14 DEF DeleteGalleryVideo
    <3>. QED  BY <1>4, <1>6, <2>5, <3>1
  <2>. QED  BY <1>6, <2>6, <2>7, <2>8, <2>9, <2>10, <2>11, <2>12, <2>13, <2>14
            DEF ActivitiesNext
<1>. QED  BY <1>1, <1>2, <1>5, <1>6, ActivitySteps

(* A title has one tag, and an activity that one request at a time was about has the
   tags last sent for it (src/gallery/activity, resolveTagEntities and the transactions
   around it): for any number of activities, titles and requests. *)
THEOREM ActivitiesAlwaysHaveTheirTags == Spec => []ActivitiesHaveTheirTags
<1>1. ActivitiesInv => ActivitiesHaveTheirTags
  BY DEF ActivitiesInv, ActivitiesHaveTheirTags, TagsAreNumbered, HasTags, TitlesOf
<1>. QED  BY <1>1, ActivitiesInvAtFirst, ActivitiesInvKept, PTL DEF Spec


(***************************************************************************)
(* Announcements: events of the calendar                                   *)
(***************************************************************************)

(* The division of t by m, and its parts *)
LEMMA Division ==
  ASSUME NEW t \in Int, NEW m \in Nat \ {0}
  PROVE  /\ t % m \in 0..(m - 1) /\ t \div m \in Int
         /\ t - (t % m) = m * (t \div m)
<1>1. m \in Int /\ m > 0
  OBVIOUS
<1>2. t % m \in 0..(m - 1) /\ t \div m \in Int
  OBVIOUS
<1>3. t % m = t - m * (t \div m)
  BY <1>1, Z3
<1>4. m * (t \div m) \in Int
  BY <1>1, <1>2
<1>. QED  BY <1>1, <1>2, <1>3, <1>4

LEMMA MultiplesAreSorted ==
  ASSUME NEW m \in Nat \ {0}, NEW j \in Int, NEW k \in Int
  PROVE  /\ m * j \in Int /\ m * k \in Int
         /\ m * j < m * k => m * j + m <= m * k
         /\ m * j < m * k + m => j <= k
<1>1. ASSUME NEW i \in Int, NEW l \in Int, i >= l + 1
      PROVE  m * i >= m * l + m
  <2>1. m * i >= m * (l + 1)
    BY <1>1
  <2>. QED  BY <2>1
<1>. QED  BY <1>1

(* Opaque to the provers, who otherwise reason about the remainders *)
Rounded(t, m) == t - (t % m)
Divides(m, t) == t % m = 0

(* Whatever lies within m of a multiple of m is rounded down to it, *)
LEMMA RoundedDown ==
  ASSUME NEW t \in Int, NEW m \in Nat \ {0}, NEW k \in Int, m * k <= t, t < m * k + m
  PROVE  Rounded(t, m) = m * k
<1>1. t % m \in 0..(m - 1) /\ t \div m \in Int /\ Rounded(t, m) = m * (t \div m)
  BY Division DEF Rounded
<1>2. m * k \in Int /\ m * (t \div m) \in Int
  BY <1>1, MultiplesAreSorted
<1>3. m * k < m * (t \div m) + m /\ m * (t \div m) < m * k + m
  BY <1>1, <1>2
<1>4. k <= t \div m /\ t \div m <= k
  BY <1>1, <1>3, MultiplesAreSorted
<1>. QED  BY <1>1, <1>4

(* and only that is. *)
LEMMA Multiples ==
  ASSUME NEW t \in Int, NEW m \in Nat \ {0}
  PROVE  /\ Divides(m, t) => \E k \in Int : t = m * k
         /\ \A k \in Int : t = m * k => Divides(m, t)
<1>1. Divides(m, t) => t = m * (t \div m) /\ t \div m \in Int
  BY Division DEF Divides
<1>2. ASSUME NEW k \in Int, t = m * k  PROVE Divides(m, t)
  <2>1. Rounded(t, m) = m * k
    BY <1>2, RoundedDown
  <2>2. t % m \in 0..(m - 1)
    BY Division
  <2>. QED  BY <1>2, <2>1, <2>2 DEF Divides, Rounded
<1>. QED  BY <1>1, <1>2

LEMMA Rounding ==
  ASSUME NEW t \in Int, NEW m \in Nat \ {0}
  PROVE  /\ Rounded(t, m) \in Int
         /\ Rounded(t, m) <= t /\ t < Rounded(t, m) + m
         /\ Divides(m, Rounded(t, m))
         /\ \A r \in Int : Divides(m, r) => (Rounded(t, m) = r <=> r <= t /\ t < r + m)
<1>1. t % m \in 0..(m - 1) /\ t \div m \in Int /\ Rounded(t, m) = m * (t \div m)
  BY Division DEF Rounded
<1>2. Rounded(t, m) \in Int /\ Rounded(t, m) <= t /\ t < Rounded(t, m) + m
  BY <1>1 DEF Rounded
<1>3. Divides(m, Rounded(t, m))
  BY <1>1, <1>2, Multiples
<1>4. ASSUME NEW r \in Int, Divides(m, r), r <= t, t < r + m  PROVE Rounded(t, m) = r
  <2>1. PICK k \in Int : r = m * k
    BY <1>4, Multiples
  <2>. QED  BY <1>4, <2>1, RoundedDown
<1>. QED  BY <1>2, <1>3, <1>4

(* Multiples differ by m at least, *)
LEMMA MultiplesApart ==
  ASSUME NEW m \in Nat \ {0}, NEW r \in Int, NEW s \in Int, Divides(m, r), Divides(m, s), r < s
  PROVE  r + m <= s
<1>1. PICK j \in Int : r = m * j
  BY Multiples
<1>2. PICK k \in Int : s = m * k
  BY Multiples
<1>. QED  BY <1>1, <1>2, MultiplesAreSorted

(* and are closed under addition and under multiples. *)
LEMMA MultiplesAdd ==
  ASSUME NEW m \in Nat \ {0}, NEW r \in Int, NEW s \in Int, Divides(m, r), Divides(m, s)
  PROVE  Divides(m, r + s)
<1>1. PICK j \in Int : r = m * j
  BY Multiples
<1>2. PICK k \in Int : s = m * k
  BY Multiples
<1>3. r + s = m * (j + k)
  BY <1>1, <1>2
<1>. QED  BY <1>3, Multiples

LEMMA MultiplesOfMultiples ==
  ASSUME NEW m \in Nat \ {0}, NEW n \in Nat \ {0}, NEW r \in Int, Divides(m, n), Divides(n, r)
  PROVE  Divides(m, r)
<1>1. PICK j \in Int : n = m * j
  BY Multiples
<1>2. PICK k \in Int : r = n * k
  BY Multiples
<1>3. r = m * (j * k)
  BY <1>1, <1>2
<1>. QED  BY <1>3, Multiples

(* What begins in an interval of m ends up at the multiples with it. *)
LEMMA RoundedNear ==
  ASSUME NEW m \in Nat \ {0}, NEW s \in Int, Divides(m, s), NEW t \in Int, s <= t, t < s + m
  PROVE  Rounded(t, m) = s
BY Rounding

LEMMA PlanIs ==
  ASSUME plan \in Plans
  PROVE  /\ Unit \in Nat \ {0} /\ plan.ahead \in Nat /\ Divides(Unit, plan.ahead)
         /\ plan.period \in Nat \ {0} /\ Divides(Unit, plan.period)
         /\ plan.range = plan.period /\ plan.cut \in Nat
         /\ Unit <= plan.period
<1>1. /\ Unit \in Nat \ {0} /\ plan.ahead \in Nat /\ Divides(Unit, plan.ahead)
      /\ plan.period \in Nat \ {0} /\ Divides(Unit, plan.period)
      /\ plan.range = plan.period /\ plan.cut \in Nat
  BY PlansAssumption DEF Divides
<1>2. Divides(Unit, 0)
  BY <1>1, Multiples
<1>3. Unit <= plan.period
  BY <1>1, <1>2, MultiplesApart
<1>. QED  BY <1>1, <1>3

(* A run is to announce what starts in its period, so far ahead. *)
LEMMA RunIs ==
  ASSUME plan \in Plans, NEW start \in Int
  PROVE  /\ RunOf(start) \in Int /\ Divides(plan.period, RunOf(start))
         /\ start >= plan.ahead => RunOf(start) >= 0
         /\ \A r \in Int : Divides(plan.period, r) =>
              (RunOf(start) = r <=> r + plan.ahead <= start /\ start < r + plan.ahead + plan.period)
<1>1. PICK m \in Nat \ {0} : m = plan.period
  BY PlanIs
<1>2. PICK a \in Nat : a = plan.ahead
  BY PlanIs
<1>3. PICK t \in Int : t = start - a
  OBVIOUS
<1>4. RunOf(start) = Rounded(t, m)
  BY <1>1, <1>2, <1>3 DEF RunOf, Rounded
<1>5. Divides(m, 0)
  BY Multiples
<1>6. /\ Rounded(t, m) \in Int /\ Divides(m, Rounded(t, m))
      /\ t < Rounded(t, m) + m
      /\ \A r \in Int : Divides(m, r) => (Rounded(t, m) = r <=> r <= t /\ t < r + m)
  BY Rounding
<1>7. Rounded(t, m) < 0 => Rounded(t, m) + m <= 0
  BY <1>5, <1>6, MultiplesApart
<1>8. start >= a => Rounded(t, m) >= 0
  BY <1>3, <1>6, <1>7
<1>9. \A r \in Int : Divides(m, r) =>
        (Rounded(t, m) = r <=> r + a <= start /\ start < r + a + m)
  BY <1>3, <1>6
<1>. QED  BY <1>1, <1>2, <1>4, <1>6, <1>8, <1>9

(* The window of whoever asks at some time, *)
LEMMA WindowIs ==
  ASSUME plan \in Plans, NEW time \in Nat
  PROVE  /\ Floor(time) \in Nat /\ Floor(time) <= time
         /\ From(time) \in Int /\ To(time) \in Int
         /\ \A start \in Int :
              From(time) <= start /\ start < To(time) => RunOf(start) \in Reached(time)
<1>1. Unit \in Nat \ {0} /\ plan.cut \in Nat
  BY PlanIs
<1>2. \A t \in Int : Floor(t) = Rounded(t, Unit)
  BY DEF Floor, Rounded
<1>3. PICK t \in Int : t = time + plan.ahead
  BY PlanIs
<1>4. PICK s \in Int : s = time + plan.ahead + plan.range
  BY PlanIs
<1>5. From(time) \in Int /\ To(time) \in Int
  <2>1. Floor(t) \in Int /\ Floor(s) \in Int
    <3>1. Rounded(t, Unit) \in Int
      BY <1>1, Rounding
    <3>2. Rounded(s, Unit) \in Int
      BY <1>1, Rounding
    <3>. QED  BY <1>2, <3>1, <3>2
  <2>2. From(time) = Floor(t) /\ To(time) = Floor(s) - plan.cut
    BY <1>3, <1>4 DEF From, To
  <2>. QED  BY <1>1, <2>1, <2>2
<1>6. /\ Rounded(time, Unit) \in Int /\ Rounded(time, Unit) <= time
      /\ time < Rounded(time, Unit) + Unit /\ Divides(Unit, Rounded(time, Unit))
  BY <1>1, Rounding
<1>7. Rounded(time, Unit) < 0 => Rounded(time, Unit) + Unit <= 0
  <2>1. Divides(Unit, 0)
    BY <1>1, Multiples
  <2>. QED  BY <1>1, <1>6, <2>1, MultiplesApart
<1>8. Floor(time) \in Nat /\ Floor(time) <= time
  BY <1>1, <1>2, <1>6, <1>7
<1>. QED  BY <1>5, <1>8 DEF Reached

(* and that of a run that begins in its interval. *)
LEMMA WindowOnTime ==
  ASSUME plan \in Plans, NEW time \in Nat, NEW r \in Int, Divides(plan.period, r), Floor(time) = r
  PROVE  /\ From(time) = r + plan.ahead
         /\ To(time) = r + plan.ahead + plan.period - plan.cut
         /\ r <= time /\ time < r + plan.period
<1>1. PICK m \in Nat \ {0} : m = plan.period
  BY PlanIs
<1>2. PICK a \in Nat : a = plan.ahead
  BY PlanIs
<1>3. PICK u \in Nat \ {0} : u = Unit
  BY PlanIs
<1>4. /\ Divides(u, a) /\ Divides(u, m) /\ plan.range = m /\ plan.cut \in Nat /\ u <= m
  BY <1>1, <1>2, <1>3, PlanIs
<1>5. Divides(u, r)
  BY <1>1, <1>4, MultiplesOfMultiples
<1>6. Rounded(time, u) = r
  BY <1>3 DEF Floor, Rounded
<1>7. r <= time /\ time < r + u
  BY <1>6, Rounding
<1>8. Rounded(time + a, u) = r + a /\ Rounded(time + a + m, u) = r + a + m
  <2>1. PICK s \in Int : s = r + a
    OBVIOUS
  <2>2. PICK v \in Int : v = time + a
    OBVIOUS
  <2>3. Divides(u, s) /\ s <= v /\ v < s + u
    BY <1>4, <1>5, <1>7, <2>1, <2>2, MultiplesAdd
  <2>4. Rounded(v, u) = s
    BY <2>3, RoundedNear
  <2>5. PICK s2 \in Int : s2 = s + m
    OBVIOUS
  <2>6. PICK v2 \in Int : v2 = v + m
    OBVIOUS
  <2>7. Divides(u, s2) /\ s2 <= v2 /\ v2 < s2 + u
    BY <1>4, <2>3, <2>5, <2>6, MultiplesAdd
  <2>8. Rounded(v2, u) = s2
    BY <2>7, RoundedNear
  <2>. QED  BY <2>1, <2>2, <2>4, <2>5, <2>6, <2>8
<1>9. From(time) = r + a
  BY <1>2, <1>3, <1>8 DEF From, Floor, Rounded
<1>10. To(time) = r + a + m - plan.cut
  BY <1>1, <1>2, <1>3, <1>4, <1>8 DEF To, Floor, Rounded
<1>. QED  BY <1>1, <1>2, <1>4, <1>7, <1>9, <1>10

(* The window of a run as the property has it *)
LEMMA WindowOfRun ==
  ASSUME plan \in Plans, NEW r \in Nat, Divides(plan.period, r)
  PROVE  To(r) = r + plan.ahead + plan.period - plan.cut
<1>1. PICK u \in Nat \ {0} : u = Unit
  BY PlanIs
<1>2. Divides(u, r)
  BY <1>1, PlanIs, MultiplesOfMultiples
<1>3. r <= r /\ r < r + u
  OBVIOUS
<1>4. Rounded(r, u) = r
  BY <1>2, <1>3, RoundedNear
<1>5. Floor(r) = r
  BY <1>1, <1>4 DEF Floor, Rounded
<1>. QED  BY <1>5, WindowOnTime

(* The next run is the first that is not yet due. *)
LEMMA NextRunIs ==
  ASSUME plan \in Plans, NEW time \in Nat
  PROVE  /\ NextRun(time) \in Nat /\ Divides(plan.period, NextRun(time))
         /\ time < NextRun(time) /\ NextRun(time) <= time + plan.period
         /\ \A r \in Int : Divides(plan.period, r) /\ r > time => r >= NextRun(time)
<1>1. PICK m \in Nat \ {0} : m = plan.period
  BY PlanIs
<1>2. Divides(m, m)
  <2>1. m = m * 1
    OBVIOUS
  <2>. QED  BY <2>1, Multiples
<1>3. PICK run \in Int : run = Rounded(time, m)
  BY Rounding
<1>4. run <= time /\ time < run + m /\ Divides(m, run)
  BY <1>3, Rounding
<1>5. NextRun(time) = run + m
  BY <1>1, <1>3 DEF NextRun, Rounded
<1>6. Divides(m, run + m)
  BY <1>2, <1>4, MultiplesAdd
<1>7. ASSUME NEW r \in Int, Divides(m, r), r > time
      PROVE  r >= run + m
  BY <1>4, <1>7, MultiplesApart
<1>. QED  BY <1>1, <1>4, <1>5, <1>6, <1>7


(* The same of a plan, for the steps: none of them changes it. *)
RunFor(pl, start) == LET t == start - pl.ahead IN t - (t % pl.period)
ToOf(pl, time) == Floor(time + pl.ahead + pl.range) - pl.cut
ReachedAt(pl, time) ==
  {RunFor(pl, start) : start \in Floor(time + pl.ahead)..(ToOf(pl, time) - 1)}
InWindow(pl, event, time) ==
  /\ event.kind = "timed"
  /\ event.start >= Floor(time + pl.ahead) /\ event.start < ToOf(pl, time)
ToAnnounce(pl, event) ==
  event.kind = "timed" /\ event.start >= pl.ahead
    /\ event.start < ToOf(pl, RunFor(pl, event.start))

LEMMA OfThePlan ==
  /\ \A start : RunOf(start) = RunFor(plan, start)
  /\ \A time : Reached(time) = ReachedAt(plan, time)
  /\ \A time : From(time) = Floor(time + plan.ahead) /\ To(time) = ToOf(plan, time)
BY DEF RunOf, RunFor, Reached, ReachedAt, From, To, ToOf

(* The run of an event; only what runs can announce is to be announced. *)
LEMMA EventIs ==
  ASSUME plan \in Plans, NEW event \in Events
  PROVE  /\ event.start \in Int
         /\ RunFor(plan, event.start) \in Int
         /\ Divides(plan.period, RunFor(plan, event.start))
         /\ ToAnnounce(plan, event) => RunFor(plan, event.start) \in Nat
<1>1. event.start \in Int /\ plan.ahead \in Nat
  BY EventsAssumption, PlanIs
<1>2. RunFor(plan, event.start) = RunOf(event.start)
  BY OfThePlan
<1>3. /\ RunOf(event.start) \in Int /\ Divides(plan.period, RunOf(event.start))
      /\ event.start >= plan.ahead => RunOf(event.start) >= 0
  BY <1>1, RunIs
<1>. QED  BY <1>1, <1>2, <1>3 DEF ToAnnounce

(* What an attempt announces is reached at its time, *)
LEMMA WindowsReach ==
  ASSUME plan \in Plans, NEW event \in Events, NEW time \in Nat, InWindow(plan, event, time)
  PROVE  RunFor(plan, event.start) \in ReachedAt(plan, time)
<1>1. event.start \in Int
  BY EventIs
<1>2. From(time) <= event.start /\ event.start < To(time)
  BY <1>1, OfThePlan, WindowIs DEF InWindow
<1>. QED  BY <1>1, <1>2, WindowIs, OfThePlan

(* and is what the run is to announce when it began in its interval. *)
LEMMA WindowsFit ==
  ASSUME plan \in Plans, NEW event \in Events, NEW time \in Nat, NEW run \in Nat,
         Divides(plan.period, run), Floor(time) = run
  PROVE  InWindow(plan, event, time) <=>
           ToAnnounce(plan, event) /\ RunFor(plan, event.start) = run
<1>1. PICK start \in Int : start = event.start
  BY EventIs
<1>2. PICK a \in Nat : a = plan.ahead
  BY PlanIs
<1>3. PICK m \in Nat \ {0} : m = plan.period
  BY PlanIs
<1>4. PICK c \in Nat : c = plan.cut
  BY PlanIs
<1>5. From(time) = run + a /\ To(time) = run + a + m - c
  BY <1>2, <1>3, <1>4, WindowOnTime
<1>6. To(run) = run + a + m - c
  BY <1>2, <1>3, <1>4, WindowOfRun
<1>7. RunOf(start) = run <=> run + a <= start /\ start < run + a + m
  BY <1>2, <1>3, RunIs
<1>8. InWindow(plan, event, time) <=>
        event.kind = "timed" /\ start >= run + a /\ start < run + a + m - c
  BY <1>1, <1>5, OfThePlan DEF InWindow
<1>9. RunFor(plan, event.start) = RunOf(start)
  BY <1>1, OfThePlan
<1>10. RunOf(start) = run =>
         (ToAnnounce(plan, event) <=>
            event.kind = "timed" /\ start >= a /\ start < run + a + m - c)
  BY <1>1, <1>2, <1>6, <1>9, OfThePlan DEF ToAnnounce
<1>. QED  BY <1>7, <1>8, <1>9, <1>10


(* The attempts are of different runs, or of no run, of those that have been due; and
   each knows what it has to announce, of the events that nobody moves, or whatever it
   may announce is disturbed. *)
AnnouncementAgrees(p) ==
  /\ InFlight(p) => At(p, "list") \/ At(p, "executeWebhook") \/ At(p, "retry")
  /\ InFlight(p) /\ Data(p).run = -1 =>
       Data(p).left = 0 /\ req[p].about = {} /\ ~At(p, "retry")
  /\ InFlight(p) /\ Data(p).run # -1 =>
       /\ Data(p).run \in Nat /\ Divides(plan.period, Data(p).run)
       /\ Data(p).run < nextRun /\ Data(p).run <= clock
       /\ req[p].about = {<<"run", Data(p).run>>}
  /\ At(p, "list") =>
       /\ Data(p).now \in Nat
       /\ Data(p).dryrun \in BOOLEAN
       /\ Data(p).dryrun => Data(p).run = -1
       /\ \/ Data(p).dryrun
          \/ Data(p).run # -1 /\ Floor(Data(p).now) = Data(p).run
          \/ /\ Data(p).run = -1 \/ Data(p).run \in disturbed
             /\ ReachedAt(plan, Data(p).now) \subseteq disturbed
  /\ At(p, "executeWebhook") =>
       /\ Data(p).now \in Nat
       /\ \/ Data(p).run # -1 /\ Floor(Data(p).now) = Data(p).run
          \/ /\ Data(p).run = -1 \/ Data(p).run \in disturbed
             /\ ReachedAt(plan, Data(p).now) \subseteq disturbed
       /\ \A e \in Meetings \ moved :
            /\ e \in Data(p).events => InWindow(plan, calendar[e], Data(p).now)
            /\ Data(p).run # -1 /\ Floor(Data(p).now) = Data(p).run
                 /\ InWindow(plan, calendar[e], Data(p).now) => e \in Data(p).events

OneOfEachRun ==
  \A p, q \in Requests :
    InFlight(p) /\ InFlight(q) /\ Data(p).run = Data(q).run => p = q \/ Data(p).run = -1

UnderWay == {Data(p).run : p \in {q \in Requests : InFlight(q)}}

(* An event that nobody moves is announced as soon as its run has been made, and only
   then, unless the run is disturbed. *)
EventTold(e) ==
  LET run == RunFor(plan, calendar[e].start) IN
  run \notin disturbed /\ <<"run", run>> \notin broken =>
    announced[e] = IF ToAnnounce(plan, calendar[e]) /\ run < nextRun /\ run \notin UnderWay
                   THEN 1 ELSE 0

AnnouncementsAreTyped ==
  /\ Sent
  /\ plan \in Plans /\ clock \in Nat
  /\ calendar \in [Meetings -> Events] /\ announced \in [Meetings -> Nat]
  /\ nextRun \in Nat /\ Divides(plan.period, nextRun) /\ nextRun <= clock + plan.period
  /\ \A run \in Int : <<"run", run>> \in broken => run <= clock

AnnouncementsInv ==
  area = "announcements" =>
    /\ AnnouncementsAreTyped
    /\ \A p \in Requests : AnnouncementAgrees(p)
    /\ OneOfEachRun
    /\ \A e \in Meetings \ moved : EventTold(e)

LEMMA AnnouncementSteps ==
  ASSUME [Next]_vars
  PROVE  \/ area = "announcements" /\ \E p \in Requests : AnnouncementsNext(p)
         \/ UNCHANGED announcementVars /\ \E p \in Requests : Die(p)
         \/ PassTick
         \/ area # "announcements" /\ UNCHANGED <<area, announcementVars>>
         \/ UNCHANGED <<serverVars, announcementVars>>
BY DEF Next, vars, Handle, Crash, Environment, PassTime, ExpireToken, ExpireCache,
  ProcessPhoto, OutsideOfScheduler, OutsideOfRecruitment, OutsideOfRegistration,
  OutsideOfMembers, OutsideOfDiscordSync, OutsideOfAlbums, OutsideOfProfilePhotos,
  OutsideOfPhotoStream, OutsideOfForms, OutsideOfActivities, OutsideOfDirectory

(* What the other attempts agree with, while time passes *)
LEMMA OthersAgree ==
  ASSUME AnnouncementsAreTyped, \A q \in Requests : AnnouncementAgrees(q),
         NEW p \in Requests, Others(p), UNCHANGED <<plan, calendar>>, moved \subseteq moved',
         clock' \in Nat, clock <= clock', nextRun' \in Nat, nextRun <= nextRun',
         disturbed \subseteq disturbed',
         AnnouncementAgrees(p)'
  PROVE  (\A q \in Requests : AnnouncementAgrees(q))'
<1>. SUFFICES ASSUME NEW q \in Requests, q # p  PROVE AnnouncementAgrees(q)'
  OBVIOUS
<1>1. pc'[q] = pc[q] /\ req'[q] = req[q] /\ plan' = plan /\ calendar' = calendar
  BY DEF Others
<1>2. AnnouncementAgrees(q) /\ clock \in Nat /\ nextRun \in Nat
  BY DEF AnnouncementsAreTyped
<1>. QED  BY <1>1, <1>2 DEF AnnouncementAgrees, InFlight, At, Data

(* The runs that are under way after a step of p *)
LEMMA UnderWayIs ==
  ASSUME NEW p \in Requests, Others(p)
  PROVE  /\ InFlight(p) /\ InFlight(p)' /\ Data(p)'.run = Data(p).run => UnderWay' = UnderWay
         /\ ~InFlight(p) /\ ~InFlight(p)' => UnderWay' = UnderWay
         /\ ~InFlight(p) /\ InFlight(p)' => UnderWay' = UnderWay \cup {Data(p)'.run}
         /\ InFlight(p) /\ ~InFlight(p)' =>
              /\ \A run : run # Data(p).run => (run \in UnderWay' <=> run \in UnderWay)
              /\ OneOfEachRun /\ Data(p).run # -1 => Data(p).run \notin UnderWay'
         /\ InFlight(p) => Data(p).run \in UnderWay
<1>. DEFINE rest == {q \in Requests \ {p} : InFlight(q)}
<1>1. \A q \in Requests \ {p} : (InFlight(q)' <=> InFlight(q)) /\ Data(q)' = Data(q)
  BY DEF Others, InFlight, Data
<1>2. \A run : run \in UnderWay <=> (InFlight(p) /\ run = Data(p).run) \/ \E q \in rest : run = Data(q).run
  BY DEF UnderWay
<1>3. \A run : run \in UnderWay' <=>
        (InFlight(p)' /\ run = Data(p)'.run) \/ \E q \in rest : run = Data(q).run
  BY <1>1 DEF UnderWay
<1>4. OneOfEachRun /\ InFlight(p) /\ Data(p).run # -1 => \A q \in rest : Data(q).run # Data(p).run
  BY DEF OneOfEachRun
<1>. QED  BY <1>2, <1>3, <1>4

(* One of each run, when a step begins none *)
LEMMA OneOfEachRunStill ==
  ASSUME OneOfEachRun, NEW p \in Requests, Others(p),
         InFlight(p)' => Data(p)'.run = -1 \/ (InFlight(p) /\ Data(p)'.run = Data(p).run)
  PROVE  OneOfEachRun'
<1>1. \A q \in Requests \ {p} : (InFlight(q)' <=> InFlight(q)) /\ Data(q)' = Data(q)
  BY DEF Others, InFlight, Data
<1>. QED  BY <1>1 DEF OneOfEachRun


(* What is told of an event stays true while neither it nor its run is touched. *)
LEMMA EventToldStill ==
  ASSUME AnnouncementsAreTyped, NEW e \in Meetings, EventTold(e),
         plan' = plan, calendar'[e] = calendar[e], announced'[e] = announced[e],
         nextRun' = nextRun, disturbed \subseteq disturbed', broken \subseteq broken',
         LET run == RunFor(plan, calendar[e].start) IN
           run \in Nat /\ run \notin disturbed' /\ <<"run", run>> \notin broken' =>
             (run \in UnderWay' <=> run \in UnderWay)
  PROVE  EventTold(e)'
<1>. DEFINE run == RunFor(plan, calendar[e].start)
<1>1. ToAnnounce(plan, calendar[e]) => run \in Nat
  BY EventIs DEF AnnouncementsAreTyped
<1>2. run \notin disturbed /\ <<"run", run>> \notin broken =>
        announced[e] = IF ToAnnounce(plan, calendar[e]) /\ run < nextRun /\ run \notin UnderWay
                       THEN 1 ELSE 0
  BY DEF EventTold
<1>3. ASSUME run \notin disturbed', <<"run", run>> \notin broken'
      PROVE  announced'[e] = IF ToAnnounce(plan, calendar[e]) /\ run < nextRun' /\ run \notin UnderWay'
                       THEN 1 ELSE 0
  <2>1. ToAnnounce(plan, calendar[e]) => (run \in UnderWay' <=> run \in UnderWay)
    BY <1>1, <1>3
  <2>. HIDE DEF run
  <2>. QED  BY <1>2, <1>3, <2>1
<1>4. RunFor(plan', calendar'[e].start) = run /\ ToAnnounce(plan', calendar'[e]) = ToAnnounce(plan, calendar[e])
  OBVIOUS
<1>. HIDE DEF run
<1>. QED  BY <1>3, <1>4 DEF EventTold

LEMMA AnnouncementsInvAtFirst == Init => AnnouncementsInv
<1>. SUFFICES ASSUME Init, area = "announcements"
     PROVE  /\ AnnouncementsAreTyped
            /\ \A p \in Requests : AnnouncementAgrees(p)
            /\ OneOfEachRun
            /\ \A e \in Meetings \ moved : EventTold(e)
  BY DEF AnnouncementsInv
<1>1. /\ clock = 0 /\ nextRun = 0 /\ moved = {} /\ disturbed = {} /\ broken = {}
      /\ announced = [e \in Meetings |-> 0]
      /\ plan \in Plans /\ calendar \in [Meetings -> Events]
  BY EventsAssumption DEF Init, InitAnnouncements, InitRequests
<1>2. Sent /\ \A p \in Requests : pc[p] = "new"
  BY SentAtFirst DEF Init, InitRequests
<1>3. Divides(plan.period, 0) /\ plan.period \in Nat
  BY <1>1, PlanIs, Multiples
<1>4. AnnouncementsAreTyped
  BY <1>1, <1>2, <1>3 DEF AnnouncementsAreTyped
<1>5. \A p \in Requests : ~InFlight(p) /\ AnnouncementAgrees(p)
  BY <1>2 DEF InFlight, AnnouncementAgrees, At
<1>6. ASSUME NEW e \in Meetings  PROVE EventTold(e)
  <2>1. ToAnnounce(plan, calendar[e]) => RunFor(plan, calendar[e].start) \in Nat
    BY <1>1, EventIs
  <2>. QED  BY <1>1, <2>1 DEF EventTold
<1>. QED  BY <1>4, <1>5, <1>6 DEF OneOfEachRun

(* The steps *)
AnnouncementsHold ==
  /\ area = "announcements"
  /\ AnnouncementsAreTyped
  /\ \A p \in Requests : AnnouncementAgrees(p)
  /\ OneOfEachRun
  /\ \A e \in Meetings \ moved : EventTold(e)

LEMMA StartJobTells ==
  ASSUME AnnouncementsHold, NEW p \in Requests, StartJob(p)
  PROVE  AnnouncementsHold'
<1>. DEFINE d == [run |-> nextRun, now |-> clock, left |-> Attempts - 1, dryrun |-> FALSE]
<1>1. /\ Accept(p, {<<"run", nextRun>>}, "list", d)
      /\ area = "announcements" /\ pc[p] = "new" /\ clock >= nextRun /\ nextRun' = NextRun(clock)
      /\ UNCHANGED <<plan, clock, calendar, announced, moved>>
      /\ disturbed' = disturbed \cup
           IF Floor(clock) = nextRun THEN {} ELSE nextRun..clock \cup Reached(clock)
  BY DEF StartJob, Arrives, At
<1>2. /\ Sent /\ plan \in Plans /\ clock \in Nat /\ nextRun \in Nat
      /\ Divides(plan.period, nextRun) /\ plan.period \in Nat \ {0}
  BY PlanIs DEF AnnouncementsHold, AnnouncementsAreTyped
<1>3. Sent' /\ pc'[p] = "list" /\ req'[p] = [about |-> {<<"run", nextRun>>}, data |-> d] /\ Others(p)
  <2>. DEFINE about == {<<"run", nextRun>>}
  <2>1. Sent /\ Accept(p, about, "list", d)
    BY <1>1, <1>2
  <2>. HIDE DEF d, about
  <2>2. Sent' /\ pc'[p] = "list" /\ req'[p] = [about |-> about, data |-> d] /\ Others(p)
    BY <2>1, AcceptStep
  <2>. QED  BY <2>2 DEF about
<1>4. UNCHANGED <<area, broken>>
  BY <1>1 DEF Accept
<1>5. /\ nextRun' \in Nat /\ Divides(plan.period, nextRun') /\ nextRun' <= clock + plan.period
      /\ clock < nextRun' /\ nextRun < nextRun'
      /\ \A r \in Int : Divides(plan.period, r) /\ r > clock => r >= nextRun'
  BY <1>1, <1>2, NextRunIs
<1>6. AnnouncementsAreTyped'
  BY <1>1, <1>3, <1>4, <1>5 DEF AnnouncementsHold, AnnouncementsAreTyped
<1>7. nextRun..clock \cup ReachedAt(plan, clock) \subseteq disturbed' \/ Floor(clock) = nextRun
  BY <1>1, OfThePlan
<1>8. nextRun \in nextRun..clock
  BY <1>1, <1>2
<1>9. AnnouncementAgrees(p)'
  <2>1. Data(p)' = d /\ req'[p].about = {<<"run", nextRun>>}
    BY <1>3 DEF Data
  <2>2. d.run = nextRun /\ d.now = clock /\ d.dryrun = FALSE
    OBVIOUS
  <2>3. nextRun # -1
    BY <1>2
  <2>4. \/ ReachedAt(plan, clock) \subseteq disturbed' /\ nextRun \in disturbed'
        \/ Floor(clock) = nextRun
    BY <1>7, <1>8
  <2>5. plan' = plan /\ clock' = clock
    BY <1>1
  <2>. HIDE DEF d
  <2>. QED  BY <1>1, <1>2, <1>3, <1>5, <2>1, <2>2, <2>3, <2>4, <2>5 DEF AnnouncementAgrees, At
<1>10. (\A q \in Requests : AnnouncementAgrees(q))'
  BY <1>1, <1>2, <1>3, <1>5, <1>9, OthersAgree DEF AnnouncementsHold
<1>11. ~InFlight(p) /\ InFlight(p)' /\ Data(p)'.run = nextRun
  BY <1>1, <1>3 DEF InFlight, Data
<1>12. \A q \in Requests : InFlight(q) => Data(q).run # nextRun
  BY <1>2 DEF AnnouncementsHold, AnnouncementAgrees
<1>13. OneOfEachRun'
  <2>1. \A q \in Requests \ {p} : (InFlight(q)' <=> InFlight(q)) /\ Data(q)' = Data(q)
    BY <1>3 DEF Others, InFlight, Data
  <2>. QED  BY <2>1, <1>11, <1>12 DEF AnnouncementsHold, OneOfEachRun
<1>14. ASSUME NEW e \in Meetings \ moved'  PROVE EventTold(e)'
  <2>. DEFINE run == RunFor(plan, calendar[e].start)
  <2>1. EventTold(e) /\ calendar[e] \in Events /\ announced[e] = announced'[e]
    BY <1>1, <1>14 DEF AnnouncementsHold, AnnouncementsAreTyped
  <2>2. run \in Int /\ Divides(plan.period, run)
    BY <1>2, <2>1, EventIs
  <2>3. UnderWay' = UnderWay \cup {nextRun} /\ nextRun \notin UnderWay
    <3>1. UnderWay' = UnderWay \cup {nextRun}
      BY <1>3, <1>11, UnderWayIs
    <3>. QED  BY <3>1, <1>12 DEF UnderWay
  <2>4. ASSUME run \notin disturbed'
        PROVE  run < nextRun /\ run \notin UnderWay <=> run < nextRun' /\ run \notin UnderWay'
    <3>1. CASE run < nextRun
      BY <3>1, <1>2, <1>5, <2>2, <2>3
    <3>2. CASE run = nextRun
      BY <3>2, <1>2, <2>3
    <3>3. CASE run > nextRun
      <4>1. nextRun + plan.period <= run
        BY <3>3, <1>2, <2>2, MultiplesApart
      <4>2. ASSUME run <= clock  PROVE FALSE
        <5>1. Floor(clock) = nextRun
          BY <3>3, <4>2, <2>4, <1>2, <1>7, <2>2
        <5>2. clock < nextRun + plan.period
          BY <5>1, <1>2, WindowOnTime
        <5>. QED  BY <4>1, <4>2, <5>2, <1>2, <2>2
      <4>. QED  BY <3>3, <4>2, <1>2, <1>5, <2>2
    <3>. QED  BY <3>1, <3>2, <3>3, <1>2, <2>2
  <2>5. disturbed \subseteq disturbed'
    BY <1>1
  <2>6. plan' = plan /\ calendar' = calendar /\ broken' = broken
    BY <1>1, <1>4
  <2>. QED  BY <2>1, <2>4, <2>5, <2>6 DEF EventTold
<1>. QED  BY <1>1, <1>4, <1>6, <1>10, <1>13, <1>14 DEF AnnouncementsHold

LEMMA TriggerTells ==
  ASSUME AnnouncementsHold, NEW p \in Requests, Trigger(p)
  PROVE  AnnouncementsHold'
<1>1. PICK now0 \in 0..LastTick, dryrun0 \in BOOLEAN :
        /\ Accept(p, {}, "list", [run |-> -1, now |-> now0, left |-> 0, dryrun |-> dryrun0])
        /\ disturbed' = disturbed \cup IF dryrun0 THEN {} ELSE Reached(now0)
  BY DEF Trigger
<1>2. /\ area = "announcements" /\ pc[p] = "new"
      /\ UNCHANGED <<plan, clock, calendar, nextRun, announced, moved>>
  BY DEF Trigger, Arrives, At
<1>3. AnnouncementsAreTyped /\ Sent /\ clock \in Nat /\ nextRun \in Nat
  BY DEF AnnouncementsHold, AnnouncementsAreTyped
<1>4. /\ Sent' /\ pc'[p] = "list" /\ Others(p)
      /\ req'[p] = [about |-> {}, data |-> [run |-> -1, now |-> now0, left |-> 0, dryrun |-> dryrun0]]
  <2>. SUFFICES ASSUME NEW d, Accept(p, {}, "list", d)
                PROVE  Sent' /\ pc'[p] = "list" /\ Others(p) /\ req'[p] = [about |-> {}, data |-> d]
    BY <1>1
  <2>. QED  BY <1>3, AcceptStep
<1>5. UNCHANGED <<area, broken>>
  BY <1>1 DEF Accept
<1>6. AnnouncementsAreTyped'
  BY <1>2, <1>3, <1>4, <1>5 DEF AnnouncementsAreTyped
<1>7. dryrun0 \/ ReachedAt(plan, now0) \subseteq disturbed'
  BY <1>1, OfThePlan
<1>8. now0 \in Nat
  OBVIOUS
<1>9. AnnouncementAgrees(p)'
  BY <1>2, <1>4, <1>7, <1>8 DEF AnnouncementAgrees, InFlight, At, Data
<1>10. (\A q \in Requests : AnnouncementAgrees(q))'
  BY <1>1, <1>2, <1>3, <1>4, <1>9, OthersAgree DEF AnnouncementsHold
<1>11. ~InFlight(p) /\ InFlight(p)' /\ Data(p)'.run = -1
  BY <1>2, <1>4 DEF InFlight, Data
<1>12. OneOfEachRun'
  BY <1>4, <1>11, OneOfEachRunStill DEF AnnouncementsHold
<1>13. UnderWay' = UnderWay \cup {-1}
  BY <1>4, <1>11, UnderWayIs
<1>14. ASSUME NEW e \in Meetings \ moved'  PROVE EventTold(e)'
  <2>1. e \in Meetings /\ EventTold(e)
    BY <1>2, <1>14 DEF AnnouncementsHold
  <2>2. /\ plan' = plan /\ calendar'[e] = calendar[e] /\ announced'[e] = announced[e]
        /\ nextRun' = nextRun /\ disturbed \subseteq disturbed' /\ broken \subseteq broken'
    BY <1>1, <1>2, <1>5
  <2>3. \A run \in Nat : run \in UnderWay' <=> run \in UnderWay
    BY <1>13
  <2>. QED  BY <1>3, <2>1, <2>2, <2>3, EventToldStill
<1>. QED  BY <1>2, <1>5, <1>6, <1>10, <1>12, <1>14 DEF AnnouncementsHold


LEMMA ListEventsTells ==
  ASSUME AnnouncementsHold, NEW p \in Requests, ListEvents(p)
  PROVE  AnnouncementsHold'
<1>. DEFINE d == Data(p)
            from == From(d.now)
            events == FilterOnlyUpcomingEvents(from, List(from, To(d.now)))
            run == d.run
<1>1. /\ At(p, "list") /\ UNCHANGED announcementVars
      /\ IF events = {} \/ d.dryrun THEN Finish(p)
         ELSE Go(p, "executeWebhook", 
                 [run |-> d.run, now |-> d.now, left |-> d.left, events |-> events])
  BY DEF ListEvents
<1>2. /\ AnnouncementsAreTyped /\ Sent /\ plan \in Plans /\ clock \in Nat /\ nextRun \in Nat
      /\ AnnouncementAgrees(p) /\ InFlight(p) /\ area = "announcements"
  BY <1>1 DEF AnnouncementsHold, AnnouncementsAreTyped, InFlight, At
<1>3. UNCHANGED <<plan, clock, calendar, nextRun, announced, moved, disturbed>>
  BY <1>1 DEF announcementVars
<1>4. UNCHANGED <<area, broken>>
  BY <1>1 DEF Finish, Go
<1>5. d.now \in Nat
  BY <1>1, <1>2 DEF AnnouncementAgrees
<1>6. \A e \in Meetings : e \in events <=> InWindow(plan, calendar[e], d.now)
  <2>. SUFFICES ASSUME NEW e \in Meetings
       PROVE  e \in events <=> InWindow(plan, calendar[e], d.now)
    OBVIOUS
  <2>1. /\ calendar[e] \in Events
        /\ calendar[e].kind = "timed" => calendar[e].start < calendar[e].end
    BY <1>2, EventsAssumption DEF AnnouncementsAreTyped
  <2>2. calendar[e].start \in Int /\ From(d.now) \in Int
    BY <1>2, <1>5, <2>1, EventIs, WindowIs
  <2>3. InWindow(plan, calendar[e], d.now) <=>
          calendar[e].kind = "timed" /\ calendar[e].start >= From(d.now) /\ calendar[e].start < To(d.now)
    BY OfThePlan DEF InWindow
  <2>4. calendar[e].kind = "timed" /\ calendar[e].start >= From(d.now) => calendar[e].end > From(d.now)
    BY <2>1, <2>2, EventsAssumption
  <2>. QED  BY <2>3, <2>4 DEF FilterOnlyUpcomingEvents, List
<1>. HIDE DEF events
<1>7. CASE events = {} \/ d.dryrun
  <2>1. Finish(p)
    BY <1>1, <1>7
  <2>2. Sent' /\ pc'[p] = "done" /\ Others(p)
    BY <1>2, <2>1, FinishStep
  <2>3. AnnouncementsAreTyped'
    BY <1>2, <1>3, <1>4, <2>2 DEF AnnouncementsAreTyped
  <2>4. ~InFlight(p)' /\ AnnouncementAgrees(p)'
    BY <2>2 DEF InFlight, AnnouncementAgrees, At
  <2>5. (\A q \in Requests : AnnouncementAgrees(q))'
    BY <1>2, <1>3, <2>2, <2>4, OthersAgree DEF AnnouncementsHold
  <2>6. OneOfEachRun'
    BY <2>2, <2>4, OneOfEachRunStill DEF AnnouncementsHold
  <2>7. /\ \A r : r # run => (r \in UnderWay' <=> r \in UnderWay)
        /\ run # -1 => run \notin UnderWay'
        /\ run \in UnderWay
    BY <1>2, <2>2, <2>4, UnderWayIs DEF AnnouncementsHold
  <2>8. ASSUME NEW e \in Meetings \ moved'  PROVE EventTold(e)'
    <3>. DEFINE mine == RunFor(plan, calendar[e].start)
    <3>1. e \in Meetings /\ EventTold(e) /\ calendar[e] \in Events
      BY <1>3, <1>2, <2>8 DEF AnnouncementsHold, AnnouncementsAreTyped
    <3>2. /\ plan' = plan /\ calendar'[e] = calendar[e] /\ announced'[e] = announced[e]
          /\ nextRun' = nextRun /\ disturbed' = disturbed /\ broken' = broken
      BY <1>3, <1>4
    <3>3. CASE mine # run
      <4>1. mine \in UnderWay' <=> mine \in UnderWay
        BY <2>7, <3>3
      <4>. QED  BY <1>2, <3>1, <3>2, <4>1, EventToldStill
    <3>4. CASE mine = run /\ run \notin Nat
      BY <1>2, <3>1, <3>2, <3>4, EventToldStill
    <3>5. CASE mine = run /\ run \in Nat
      <4>1. run # -1 /\ Divides(plan.period, run) /\ ~d.dryrun /\ events = {}
        BY <1>1, <1>2, <1>7, <3>5 DEF AnnouncementAgrees
      <4>2. run \in disturbed \/ Floor(d.now) = run
        BY <1>1, <1>2, <4>1 DEF AnnouncementAgrees
      <4>3. Floor(d.now) = run => ~ToAnnounce(plan, calendar[e])
        BY <1>2, <1>5, <1>6, <3>1, <3>5, <4>1, WindowsFit
      <4>. QED  BY <3>1, <3>2, <3>5, <4>2, <4>3 DEF EventTold
    <3>. QED  BY <3>3, <3>4, <3>5
  <2>. QED  BY <1>2, <1>4, <2>3, <2>5, <2>6, <2>8 DEF AnnouncementsHold
<1>8. CASE ~(events = {} \/ d.dryrun)
  <2>. DEFINE d2 == [run |-> d.run, now |-> d.now, left |-> d.left, events |-> events]
  <2>1. Go(p, "executeWebhook", d2)
    BY <1>1, <1>8
  <2>2. /\ d2.events = events /\ d2.run = run /\ d2.now = d.now /\ d2.left = d.left
    OBVIOUS
  <2>. HIDE DEF d2
  <2>3. /\ Sent' /\ pc'[p] = "executeWebhook" /\ req'[p].about = req[p].about
        /\ req'[p].data = d2 /\ Others(p)
    BY <1>2, <2>1, GoStep
  <2>4. AnnouncementsAreTyped'
    BY <1>2, <1>3, <1>4, <2>3 DEF AnnouncementsAreTyped
  <2>5. InFlight(p)' /\ Data(p)' = d2
    BY <2>3 DEF InFlight, Data
  <2>6. AnnouncementAgrees(p)'
    <3>1. /\ plan' = plan /\ clock' = clock /\ calendar' = calendar /\ nextRun' = nextRun
          /\ moved' = moved /\ disturbed' = disturbed
      BY <1>3
    <3>. QED  BY <1>1, <1>2, <1>5, <1>6, <1>8, <2>2, <2>3, <2>5, <3>1 DEF AnnouncementAgrees, At
  <2>7. (\A q \in Requests : AnnouncementAgrees(q))'
    BY <1>2, <1>3, <2>3, <2>6, OthersAgree DEF AnnouncementsHold
  <2>8. OneOfEachRun'
    BY <1>2, <2>2, <2>3, <2>5, OneOfEachRunStill DEF AnnouncementsHold
  <2>9. UnderWay' = UnderWay
    BY <1>2, <2>2, <2>3, <2>5, UnderWayIs
  <2>10. ASSUME NEW e \in Meetings \ moved'  PROVE EventTold(e)'
    <3>1. e \in Meetings /\ EventTold(e)
      BY <1>3, <2>10 DEF AnnouncementsHold
    <3>2. /\ plan' = plan /\ calendar'[e] = calendar[e] /\ announced'[e] = announced[e]
          /\ nextRun' = nextRun /\ disturbed' = disturbed /\ broken' = broken
      BY <1>3, <1>4
    <3>. QED  BY <1>2, <2>9, <3>1, <3>2, EventToldStill
  <2>. QED  BY <1>2, <1>4, <2>4, <2>7, <2>8, <2>10 DEF AnnouncementsHold
<1>. QED  BY <1>7, <1>8


LEMMA ExecuteWebhookTells ==
  ASSUME AnnouncementsHold, NEW p \in Requests, ExecuteWebhook(p)
  PROVE  AnnouncementsHold'
<1>. DEFINE d == Data(p)
            run == d.run
<1>1. /\ At(p, "executeWebhook") /\ Announce(d.events) /\ Finish(p)
      /\ UNCHANGED <<plan, clock, calendar, nextRun, moved, disturbed>>
  BY DEF ExecuteWebhook
<1>2. /\ AnnouncementsAreTyped /\ Sent /\ plan \in Plans /\ clock \in Nat /\ nextRun \in Nat
      /\ AnnouncementAgrees(p) /\ InFlight(p) /\ area = "announcements"
  BY <1>1 DEF AnnouncementsHold, AnnouncementsAreTyped, InFlight, At
<1>3. UNCHANGED <<area, broken>>
  BY <1>1 DEF Finish
<1>4. Sent' /\ pc'[p] = "done" /\ Others(p)
  BY <1>1, <1>2, FinishStep
<1>5. /\ announced' \in [Meetings -> Nat]
      /\ \A e \in Meetings : announced'[e] = IF e \in d.events THEN announced[e] + 1 ELSE announced[e]
  BY <1>1, <1>2 DEF Announce, AnnouncementsAreTyped
<1>6. AnnouncementsAreTyped'
  BY <1>1, <1>2, <1>3, <1>4, <1>5 DEF AnnouncementsAreTyped
<1>7. ~InFlight(p)' /\ AnnouncementAgrees(p)'
  BY <1>4 DEF InFlight, AnnouncementAgrees, At
<1>8. (\A q \in Requests : AnnouncementAgrees(q))'
  BY <1>1, <1>2, <1>4, <1>7, OthersAgree DEF AnnouncementsHold
<1>9. OneOfEachRun'
  BY <1>4, <1>7, OneOfEachRunStill DEF AnnouncementsHold
<1>10. /\ \A r : r # run => (r \in UnderWay' <=> r \in UnderWay)
       /\ run # -1 => run \notin UnderWay'
       /\ run \in UnderWay
  BY <1>2, <1>4, <1>7, UnderWayIs DEF AnnouncementsHold
<1>11. ASSUME NEW e \in Meetings \ moved'  PROVE EventTold(e)'
  <2>. DEFINE mine == RunFor(plan, calendar[e].start)
  <2>1. e \in Meetings \ moved /\ EventTold(e) /\ calendar[e] \in Events
    BY <1>1, <1>2, <1>11 DEF AnnouncementsHold, AnnouncementsAreTyped
  <2>2. /\ plan' = plan /\ calendar'[e] = calendar[e]
        /\ nextRun' = nextRun /\ disturbed' = disturbed /\ broken' = broken
    BY <1>1, <1>3
  <2>3. d.now \in Nat /\ (e \in d.events => InWindow(plan, calendar[e], d.now))
    BY <1>1, <1>2, <2>1 DEF AnnouncementAgrees
  <2>4. CASE run # -1 /\ Floor(d.now) = run
    <3>1. run \in Nat /\ Divides(plan.period, run) /\ run < nextRun
      BY <1>2, <2>4 DEF AnnouncementAgrees
    <3>2. e \in d.events <=> InWindow(plan, calendar[e], d.now)
      BY <1>1, <1>2, <2>1, <2>4 DEF AnnouncementAgrees
    <3>3. e \in d.events <=> ToAnnounce(plan, calendar[e]) /\ mine = run
      BY <1>2, <2>1, <2>3, <2>4, <3>1, <3>2, WindowsFit
    <3>4. CASE mine = run
      <4>1. mine \notin disturbed /\ <<"run", mine>> \notin broken => announced[e] = 0
        BY <1>10, <2>1, <3>4 DEF EventTold
      <4>2. mine < nextRun /\ mine \notin UnderWay'
        BY <1>10, <2>4, <3>1, <3>4
      <4>3. announced'[e] = IF ToAnnounce(plan, calendar[e]) THEN announced[e] + 1 ELSE announced[e]
        BY <1>5, <2>1, <3>3, <3>4
      <4>. QED  BY <2>2, <4>1, <4>2, <4>3 DEF EventTold
    <3>5. CASE mine # run
      <4>1. announced'[e] = announced[e] /\ (mine \in UnderWay' <=> mine \in UnderWay)
        BY <1>5, <1>10, <2>1, <3>3, <3>5
      <4>. QED  BY <1>2, <2>1, <2>2, <4>1, EventToldStill
    <3>. QED  BY <3>4, <3>5
  <2>5. CASE ~(run # -1 /\ Floor(d.now) = run)
    <3>1. (run = -1 \/ run \in disturbed) /\ ReachedAt(plan, d.now) \subseteq disturbed
      BY <1>1, <1>2, <2>5 DEF AnnouncementAgrees
    <3>2. CASE e \in d.events
      <4>1. mine \in disturbed
        BY <1>2, <2>1, <2>3, <3>1, <3>2, WindowsReach
      <4>. QED  BY <2>2, <4>1 DEF EventTold
    <3>3. CASE e \notin d.events
      <4>1. announced'[e] = announced[e]
        BY <1>5, <2>1, <3>3
      <4>2. mine \in Nat /\ mine \notin disturbed => (mine \in UnderWay' <=> mine \in UnderWay)
        BY <1>10, <3>1
      <4>. QED  BY <1>2, <2>1, <2>2, <4>1, <4>2, EventToldStill
    <3>. QED  BY <3>2, <3>3
  <2>. QED  BY <2>4, <2>5
<1>. QED  BY <1>2, <1>3, <1>6, <1>8, <1>9, <1>11 DEF AnnouncementsHold

LEMMA AttemptFailsTells ==
  ASSUME AnnouncementsHold, NEW p \in Requests, AttemptFails(p)
  PROVE  AnnouncementsHold'
<1>. DEFINE d == Data(p)
            run == d.run
            lost == IF d.left = 0 THEN {run} ELSE {}
            Silent == announced' = announced /\ disturbed' = disturbed \cup lost
            Spoken == /\ At(p, "executeWebhook") /\ Announce(d.events)
                      /\ disturbed' = disturbed \cup lost \cup Reached(d.now)
<1>1. /\ At(p, "list") \/ At(p, "executeWebhook")
      /\ Silent \/ Spoken
      /\ IF d.left = 0 THEN Finish(p) ELSE Go(p, "retry", [run |-> run, left |-> d.left - 1])
      /\ UNCHANGED <<plan, clock, calendar, nextRun, moved>>
  BY DEF AttemptFails
<1>2. /\ AnnouncementsAreTyped /\ Sent /\ plan \in Plans /\ clock \in Nat /\ nextRun \in Nat
      /\ AnnouncementAgrees(p) /\ InFlight(p) /\ area = "announcements"
  BY <1>1 DEF AnnouncementsHold, AnnouncementsAreTyped, InFlight, At
<1>3. UNCHANGED <<area, broken>>
  BY <1>1 DEF Finish, Go
<1>4. announced' \in [Meetings -> Nat] /\ disturbed \cup lost \subseteq disturbed'
  BY <1>1, <1>2 DEF Announce, AnnouncementsAreTyped
<1>5. ASSUME NEW e \in Meetings \ moved
      PROVE  announced'[e] = announced[e] \/ RunFor(plan, calendar[e].start) \in disturbed'
  <2>1. CASE Silent
    BY <2>1
  <2>2. CASE Spoken
    <3>1. announced'[e] = announced[e] \/ e \in d.events
      BY <2>2, <1>2 DEF Announce, AnnouncementsAreTyped
    <3>2. ASSUME e \in d.events  PROVE RunFor(plan, calendar[e].start) \in disturbed'
      <4>1. calendar[e] \in Events /\ d.now \in Nat /\ InWindow(plan, calendar[e], d.now)
        BY <1>2, <2>2, <3>2 DEF AnnouncementsAreTyped, AnnouncementAgrees
      <4>. QED  BY <1>2, <2>2, <4>1, WindowsReach, OfThePlan
    <3>. QED  BY <3>1, <3>2
  <2>. QED  BY <1>1, <2>1, <2>2
<1>. HIDE DEF Silent, Spoken
<1>6. /\ Sent' /\ Others(p) /\ AnnouncementAgrees(p)' /\ OneOfEachRun'
      /\ \A r : r # run \/ run \notin lost \cup {-1} => (r \in UnderWay' <=> r \in UnderWay)
  <2>1. CASE d.left = 0
    <3>1. Sent' /\ pc'[p] = "done" /\ Others(p)
      BY <1>1, <1>2, <2>1, FinishStep
    <3>2. ~InFlight(p)' /\ AnnouncementAgrees(p)'
      BY <3>1 DEF InFlight, AnnouncementAgrees, At
    <3>3. OneOfEachRun'
      BY <3>1, <3>2, OneOfEachRunStill DEF AnnouncementsHold
    <3>4. \A r : r # run => (r \in UnderWay' <=> r \in UnderWay)
      BY <1>2, <3>1, <3>2, UnderWayIs
    <3>. QED  BY <2>1, <3>1, <3>2, <3>3, <3>4
  <2>2. CASE d.left # 0
    <3>. DEFINE d2 == [run |-> run, left |-> d.left - 1]
    <3>1. Go(p, "retry", d2) /\ d2.run = run
      BY <1>1, <2>2
    <3>. HIDE DEF d2
    <3>2. /\ Sent' /\ pc'[p] = "retry" /\ req'[p].about = req[p].about
          /\ req'[p].data = d2 /\ Others(p)
      BY <1>2, <3>1, GoStep
    <3>3. InFlight(p)' /\ Data(p)' = d2
      BY <3>2 DEF InFlight, Data
    <3>4. AnnouncementAgrees(p)'
      <4>1. run # -1
        BY <1>2, <2>2 DEF AnnouncementAgrees
      <4>2. plan' = plan /\ clock' = clock /\ nextRun' = nextRun
        BY <1>1
      <4>. QED  BY <1>2, <3>1, <3>2, <3>3, <4>1, <4>2 DEF AnnouncementAgrees, At
    <3>5. OneOfEachRun'
      BY <1>2, <3>1, <3>2, <3>3, OneOfEachRunStill DEF AnnouncementsHold
    <3>6. UnderWay' = UnderWay
      BY <1>2, <3>1, <3>2, <3>3, UnderWayIs
    <3>. QED  BY <3>2, <3>4, <3>5, <3>6
  <2>. QED  BY <2>1, <2>2
<1>7. AnnouncementsAreTyped'
  BY <1>1, <1>2, <1>3, <1>4, <1>6 DEF AnnouncementsAreTyped
<1>8. (\A q \in Requests : AnnouncementAgrees(q))'
  BY <1>1, <1>2, <1>4, <1>6, OthersAgree DEF AnnouncementsHold
<1>9. ASSUME NEW e \in Meetings \ moved'  PROVE EventTold(e)'
  <2>. DEFINE mine == RunFor(plan, calendar[e].start)
  <2>1. e \in Meetings \ moved /\ EventTold(e)
    BY <1>1, <1>9 DEF AnnouncementsHold
  <2>2. /\ plan' = plan /\ calendar'[e] = calendar[e]
        /\ nextRun' = nextRun /\ disturbed \subseteq disturbed' /\ broken' = broken
    BY <1>1, <1>3, <1>4
  <2>3. CASE mine \in disturbed'
    BY <2>2, <2>3 DEF EventTold
  <2>4. CASE mine \notin disturbed'
    <3>1. announced'[e] = announced[e]
      BY <1>5, <2>1, <2>4
    <3>2. mine \in Nat => mine # run \/ run \notin lost \cup {-1}
      BY <1>4, <2>4
    <3>3. mine \in Nat => (mine \in UnderWay' <=> mine \in UnderWay)
      BY <1>6, <3>2
    <3>. QED  BY <1>2, <2>1, <2>2, <3>1, <3>3, EventToldStill
  <2>. QED  BY <2>3, <2>4
<1>. QED  BY <1>2, <1>3, <1>6, <1>7, <1>8, <1>9 DEF AnnouncementsHold

LEMMA RetryTells ==
  ASSUME AnnouncementsHold, NEW p \in Requests, Retry(p)
  PROVE  AnnouncementsHold'
<1>. DEFINE d == Data(p)
            run == d.run
            d2 == [run |-> run, now |-> clock, left |-> d.left, dryrun |-> FALSE]
<1>1. /\ At(p, "retry") /\ Go(p, "list", d2)
      /\ disturbed' = disturbed \cup
           IF Floor(clock) = run THEN {} ELSE run..clock \cup Reached(clock)
      /\ UNCHANGED <<plan, clock, calendar, nextRun, announced, moved>>
  BY DEF Retry
<1>2. /\ AnnouncementsAreTyped /\ Sent /\ plan \in Plans /\ clock \in Nat /\ nextRun \in Nat
      /\ AnnouncementAgrees(p) /\ InFlight(p) /\ area = "announcements"
  BY <1>1 DEF AnnouncementsHold, AnnouncementsAreTyped, InFlight, At
<1>3. UNCHANGED <<area, broken>>
  BY <1>1 DEF Go
<1>4. d2.run = run /\ d2.now = clock /\ d2.dryrun = FALSE
  OBVIOUS
<1>. HIDE DEF d2
<1>5. /\ Sent' /\ pc'[p] = "list" /\ req'[p].about = req[p].about
      /\ req'[p].data = d2 /\ Others(p)
  BY <1>1, <1>2, GoStep
<1>6. InFlight(p)' /\ Data(p)' = d2
  BY <1>5 DEF InFlight, Data
<1>7. run # -1 /\ run \in Nat /\ run <= clock
  BY <1>1, <1>2 DEF AnnouncementAgrees
<1>8. AnnouncementAgrees(p)'
  <2>1. Floor(clock) = run \/ (run \in disturbed' /\ ReachedAt(plan, clock) \subseteq disturbed')
    <3>1. run \in run..clock
      BY <1>2, <1>7
    <3>2. Reached(clock) = ReachedAt(plan, clock)
      BY OfThePlan
    <3>. QED  BY <1>1, <3>1, <3>2
  <2>2. plan' = plan /\ clock' = clock /\ nextRun' = nextRun
    BY <1>1
  <2>. QED  BY <1>2, <1>4, <1>5, <1>6, <1>7, <2>1, <2>2 DEF AnnouncementAgrees, At
<1>9. AnnouncementsAreTyped'
  BY <1>1, <1>2, <1>3, <1>5 DEF AnnouncementsAreTyped
<1>10. (\A q \in Requests : AnnouncementAgrees(q))'
  BY <1>1, <1>2, <1>5, <1>8, OthersAgree DEF AnnouncementsHold
<1>11. OneOfEachRun'
  BY <1>2, <1>4, <1>5, <1>6, OneOfEachRunStill DEF AnnouncementsHold
<1>12. UnderWay' = UnderWay
  BY <1>2, <1>4, <1>5, <1>6, UnderWayIs
<1>13. ASSUME NEW e \in Meetings \ moved'  PROVE EventTold(e)'
  <2>1. e \in Meetings /\ EventTold(e)
    BY <1>1, <1>13 DEF AnnouncementsHold
  <2>2. /\ plan' = plan /\ calendar'[e] = calendar[e] /\ announced'[e] = announced[e]
        /\ nextRun' = nextRun /\ disturbed \subseteq disturbed' /\ broken' = broken
    BY <1>1, <1>3
  <2>. QED  BY <1>2, <1>12, <2>1, <2>2, EventToldStill
<1>. QED  BY <1>2, <1>3, <1>9, <1>10, <1>11, <1>13 DEF AnnouncementsHold


(* An event whose runs are yet to come is on no list, before and after it is edited,
   and has not been announced. *)
LEMMA EditEventTells ==
  ASSUME AnnouncementsHold, NEW p \in Requests, EditEvent(p)
  PROVE  AnnouncementsHold'
<1>1. PICK changed \in Meetings, new \in Events :
        /\ calendar' = [calendar EXCEPT ![changed] = new]
        /\ LET runs == {RunOf(calendar[changed].start), RunOf(new.start)} IN
           moved' = moved \cup
             IF \E run \in runs : run <= clock \/ run \in disturbed THEN {changed} ELSE {}
        /\ Serve(p, {<<"event", changed>>})
  BY DEF EditEvent
<1>2. /\ area = "announcements" /\ pc[p] = "new"
      /\ UNCHANGED <<plan, clock, nextRun, announced, disturbed>>
  BY DEF EditEvent, Arrives, At
<1>3. /\ AnnouncementsAreTyped /\ Sent /\ plan \in Plans /\ clock \in Nat /\ nextRun \in Nat
      /\ calendar \in [Meetings -> Events]
  BY DEF AnnouncementsHold, AnnouncementsAreTyped
<1>4. Sent' /\ pc'[p] = "done" /\ Others(p) /\ UNCHANGED <<area, broken>>
  <2>. DEFINE about == {<<"event", changed>>}
  <2>1. Serve(p, about)
    BY <1>1
  <2>. HIDE DEF about
  <2>. QED  BY <1>3, <2>1, ServeStep
<1>5. /\ calendar' \in [Meetings -> Events] /\ moved \subseteq moved' /\ calendar'[changed] = new
      /\ \A e \in Meetings \ {changed} : calendar'[e] = calendar[e]
  BY <1>1, <1>3
<1>6. AnnouncementsAreTyped'
  BY <1>2, <1>3, <1>4, <1>5 DEF AnnouncementsAreTyped
<1>7. ~InFlight(p) /\ ~InFlight(p)'
  BY <1>2, <1>4 DEF InFlight
<1>8. OneOfEachRun'
  BY <1>4, <1>7, OneOfEachRunStill DEF AnnouncementsHold
<1>9. UnderWay' = UnderWay
  BY <1>4, <1>7, UnderWayIs
<1>10. ASSUME changed \notin moved'
       PROVE  \A event \in {calendar[changed], new} :
                /\ event \in Events
                /\ RunFor(plan, event.start) \in Int
                /\ RunFor(plan, event.start) > clock
                /\ RunFor(plan, event.start) \notin disturbed
  <2>. SUFFICES ASSUME NEW event \in {calendar[changed], new}
       PROVE  /\ event \in Events
              /\ RunFor(plan, event.start) \in Int
              /\ RunFor(plan, event.start) > clock
              /\ RunFor(plan, event.start) \notin disturbed
    OBVIOUS
  <2>1. event \in Events /\ RunFor(plan, event.start) \in Int
    BY <1>3, EventIs
  <2>2. RunOf(event.start) = RunFor(plan, event.start)
    BY OfThePlan
  <2>3. ~(RunOf(event.start) <= clock \/ RunOf(event.start) \in disturbed)
    BY <1>1, <1>10
  <2>. QED  BY <1>3, <2>1, <2>2, <2>3
<1>11. ASSUME NEW q \in Requests, InFlight(q), changed \notin moved',
              NEW event \in {calendar[changed], new}, At(q, "list") \/ At(q, "executeWebhook"),
              InWindow(plan, event, Data(q).now),
              Data(q).now \in Nat
       PROVE  /\ ~(Data(q).run # -1 /\ Floor(Data(q).now) = Data(q).run)
              /\ ~(ReachedAt(plan, Data(q).now) \subseteq disturbed)
  <2>1. /\ event \in Events /\ RunFor(plan, event.start) \in Int
        /\ RunFor(plan, event.start) > clock /\ RunFor(plan, event.start) \notin disturbed
    BY <1>10, <1>11
  <2>2. RunFor(plan, event.start) \in ReachedAt(plan, Data(q).now)
    BY <1>3, <1>11, <2>1, WindowsReach
  <2>3. ASSUME Data(q).run # -1, Floor(Data(q).now) = Data(q).run  PROVE FALSE
    <3>1. Data(q).run \in Nat /\ Divides(plan.period, Data(q).run) /\ Data(q).run <= clock
      BY <1>11, <2>3 DEF AnnouncementsHold, AnnouncementAgrees
    <3>2. RunFor(plan, event.start) = Data(q).run
      BY <1>3, <1>11, <2>1, <2>3, <3>1, WindowsFit
    <3>. QED  BY <1>3, <2>1, <3>1, <3>2
  <2>. QED  BY <2>1, <2>2, <2>3
<1>12. ASSUME NEW q \in Requests \ {p}  PROVE AnnouncementAgrees(q)'
  <2>1. /\ pc'[q] = pc[q] /\ req'[q] = req[q] /\ plan' = plan /\ clock' = clock
        /\ nextRun' = nextRun /\ disturbed' = disturbed
    BY <1>2, <1>4 DEF Others
  <2>2. AnnouncementAgrees(q)
    BY DEF AnnouncementsHold
  <2>3. ASSUME At(q, "executeWebhook"), NEW e \in Meetings \ moved'
        PROVE  /\ e \in Data(q).events => InWindow(plan, calendar'[e], Data(q).now)
               /\ Data(q).run # -1 /\ Floor(Data(q).now) = Data(q).run
                    /\ InWindow(plan, calendar'[e], Data(q).now) => e \in Data(q).events
    <3>1. /\ InFlight(q) /\ e \in Meetings \ moved /\ Data(q).now \in Nat
          /\ e \in Data(q).events => InWindow(plan, calendar[e], Data(q).now)
          /\ Data(q).run # -1 /\ Floor(Data(q).now) = Data(q).run
               /\ InWindow(plan, calendar[e], Data(q).now) => e \in Data(q).events
      BY <1>5, <2>2, <2>3 DEF AnnouncementAgrees, InFlight, At
    <3>2. CASE e # changed
      BY <1>5, <3>1, <3>2
    <3>3. CASE e = changed
      <4>1. \/ Data(q).run # -1 /\ Floor(Data(q).now) = Data(q).run
            \/ ReachedAt(plan, Data(q).now) \subseteq disturbed
        BY <2>2, <2>3 DEF AnnouncementAgrees
      <4>2. e \notin Data(q).events
        BY <1>11, <2>3, <3>1, <3>3, <4>1
      <4>3. ~(Data(q).run # -1 /\ Floor(Data(q).now) = Data(q).run
                /\ InWindow(plan, calendar'[e], Data(q).now))
        BY <1>5, <1>11, <2>3, <3>1, <3>3
      <4>. QED  BY <4>2, <4>3
    <3>. QED  BY <3>2, <3>3
  <2>. QED  BY <2>1, <2>2, <2>3 DEF AnnouncementAgrees, InFlight, At, Data
<1>13. AnnouncementAgrees(p)'
  BY <1>4 DEF AnnouncementAgrees, InFlight, At
<1>14. ASSUME NEW e \in Meetings \ moved'  PROVE EventTold(e)'
  <2>1. e \in Meetings \ moved /\ EventTold(e)
    BY <1>5, <1>14 DEF AnnouncementsHold
  <2>2. /\ plan' = plan /\ announced' = announced /\ nextRun' = nextRun
        /\ disturbed' = disturbed /\ broken' = broken
    BY <1>2, <1>4
  <2>3. CASE e # changed
    BY <1>3, <1>5, <1>9, <2>1, <2>2, <2>3, EventToldStill
  <2>4. CASE e = changed
    <3>1. \A event \in {calendar[e], new} :
            /\ RunFor(plan, event.start) \in Int /\ RunFor(plan, event.start) > clock
            /\ RunFor(plan, event.start) \notin disturbed
            /\ Divides(plan.period, RunFor(plan, event.start))
      BY <1>3, <1>10, <1>14, <2>4, EventIs
    <3>2. ASSUME NEW event \in {calendar[e], new}
          PROVE  /\ <<"run", RunFor(plan, event.start)>> \notin broken
                 /\ ~(RunFor(plan, event.start) < nextRun)
      <4>1. PICK run \in Int : run = RunFor(plan, event.start)
        BY <3>1
      <4>2. run > clock /\ Divides(plan.period, run)
        BY <3>1, <4>1
      <4>3. <<"run", run>> \notin broken
        BY <1>3, <4>2 DEF AnnouncementsAreTyped
      <4>4. ASSUME run < nextRun  PROVE FALSE
        <5>1. PICK m \in Nat \ {0} : m = plan.period
          BY <1>3, PlanIs
        <5>2. Divides(m, nextRun) /\ nextRun <= clock + m
          BY <1>3, <5>1 DEF AnnouncementsAreTyped
        <5>3. run + m <= nextRun
          BY <1>3, <4>2, <4>4, <5>1, <5>2, MultiplesApart
        <5>. QED  BY <1>3, <4>2, <5>2, <5>3
      <4>. QED  BY <4>1, <4>3, <4>4
    <3>3. announced[e] = 0
      BY <2>1, <3>1, <3>2 DEF EventTold
    <3>4. calendar'[e] = new
      BY <1>5, <2>4
    <3>. QED  BY <2>2, <3>2, <3>3, <3>4 DEF EventTold
  <2>. QED  BY <2>3, <2>4
<1>15. (\A q \in Requests : AnnouncementAgrees(q))'
  BY <1>12, <1>13
<1>. QED  BY <1>2, <1>4, <1>6, <1>8, <1>14, <1>15 DEF AnnouncementsHold

LEMMA DieTells ==
  ASSUME AnnouncementsHold, NEW p \in Requests, Die(p), UNCHANGED announcementVars
  PROVE  AnnouncementsHold'
<1>. DEFINE run == Data(p).run
<1>1. /\ plan' = plan /\ clock' = clock /\ calendar' = calendar /\ nextRun' = nextRun
      /\ announced' = announced /\ moved' = moved /\ disturbed' = disturbed
  BY DEF announcementVars
<1>2. /\ AnnouncementsAreTyped /\ Sent /\ clock \in Nat /\ nextRun \in Nat
      /\ AnnouncementAgrees(p) /\ InFlight(p) /\ area' = area
  BY DEF AnnouncementsHold, AnnouncementsAreTyped, Die
<1>3. Sent' /\ pc'[p] = "done" /\ Others(p) /\ broken' = broken \cup req[p].about
  BY <1>2, DieStep
<1>4. \/ run = -1 /\ broken' = broken
      \/ run \in Nat /\ run <= clock /\ broken' = broken \cup {<<"run", run>>}
  BY <1>2, <1>3 DEF AnnouncementAgrees
<1>5. AnnouncementsAreTyped'
  BY <1>1, <1>2, <1>3, <1>4 DEF AnnouncementsAreTyped
<1>6. ~InFlight(p)' /\ AnnouncementAgrees(p)'
  BY <1>3 DEF InFlight, AnnouncementAgrees, At
<1>7. (\A q \in Requests : AnnouncementAgrees(q))'
  BY <1>1, <1>2, <1>3, <1>6, OthersAgree DEF AnnouncementsHold
<1>8. OneOfEachRun'
  BY <1>3, <1>6, OneOfEachRunStill DEF AnnouncementsHold
<1>9. \A r : r # run => (r \in UnderWay' <=> r \in UnderWay)
  BY <1>2, <1>3, <1>6, UnderWayIs
<1>10. ASSUME NEW e \in Meetings \ moved'  PROVE EventTold(e)'
  <2>. DEFINE mine == RunFor(plan, calendar[e].start)
  <2>1. e \in Meetings /\ EventTold(e)
    BY <1>1, <1>10 DEF AnnouncementsHold
  <2>2. mine \in Nat /\ <<"run", mine>> \notin broken' => mine # run
    BY <1>4
  <2>3. mine \in Nat /\ <<"run", mine>> \notin broken' => (mine \in UnderWay' <=> mine \in UnderWay)
    BY <1>9, <2>2
  <2>4. /\ calendar'[e] = calendar[e] /\ announced'[e] = announced[e]
        /\ disturbed \subseteq disturbed' /\ broken \subseteq broken'
    BY <1>1, <1>3
  <2>. QED  BY <1>1, <1>2, <2>1, <2>3, <2>4, EventToldStill
<1>. QED  BY <1>2, <1>5, <1>7, <1>8, <1>10 DEF AnnouncementsHold

LEMMA PassTickTells ==
  ASSUME AnnouncementsHold, PassTick
  PROVE  AnnouncementsHold'
<1>1. /\ plan' = plan /\ calendar' = calendar /\ nextRun' = nextRun /\ clock' = clock + 1
      /\ announced' = announced /\ moved' = moved /\ disturbed' = disturbed
      /\ area' = area /\ pc' = pc /\ req' = req /\ broken' = broken
  BY DEF PassTick, serverVars
<1>2. /\ AnnouncementsAreTyped /\ Sent /\ clock \in Nat /\ nextRun \in Nat /\ plan.period \in Nat
  BY PlanIs DEF AnnouncementsHold, AnnouncementsAreTyped
<1>3. AnnouncementsAreTyped'
  BY <1>1, <1>2 DEF AnnouncementsAreTyped, Sent
<1>4. (\A q \in Requests : AnnouncementAgrees(q))'
  <2>. SUFFICES ASSUME NEW q \in Requests  PROVE AnnouncementAgrees(q)'
    OBVIOUS
  <2>1. AnnouncementAgrees(q)
    BY DEF AnnouncementsHold
  <2>. QED  BY <1>1, <1>2, <2>1 DEF AnnouncementAgrees, InFlight, At, Data
<1>5. UnderWay' = UnderWay /\ OneOfEachRun'
  BY <1>1 DEF UnderWay, OneOfEachRun, InFlight, Data, AnnouncementsHold
<1>6. ASSUME NEW e \in Meetings \ moved'  PROVE EventTold(e)'
  BY <1>1, <1>2, <1>5, <1>6, EventToldStill DEF AnnouncementsHold
<1>. QED  BY <1>1, <1>3, <1>4, <1>5, <1>6 DEF AnnouncementsHold

LEMMA AnnouncementsInvKept == AnnouncementsInv /\ [Next]_vars => AnnouncementsInv'
<1>. SUFFICES ASSUME AnnouncementsInv, [Next]_vars  PROVE AnnouncementsInv'
  OBVIOUS
<1>1. AnnouncementsHold <=> area = "announcements" /\ AnnouncementsInv
  BY DEF AnnouncementsHold, AnnouncementsInv
<1>2. AnnouncementsHold' => AnnouncementsInv'
  BY DEF AnnouncementsHold, AnnouncementsInv
<1>3. ASSUME area = "announcements", NEW p \in Requests, AnnouncementsNext(p)
      PROVE  AnnouncementsInv'
  BY <1>1, <1>2, <1>3, StartJobTells, TriggerTells, ListEventsTells, ExecuteWebhookTells,
     AttemptFailsTells, RetryTells, EditEventTells DEF AnnouncementsNext
<1>4. ASSUME NEW p \in Requests, Die(p), UNCHANGED announcementVars
      PROVE  AnnouncementsInv'
  <2>1. area' = area
    BY <1>4 DEF Die
  <2>. QED  BY <1>1, <1>2, <1>4, <2>1, DieTells DEF AnnouncementsInv
<1>5. CASE PassTick
  BY <1>1, <1>2, <1>5, PassTickTells DEF PassTick
<1>6. CASE area # "announcements" /\ UNCHANGED <<area, announcementVars>>
  BY <1>6 DEF AnnouncementsInv
<1>7. CASE UNCHANGED <<serverVars, announcementVars>>
  BY <1>7 DEF AnnouncementsInv, AnnouncementsAreTyped, AnnouncementAgrees, OneOfEachRun,
    EventTold, UnderWay, Sent, InFlight, At, Data, serverVars, announcementVars
<1>. QED  BY <1>3, <1>4, <1>5, <1>6, <1>7, AnnouncementSteps

(* Every event is announced once, by the run whose window it starts in
   (discord-events-notifier.service.ts), for any number of requests, at any time, with
   any plans whose window is as long as their period. *)
THEOREM EventsAreAlwaysAnnouncedOnce == Spec => []EventsAreAnnouncedOnce
<1>1. AnnouncementsInv => EventsAreAnnouncedOnce
  <2>. SUFFICES ASSUME AnnouncementsInv, area = "announcements", NEW e \in Meetings \ moved
       PROVE  LET event == calendar[e]
                  run == RunOf(event.start)
                  due == event.kind = "timed" /\ event.start >= plan.ahead
                           /\ event.start < To(run) IN
              run \notin disturbed /\ <<"run", run>> \notin broken =>
                /\ ~due \/ run >= nextRun => announced[e] = 0
                /\ due /\ run < nextRun
                     /\ (\A p \in Requests : InFlight(p) => <<"run", run>> \notin req[p].about)
                   => announced[e] = 1
    BY DEF EventsAreAnnouncedOnce
  <2>. DEFINE run == RunFor(plan, calendar[e].start)
              due == ToAnnounce(plan, calendar[e])
  <2>1. EventTold(e) /\ calendar[e] \in Events /\ plan \in Plans /\ nextRun \in Nat
    BY DEF AnnouncementsInv, AnnouncementsAreTyped
  <2>2. /\ RunOf(calendar[e].start) = run
        /\ due <=> calendar[e].kind = "timed" /\ calendar[e].start >= plan.ahead
                     /\ calendar[e].start < To(run)
    BY OfThePlan DEF ToAnnounce
  <2>3. run \in Int /\ (due => run \in Nat)
    BY <2>1, EventIs
  <2>4. ASSUME \A p \in Requests : InFlight(p) => <<"run", run>> \notin req[p].about, run \in Nat
        PROVE  run \notin UnderWay
    <3>1. ASSUME NEW p \in Requests, InFlight(p), Data(p).run = run  PROVE FALSE
      <4>1. AnnouncementAgrees(p) /\ Data(p).run # -1
        BY <2>4, <3>1 DEF AnnouncementsInv
      <4>. QED  BY <2>4, <3>1, <4>1 DEF AnnouncementAgrees
    <3>. QED  BY <3>1 DEF UnderWay
  <2>5. run \notin disturbed /\ <<"run", run>> \notin broken =>
          announced[e] = IF due /\ run < nextRun /\ run \notin UnderWay THEN 1 ELSE 0
    BY <2>1 DEF EventTold
  <2>. HIDE DEF run, due
  <2>. QED  BY <2>1, <2>2, <2>3, <2>4, <2>5
<1>. QED  BY <1>1, AnnouncementsInvAtFirst, AnnouncementsInvKept, PTL DEF Spec
===============================================================================
