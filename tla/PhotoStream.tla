----------------------------- MODULE PhotoStream ------------------------------
(***************************************************************************)
(* The copies of one gallery photo that are shown (src/photo/stream). A     *)
(* copy has a size and a format; that of the size's own format is stored.   *)
(* A copy that is not stored is made of a larger one that is, and, when the *)
(* format is its own, stored while the answer is on its way; the last       *)
(* resort is the original on the NAS.                                      *)
(*                                                                         *)
(* Of a stored copy the model keeps what it was made of: the smallest size  *)
(* on the way, and whether the watermark was laid on.                       *)
(***************************************************************************)
EXTENDS Requests

CONSTANTS
  Sizes,         \* of PhotoSize, in pixels
  Thumbnail,
  Preview,
  NoSize,        \* no further fallback
  UploadEnabled  \* PHOTO_STREAM_UPLOAD

ASSUME PhotoStreamAssumption ==
  /\ Sizes \subseteq Nat
  /\ {Thumbnail, Preview} \subseteq Sizes
  /\ NoSize \notin Sizes
  /\ UploadEnabled \in BOOLEAN

VARIABLES
  copies,   \* stored copies: size -> what it was made of
  original  \* the file in the database is processed, and can be read

photoStreamVars == <<copies, original>>

Made == [least : Sizes, marked : BOOLEAN]
FromOriginal(size) == [least |-> size, marked |-> TRUE]
PhotoPath == [size : Sizes, isRequestASource : BOOLEAN]

PhotoStreamAwaits == {"tryStream", "tryProcess", "tryOriginal", "saveBuffer"}

PhotoStreamTypeOK ==
  /\ area = "photoStream" => pc \in StepsAmong(PhotoStreamAwaits)
  /\ DOMAIN copies \subseteq Sizes
  /\ \A size \in DOMAIN copies : copies[size] \in Made
  /\ original \in BOOLEAN

InitPhotoStream ==
  /\ copies = <<>>
  /\ original \in IF area = "photoStream" THEN BOOLEAN ELSE {FALSE}

(* nextFallback: a copy in the format that is not its size's own is made of that
   size, any other of a larger one. *)
NextFallback(size, isRequestASource) ==
  LET least == IF isRequestASource THEN size + 1 ELSE size IN
  IF least <= Thumbnail THEN Thumbnail
  ELSE IF least <= Preview THEN Preview
  ELSE NoSize

-------------------------------------------------------------------------------
(* GET photos/:size/:uuid.:ext and photos/download: getPhotoStream *)

FallBack(p, target, size, isSource) ==
  LET next == NextFallback(size, isSource) IN
  IF next = NoSize THEN Go(p, "tryOriginal", [target |-> target])
  ELSE Go(p, "tryProcess", [target |-> target, current |-> next])

GetPhoto(p) ==
  /\ Arrives(p, "photoStream")
  /\ \E target \in PhotoPath :
       Accept(p, {<<"photo">>}, "tryStream", [target |-> target])
  /\ UNCHANGED photoStreamVars

TryStream(p) ==
  /\ At(p, "tryStream")
  /\ LET target == Data(p).target IN
     \/ target.isRequestASource /\ target.size \in DOMAIN copies /\ Finish(p)
     \/ FallBack(p, target, target.size, target.isRequestASource)
  /\ UNCHANGED photoStreamVars

(* The answer is given, and the copy is stored if it may. *)
Answer(p, target, made) ==
  IF target.isRequestASource /\ UploadEnabled
    THEN Go(p, "saveBuffer", [size |-> target.size, made |-> made])
    ELSE Finish(p)

Smaller(a, b) == IF a < b THEN a ELSE b

(* tryProcess: the stored copy of a fallback, or else, or after any error, the
   next one. *)
TryProcess(p) ==
  /\ At(p, "tryProcess")
  /\ LET d == Data(p) IN
     \/ /\ d.current \in DOMAIN copies
        /\ Answer(p, d.target, [copies[d.current] EXCEPT !.least = Smaller(@, d.target.size)])
     \/ FallBack(p, d.target, d.current, TRUE)
  /\ UNCHANGED photoStreamVars

(* tryOriginal: with the watermark of the upload task; or 404 *)
\* mutant: the watermark is left out
TryUnmarked(p) ==
  /\ At(p, "tryOriginal")
  /\ LET target == Data(p).target IN
     \/ original /\ Answer(p, target, [least |-> target.size, marked |-> FALSE])
     \/ Finish(p)
  /\ UNCHANGED photoStreamVars
TryOriginal(p) ==
  /\ At(p, "tryOriginal")
  /\ LET target == Data(p).target IN
     \/ original /\ Answer(p, target, FromOriginal(target.size))
     \/ Finish(p)
  /\ UNCHANGED photoStreamVars

(* saveProcssedBuffer, which nobody waits for *)
SaveBuffer(p) ==
  /\ At(p, "saveBuffer")
  /\ copies' = Put(copies, Data(p).size, Data(p).made)
  /\ Finish(p)
  /\ UNCHANGED original

-------------------------------------------------------------------------------
(* processPhoto, on a message of the uploaders: from the original *)
ProcessCopy(p) ==
  /\ Arrives(p, "photoStream")
  /\ original
  /\ \E size \in {Thumbnail, Preview} :
       Accept(p, {<<"message">>}, "saveBuffer",
              [size |-> size, made |-> FromOriginal(size)])
  /\ UNCHANGED photoStreamVars

(* The file is processed, or deleted. *)
ChangeOriginal(p) ==
  /\ Arrives(p, "photoStream")
  /\ original' = ~original
  /\ Serve(p, {<<"original">>})
  /\ UNCHANGED copies

PhotoStreamNext(p) ==
  \/ GetPhoto(p) \/ TryStream(p) \/ TryProcess(p) \/ TryOriginal(p) \/ SaveBuffer(p)
  \/ ProcessCopy(p) \/ ChangeOriginal(p)

-------------------------------------------------------------------------------
(* However requests fill the storage with copies of copies while the pipeline writes
   its own: no stored copy was enlarged from a smaller one, and each carries the
   watermark. *)
CopiesAreGood ==
  \A size \in DOMAIN copies : copies[size].least >= size /\ copies[size].marked
===============================================================================
