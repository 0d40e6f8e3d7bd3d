---------------------------- MODULE PhotoLifecycle ----------------------------
(***************************************************************************)
(* What the gallery tells photographers and moderators about a photo: the  *)
(* states they see it in and the ways it gets from one to the next while   *)
(* nobody reprocesses it. GalleryPhoto implements this.                    *)
(***************************************************************************)
CONSTANTS Photos

VARIABLES state

States == {"absent", "created", "accepted", "processed", "approved",
           "rejected", "failed"}

(* A photo is approved and processed in either order, but only after it was
   accepted; a rejected photo is never approved without being reset first;
   failure is for ever. A newer copy can get a photo rejected at any time, even
   before its own validation. *)
Edges ==
  {<<"absent", "created">>,
   <<"created", "accepted">>, <<"created", "rejected">>,
   <<"accepted", "processed">>, <<"accepted", "approved">>,
   <<"accepted", "rejected">>,
   <<"processed", "approved">>, <<"processed", "rejected">>,
   <<"approved", "accepted">>, <<"approved", "processed">>,
   <<"approved", "rejected">>,
   <<"rejected", "created">>, <<"rejected", "accepted">>,
   <<"rejected", "processed">>}
  \cup ((States \ {"absent"}) \X {"failed"})

Init == state = [p \in Photos |-> "absent"]

Move ==
  /\ state' \in [Photos -> States]
  /\ \A p \in Photos : state'[p] # state[p] => <<state[p], state'[p]>> \in Edges

Spec == Init /\ [][Move]_state
===============================================================================
