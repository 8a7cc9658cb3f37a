----------------------------- MODULE PhotoAlbum ----------------------------
(***************************************************************************)
(* What photo-provider promises its callers.  Photos arrive at the end of   *)
(* an album of bounded size; a bookmark is at the photo delivered last.     *)
(* GetPhoto and GetPrevPhoto move the bookmark by exactly one photo and     *)
(* show the photo it gets to, unless no copy of it can be made for the      *)
(* caller.  A call that has no photo to show leaves the bookmark alone,     *)
(* also one that waited for a photo and gave up as it came.  The oldest     *)
(* photo leaves only when the album is full, and never the one at the       *)
(* bookmark.  A change of configuration empties the album.                  *)
(***************************************************************************)
EXTENDS Integers, Sequences

CONSTANTS
  Capacity,   \* photos the album may hold
  Photos,     \* the photos that may arrive
  Nothing,    \* shown when a call has no photo to show
  Uncopied    \* shown for a photo that could not be copied for the caller

VARIABLES
  album,      \* the photos held, oldest first
  bookmark,   \* index in album of the photo delivered last, 0 for none
  shown       \* what the last call delivered

vars == <<album, bookmark, shown>>

Init ==
  /\ album = <<>>
  /\ bookmark = 0
  /\ shown = Nothing

Arrive(photo) ==
  /\ Len(album) < Capacity
  /\ album' = Append(album, photo)
  /\ UNCHANGED <<bookmark, shown>>

ArriveForOldest(photo) ==
  /\ Len(album) = Capacity
  /\ bookmark > 1
  /\ album' = Append(Tail(album), photo)
  /\ bookmark' = bookmark - 1
  /\ UNCHANGED shown

GetPhoto ==
  /\ bookmark < Len(album)
  /\ bookmark' = bookmark + 1
  /\ shown' \in {album[bookmark'], Uncopied}
  /\ UNCHANGED album

GetPrevPhoto ==
  /\ bookmark > 1
  /\ bookmark' = bookmark - 1
  /\ shown' \in {album[bookmark'], Uncopied}
  /\ UNCHANGED album

ShowNothing ==
  /\ shown' = Nothing
  /\ UNCHANGED <<album, bookmark>>

Clear ==
  /\ album' = <<>>
  /\ bookmark' = 0
  /\ UNCHANGED shown

Next ==
  \/ \E photo \in Photos : Arrive(photo) \/ ArriveForOldest(photo)
  \/ GetPhoto
  \/ GetPrevPhoto
  \/ ShowNothing
  \/ Clear

Spec == Init /\ [][Next]_vars
=============================================================================
