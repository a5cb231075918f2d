---------------------------- MODULE MCOptionsFlow ----------------------------
(* Small instances of OptionsFlow for TLC. *)
EXTENDS OptionsFlow, TLC

CONSTANTS Hall, hall, Kitchen, hall_id, kitchen_id

(* Two spellings of one name and another name. *)
MCFolded == Hall :> hall @@ hall :> hall @@ Kitchen :> Kitchen
MCSlug == Hall :> hall_id @@ hall :> hall_id @@ Kitchen :> kitchen_id

(* Two names only. *)
MCFoldedTwo == Hall :> Hall @@ Kitchen :> Kitchen
MCSlugTwo == Hall :> hall_id @@ Kitchen :> kitchen_id

(* The flows differ in nothing but their names. *)
Symmetry == Permutations(Flows)
=============================================================================
