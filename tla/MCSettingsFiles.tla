--------------------------- MODULE MCSettingsFiles ---------------------------
(* Small instances of SettingsFiles for TLC. *)
EXTENDS SettingsFiles, TLC

(* Entries and versions are interchangeable. *)
Symmetry == Permutations(Entries) \union Permutations(Versions)
=============================================================================
