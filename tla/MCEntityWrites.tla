---------------------------- MODULE MCEntityWrites ----------------------------
(* Small instances of EntityWrites for TLC. *)
EXTENDS EntityWrites

MCSymmetry == Permutations(Calls)

(* A dim light and the middle, where rounding may go either way; halves, *)
(* the limits of INT and what is beyond them.                            *)
MCBrightness == {2, 128}
MCLevels == {-327680, -15, 25, 327670, 655350}
MCWide == {3000}

(* The assumptions need integers here, a cfg has naturals only. *)
Below == -50
=============================================================================
