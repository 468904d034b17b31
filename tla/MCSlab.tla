------------------------------- MODULE MCSlab -------------------------------
(* Small slabs: nine objects need two header bytes, which do not fill a      *)
(* whole number of three-byte objects, so every rounding step happens.       *)
EXTENDS Slab
=============================================================================
