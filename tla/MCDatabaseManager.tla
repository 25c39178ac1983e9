------------------------- MODULE MCDatabaseManager -------------------------
(***************************************************************************)
(* DatabaseManager for TLC. Three instances are the fewest for which the   *)
(* list of healthy ones can lose an element and still have to be balanced. *)
(***************************************************************************)
EXTENDS DatabaseManager

CONSTANTS a1, a2, a3

ThreeAddresses == {a1, a2, a3}
AllThree == <<a1, a2, a3>>
OneAddress == {a1}
OnlyOne == <<a1>>
=============================================================================
