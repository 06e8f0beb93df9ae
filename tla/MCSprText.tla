----------------------------- MODULE MCSprText ------------------------------
(***************************************************************************)
(* Characters at the edges of the ranges the functions tell apart.         *)
(***************************************************************************)
EXTENDS SprText

MCChars      == {-1, 47, 65, 97}
MCDigits     == {47, 48, 49, 50, 55, 56, 57, 58}
MCBytes      == {65, 128, 191, 193, 194, 224, 237, 240, 244, 248}
MCCodePoints == {1, 127, 128, 2047, 2048, 65535, 65536, 1114111}
MCErrs       == Range(Codes) \cup {1, DOMAIN_BASE - 1, DOMAIN_BASE}
MCMessages   == {<<>>, <<65>>, <<65, 46, 13, 10>>, <<65, 46, 66, 46>>, <<65, 66>>}
=============================================================================
