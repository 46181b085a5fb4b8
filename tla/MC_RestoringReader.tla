------------------------- MODULE MC_RestoringReader -------------------------
(***************************************************************************)
(* A 41-byte upstream stream with two placeholders, one restored to a     *)
(* shorter (3 bytes) and one to a longer (20 bytes) original, read        *)
(* through a 20-byte buffer with the code's holdBack of 20: src.Read may  *)
(* return up to 40 bytes, so chunks are short (buffered and passed on),   *)
(* long (restored, tail held back) or final.  A 40-byte chunk that is not *)
(* the last one restores its first 20 bytes, which hold placeholder 2, to *)
(* 24 bytes: 4 bytes overflow p while 20 bytes are held back, the case    *)
(* where the overflow must go in front of the held tail.  The last byte   *)
(* keeps such a chunk from being the final one.                           *)
(***************************************************************************)
EXTENDS RestoringReader

MCStream ==
  <<"a">> \o PlaceholderBytes(2) \o <<"_">> \o PlaceholderBytes(1)
    \o <<"b", "c", "d", "e", "f", "g", "h">>

MCFrom == 1 :> <<"k", "e", "y">> @@ 2 :> [i \in 1..20 |-> "x"]
=============================================================================
