------------------------------- MODULE MCArena -------------------------------
(* The first two rows of dlog.c's _dynstr_buckets, {32, 512} and        *)
(* {128, 512}, with three and two slots (three, so that pool 1 starts     *)
(* with a run of two); three strings; lengths that land in either pool,   *)
(* fill a block exactly (24 = 32 - 8), grow in place, move up a pool and  *)
(* move to the heap.                                                      *)
EXTENDS Arena

CONSTANTS s1, s2, s3

MCSlotSizes == <<32, 128>>
MCSlotCounts == <<3, 2>>
MCStrs == {s1, s2, s3}
MCLens == {16, 24, 100, 150}
==============================================================================
