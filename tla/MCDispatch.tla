----------------------------- MODULE MCDispatch -----------------------------
(* Dispatch for TLC: three rules and two permits, so that one task waits,  *)
(* and model lists of up to four entries.                                  *)
EXTENDS Dispatch

CONSTANTS r1, r2, r3
MCOrder == <<r1, r2, r3>>
=============================================================================
