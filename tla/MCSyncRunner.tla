---------------------------- MODULE MCSyncRunner ----------------------------
(* SyncRunner for TLC: three callers inside loops, enough for a second     *)
(* loop to replace the first and a third caller to find either of them,    *)
(* and one outside.                                                        *)
EXTENDS SyncRunner
=============================================================================
