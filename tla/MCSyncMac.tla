------------------------------ MODULE MCSyncMac ------------------------------
(***************************************************************************)
(* Model values for checking SyncMac: two entries a payload may hold, a     *)
(* watchlist (merged three ways) and an entity where the last writer wins.  *)
(***************************************************************************)
EXTENDS SyncMac

CONSTANTS x, y, watchlist, template
=============================================================================
