---------------------------- MODULE MCApplyQueue ----------------------------
(***************************************************************************)
(* ApplyQueue on three pages: enough for a batch in the hands of one        *)
(* thread, one put back and one that arrives behind them.                   *)
(***************************************************************************)
EXTENDS ApplyQueue
=============================================================================
