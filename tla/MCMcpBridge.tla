---------------------------- MODULE MCMcpBridge ----------------------------
(***************************************************************************)
(* McpBridge with a call, its retry, and a call under the same request_id   *)
(* for another order.                                                       *)
(***************************************************************************)
EXTENDS McpBridge

CONSTANTS a, buy, sell, k

MCCall == {[client |-> a, key |-> k, order |-> buy, n |-> 1],
           [client |-> a, key |-> k, order |-> buy, n |-> 2],
           [client |-> a, key |-> k, order |-> sell, n |-> 1]}
=============================================================================
