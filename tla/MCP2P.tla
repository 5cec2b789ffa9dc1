------------------------------- MODULE MCP2P --------------------------------
(***************************************************************************)
(* Instances of P2PStore for TLC: the layout of the buffers.               *)
(***************************************************************************)
EXTENDS P2PStore

OneBuffer == <<1>>
TwoBuffers == <<1, 1>>
TwoShards == <<2>>
=============================================================================
