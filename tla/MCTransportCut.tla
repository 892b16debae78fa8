--------------------------- MODULE MCTransportCut ---------------------------
(***************************************************************************)
(* The instance of TransportCut for TLC.                                   *)
(***************************************************************************)
EXTENDS TransportCut

Requests == {Op, Replay}
=============================================================================
