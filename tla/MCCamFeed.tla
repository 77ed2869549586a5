----------------------------- MODULE MCCamFeed -----------------------------
(* CamFeed on two connections: the interesting cases need a second client  *)
(* waiting while the first is served, and a frame more than the ring has   *)
(* buffers so that the index wraps while an old copy may be under way.     *)
EXTENDS CamFeed, TLC

CONSTANTS c1, c2, p1, p2

MCConns == {c1, c2}
MCParts == {p1, p2}
=============================================================================
