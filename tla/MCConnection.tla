---------------------------- MODULE MCConnection ----------------------------
(* Instances of Connection: two or three messages, and every packet a client sends   *)
(* but one of an unknown kind.                                              *)
EXTENDS Connection

CONSTANTS m1, m2, m3, null

MCMsgs == {m1, m2, m3}
MCTwoMsgs == {m1, m2}
MCPackets == {"badProtocol", "request", "enterGame", "game"}
MCAllPackets == PacketKind
=============================================================================
