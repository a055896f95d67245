---------------------------- MODULE MCFecStream ----------------------------
(***************************************************************************)
(* The FEC stream for TLC.                                                 *)
(***************************************************************************)
EXTENDS FecStream

MCGeometries == {Off, [k |-> 2, m |-> 1], [k |-> 3, m |-> 1]}
MCGroupIds == 0..7
MCOrigins == 0..(MaxPackets - 1)

============================================================================
