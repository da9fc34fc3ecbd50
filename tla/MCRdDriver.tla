----------------------------- MODULE MCRdDriver ------------------------------
(* An instance of RdDriver for TLC: sectors of two words, eight sectors,   *)
(* and addresses one past each end of the disk.                            *)
EXTENDS RdDriver

MCByte == {0, 1}
MCRegister == {0, 1, 2}
MCPayload == {[b \in 0 .. 3 |-> IF b \in {0, 3} THEN 1 ELSE 0]}
=============================================================================
