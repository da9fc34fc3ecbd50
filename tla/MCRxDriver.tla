------------------------------ MODULE MCRxDriver -----------------------------
(* An instance of RxDriver for TLC: two drives and one that is missing, a  *)
(* writable and a protected diskette and a file of the wrong size, four    *)
(* sectors of two bytes, addresses one below and above each limit.         *)
EXTENDS RxDriver

MCFile == {"work", "master", "short"}
MCFits == {"work", "master"}
MCReadOnly == {"master", "short"}
MCWanted ==
  {<<0, 1, 2>>, <<0, 1, 0>>, <<0, 2, 1>>, <<1, 0, 3>>, <<2, 0, 1>>}
MCRack == [d \in {0, 1} |-> IF d = 0 THEN {"work", "short"} ELSE {"master"}]
MCPayload == {[b \in 0 .. 1 |-> b]}
=============================================================================
