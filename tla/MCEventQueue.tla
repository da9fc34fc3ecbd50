---------------------------- MODULE MCEventQueue -----------------------------
(* Instances of EventQueue for TLC: a clock with its update cycle, a poll, *)
(* an operation that may be retried and one that may not.                  *)
EXTENDS EventQueue

MCEvent == {"CLK", "CLK_UF", "KB_POLL", "KB", "RD"}
MCPoller == {"CLK", "KB_POLL"}
MCResetOrder == <<"CLK", "KB_POLL">>
MCRetry == {"KB"}
MCSpawn == [e \in MCPoller |-> IF e = "CLK" THEN {"CLK_UF"} ELSE {}]
MCInterval == [e \in MCEvent |->
  CASE e = "CLK" -> 4 [] e = "CLK_UF" -> 2 [] e = "KB_POLL" -> 3 [] e = "KB" -> 1 [] e = "RD" -> 2]
=============================================================================
