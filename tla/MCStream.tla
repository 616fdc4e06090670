------------------------------ MODULE MCStream ------------------------------
(* Stream on small instances: k1 and k2 share a single-flag channel, k3     *)
(* asks for all flags.  j1 and j2 differ in the flag, j3 has the flag of j2 *)
(* and differs elsewhere, j0 has no flags.                                  *)
EXTENDS Stream

CONSTANTS k1, k2, k3, flag, all, j0, j1, j2, j3, on, off

MCTopicOf == [k \in Conns |-> IF k = k3 THEN all ELSE flag]
MCFlagOf == [c \in Configs |-> CASE c = j1 -> on
                                 [] c \in {j2, j3} -> off
                                 [] OTHER -> Missing]
MCEmptyConfigs == Configs \cap {NoConfig, j0}
=============================================================================
