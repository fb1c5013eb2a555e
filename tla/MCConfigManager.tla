---- MODULE MCConfigManager ----
(* Instances of ConfigManager: three panel configs, one out-of-band config. *)
EXTENDS ConfigManager, TLC

Perms == Permutations(Configs)
AllFaults == FaultKinds
OrderlyFaults == {"write", "powercut", "edit"}
====
