-------------------------- MODULE MCModuleAddressing --------------------------
(* Two modules of different priority, on the bus or not, recorded or new, at  *)
(* any of the first three addresses, and a third that is remembered and absent. *)
EXTENDS ModuleAddressing
CONSTANTS pro, fan, gone

MCPriority == [m \in Modules |-> IF m = pro THEN 1 ELSE 0]

MCInit == /\ Init
          /\ gone \notin present /\ record[gone] = 3 /\ address[gone] = 3
          /\ address[pro] # 4 /\ address[fan] # 4
          /\ record[pro] \in {0, 1} /\ record[fan] \in {0, 2}
MCSpec == MCInit /\ [][Next]_vars /\ Fairness
=============================================================================
