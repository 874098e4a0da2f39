------------------------------ MODULE MCRelayFrameScheduler ------------------------------
(***************************************************************************)
(* Instances of RelayFrameScheduler: slot 0 has a backlog of orders of     *)
(* every size class against a budget of two bytes, slot 1 one order and a  *)
(* membership that changes.  Under EqualDelay the slots send beats and the *)
(* clock stands, under NextFrame it runs past the last frame it can tell.  *)
(***************************************************************************)
EXTENDS RelayFrameScheduler

MCSlot == 0 .. 1
MCSlotMask == {0, 1}
MCUnsteady == {1}
MCPolicies == {"EqualDelay", "NextFrame"}
MCSizes == [p \in MCPolicies |-> IF p = "EqualDelay" THEN {0, 1, 3} ELSE {2}]
MCMaxNow == [p \in MCPolicies |-> IF p = "EqualDelay" THEN 1 ELSE 9]
MCMaxId == [s \in MCSlot |-> IF s = 0 THEN 3 ELSE 1]
MCMaxBeat ==
    [p \in MCPolicies |-> IF p = "EqualDelay" THEN [s \in MCSlot |-> IF s = 0 THEN 4 ELSE 2]
                                            ELSE [s \in MCSlot |-> s]]

=============================================================================
