------------------------------ MODULE MCRelayBundleChannel ------------------------------
(***************************************************************************)
(* Instances of RelayBundleChannel: a one-fragment and a two-fragment      *)
(* message under three sequence numbers, the last of them the last there   *)
(* is, through a window of two.                                            *)
(***************************************************************************)
EXTENDS RelayBundleChannel

CONSTANTS Small, Large

MCFragments == [m \in Message |-> IF m = Small THEN 1 ELSE 2]
MCAccounted == [m \in Message |-> IF m = Small THEN 1 ELSE 2]

\* The second message may need two packets, the third does.
Mixed == [offered |-> [s \in 1 .. MaxSequence |->
                CASE s = 1 -> {Small} [] s = 2 -> {Small, Large} [] OTHER -> {Large}],
          fair |-> FALSE]
SmallOnly == [offered |-> [s \in 1 .. MaxSequence |-> {Small}], fair |-> TRUE]

MCBoth == {Mixed, SmallOnly}
MCSmallOnly == {SmallOnly}

=============================================================================
