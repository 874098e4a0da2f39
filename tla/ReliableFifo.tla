------------------------------ MODULE ReliableFifo ------------------------------
(***************************************************************************)
(* What RelayBundleChannel.h promises of one direction of a channel: what  *)
(* queue accepts is taken by the peer complete, once, in the order it was  *)
(* accepted; nothing is lost and nothing is made up.                       *)
(***************************************************************************)
EXTENDS Sequences, Naturals

CONSTANT Value

VARIABLES accepted, taken

Init == accepted = <<>> /\ taken = <<>>

Accept == \E v \in Value : accepted' = Append(accepted, v) /\ UNCHANGED taken

Take ==
    \E n \in Len(taken) + 1 .. Len(accepted) :
        /\ taken' = SubSeq(accepted, 1, n)
        /\ UNCHANGED accepted

Next == Accept \/ Take

Spec == Init /\ [][Next]_<<accepted, taken>>

=============================================================================
