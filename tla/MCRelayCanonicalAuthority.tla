------------------------------ MODULE MCRelayCanonicalAuthority ------------------------------
(***************************************************************************)
(* Instances of RelayCanonicalAuthority: a game of two slots.  Where a run *)
(* asks for it, slot 1 is the one that gives no order or that rejoins.     *)
(***************************************************************************)
EXTENDS RelayCanonicalAuthority

MCSlot == 0 .. 1
MCSlotMask == {0, 1}

PerSlot(zero, one) == [s \in MCSlot |-> IF s = 0 THEN zero ELSE one]
NoTicket == PerSlot({}, {})

\* Slot 0 goes on after slot 1 fell silent or left; a HELLO or BYE comes twice.
Uneven == [policy |-> "EqualDelay", lasts |-> 0, updates |-> PerSlot(3, 1), orders |-> PerSlot(0, 1), repeats |-> 1,
           silent |-> {1}, tickets |-> NoTicket, fair |-> FALSE]
\* Two players who go on as long as they are in the game.
Even == [policy |-> "EqualDelay", lasts |-> 0, updates |-> PerSlot(2, 2), orders |-> PerSlot(1, 0), repeats |-> 0,
         silent |-> {}, tickets |-> NoTicket, fair |-> TRUE]
\* Slot 1 may come back with the next ticket.
Short == [policy |-> "NextFrame", lasts |-> 2, updates |-> PerSlot(1, 1), orders |-> PerSlot(1, 0), repeats |-> 0,
          silent |-> {}, tickets |-> PerSlot({}, {1}), fair |-> FALSE]
\* Both give an order.
Busy == [policy |-> "EqualDelay", lasts |-> 0, updates |-> PerSlot(2, 2), orders |-> PerSlot(1, 1), repeats |-> 1,
         silent |-> {}, tickets |-> NoTicket, fair |-> FALSE]

MCGames == {Uneven, Even, Short}
MCBusy == {Busy}
MCSilent == {[Busy EXCEPT !.silent = {1}]}
MCRejoin == {[Busy EXCEPT !.tickets = PerSlot({}, {1})]}

=============================================================================
