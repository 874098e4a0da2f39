------------------------------ MODULE RelayMembership ------------------------------
(***************************************************************************)
(* The membership snapshot of engine/src/GameNetwork/RelayMembership.{h,   *)
(* cpp}: what a Membership record carries and what a Frame record is       *)
(* validated against.  The 16-bit masks are sets of slots.  The cursor of  *)
(* the same file is module RelayCursor.                                    *)
(***************************************************************************)
EXTENDS Integers

CONSTANT Slot      \* 0 .. kSlots - 1

\* Snapshot: the fields of the struct.
Snapshot == [slotMask : SUBSET Slot, active : SUBSET Slot, held : SUBSET Slot,
             departed : SUBSET Slot, loaded : SUBSET Slot,
             generation : [Slot -> Nat],
             paused : BOOLEAN, clockValid : BOOLEAN,
             originMs : Nat, firstFrame : Nat]

\* valid(): every slot of the mask is in exactly one of active, held and
\* departed, only active slots are loaded, and the clock runs only when
\* nothing is paused or still loading.
Valid(m) ==
    /\ m.slotMask # {}
    /\ m.active \union m.held \union m.departed = m.slotMask
    /\ m.active \intersect m.held = {}
    /\ m.active \intersect m.departed = {}
    /\ m.held \intersect m.departed = {}
    /\ m.loaded \subseteq m.active
    /\ \A s \in Slot \ m.slotMask : m.generation[s] = 0
    /\ m.clockValid => ~m.paused /\ m.loaded = m.active
    /\ ~m.clockValid => m.originMs = 0 /\ m.firstFrame = 0

=============================================================================
