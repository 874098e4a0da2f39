------------------------------ MODULE RelayCursor ------------------------------
(***************************************************************************)
(* The record stream of a canonical game and the cursor that reads it:     *)
(* RelayCommit::Record and RelayMembership::Cursor (engine/src/            *)
(* GameNetwork).  The game log, every client and every replay read the     *)
(* same records through a cursor.                                          *)
(*                                                                         *)
(* A payload is a sequence of at most one value: empty as the code's byte  *)
(* vector is empty, a Snapshot in a Membership record, the slots' orders   *)
(* in a Frame record.  The game and epoch of every record are the game's.  *)
(***************************************************************************)
EXTENDS Sequences, RelayMembership, RelayFrameClock

CONSTANT SlotMask     \* m_slotMask: the game's slots

Orders == [Slot -> Seq(Nat)]

\* Record: its kind, its stamp and its payload.
IsRecord(r) ==
    /\ r.kind \in {"Frame", "Membership", "End"}
    /\ r.sequence \in Nat /\ r.frame \in Nat /\ r.generation \in Nat
    /\ r.kind = "Membership" => r.payload \in Seq(Snapshot)
    /\ r.kind = "Frame" => r.payload \in Seq(Orders)
    /\ r.kind = "End" => r.payload = <<>>

NoSnapshot ==
    [slotMask |-> {}, active |-> {}, held |-> {}, departed |-> {}, loaded |-> {},
     generation |-> [s \in Slot |-> 0], paused |-> FALSE, clockValid |-> FALSE,
     originMs |-> 0, firstFrame |-> 0]

\* A cursor before its first record.
NewCursor ==
    [sequence |-> 0, generation |-> 0, nextFrame |-> FirstFrame,
     staged |-> NoSnapshot, hasMembership |-> FALSE,
     applied |-> NoSnapshot, departedAtFrame |-> {}, ended |-> FALSE]

\* What every record must be: the next one, for the next frame, of a game
\* that has not ended.
InSequence(c, r) ==
    /\ ~c.ended
    /\ r.sequence = c.sequence + 1
    /\ r.frame = c.nextFrame

\* The clock starts at the next frame, or runs on from the same origin.
ClockFollows(c, m) ==
    m.clockValid =>
        IF c.hasMembership /\ c.staged.clockValid
        THEN m.originMs = c.staged.originMs /\ m.firstFrame = c.staged.firstFrame
        ELSE m.firstFrame = c.nextFrame

\* A membership may follow the staged one.
MembershipFollows(c, m) ==
    /\ m.slotMask = SlotMask
    /\ c.staged.departed \subseteq m.departed
    /\ \A s \in Slot : m.generation[s] \in {c.staged.generation[s], c.staged.generation[s] + 1}
    /\ ClockFollows(c, m)

\* The frame validator: only active slots have orders.  (What a frame may
\* hold of them is ValidContent of module RelayFrameBundle.)
ValidFrame(orders, m) ==
    /\ Valid(m)
    /\ \A s \in Slot : orders[s] # <<>> => s \in m.active /\ m.clockValid

\* accept returns true.
Accepts(c, r) ==
    /\ InSequence(c, r)
    /\ \/ /\ r.kind = "Membership"
          /\ r.generation = c.generation + 1
          /\ r.payload # <<>>
          /\ Valid(r.payload[1])
          /\ MembershipFollows(c, r.payload[1])
       \/ /\ r.kind = "Frame"
          /\ r.generation = c.generation
          /\ c.hasMembership /\ c.staged.clockValid
          /\ c.nextFrame # MaxFrame
          /\ r.payload # <<>>
          /\ ValidFrame(r.payload[1], c.staged)
       \/ /\ r.kind = "End"
          /\ r.generation = c.generation
          /\ r.payload = <<>>

\* Every departed slot of the game, at every frame.
Mutant_Accepted(c, r) ==
    IF ~Accepts(c, r) THEN c
    ELSE LET stamped == [c EXCEPT !.sequence = r.sequence, !.generation = r.generation] IN
         CASE r.kind = "Membership" ->
                [stamped EXCEPT !.staged = r.payload[1], !.hasMembership = TRUE]
           [] r.kind = "Frame" ->
                [stamped EXCEPT !.departedAtFrame = c.staged.departed,
                                !.applied = c.staged,
                                !.nextFrame = @ + 1]
           [] r.kind = "End" -> [stamped EXCEPT !.ended = TRUE]

\* The cursor after accept: a refused record changes nothing.
Accepted(c, r) ==
    IF ~Accepts(c, r) THEN c
    ELSE LET stamped == [c EXCEPT !.sequence = r.sequence, !.generation = r.generation] IN
         CASE r.kind = "Membership" ->
                [stamped EXCEPT !.staged = r.payload[1], !.hasMembership = TRUE]
           [] r.kind = "Frame" ->
                [stamped EXCEPT !.departedAtFrame = c.staged.departed \ c.applied.departed,
                                !.applied = c.staged,
                                !.nextFrame = @ + 1]
           [] r.kind = "End" -> [stamped EXCEPT !.ended = TRUE]

\* A cursor fed a sequence of records: what it is after the first n of them,
\* what it is in the end, and whether it took every one.
Feeding(c, records) ==
    LET upTo[n \in 0 .. Len(records)] ==
            IF n = 0 THEN c ELSE Accepted(upTo[n - 1], records[n])
    IN  upTo

Fed(c, records) == Feeding(c, records)[Len(records)]

TakesAll(c, records) ==
    \A i \in 1 .. Len(records) : Accepts(Feeding(c, records)[i - 1], records[i])

=============================================================================
