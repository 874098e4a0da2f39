------------------------------ MODULE RelayFrameClock ------------------------------
(***************************************************************************)
(* engine/src/GameNetwork/RelayFrameClock.h: the relay's frame boundaries. *)
(* Frame f of a canonical game is the half-open interval of FrameMs        *)
(* milliseconds that ends at BoundaryOf(f); a receipt exactly at a         *)
(* boundary belongs to the next frame.  Both conversions can fail: they    *)
(* are total here only where ...InRange holds, and every user of them      *)
(* branches on it as the code branches on the returned bool.               *)
(***************************************************************************)
EXTENDS Integers

CONSTANTS
    OriginMs,       \* m_originMs: the committed clock origin
    FirstFrame,     \* m_firstFrame
    FrameMs,        \* m_frameMs: 50 .. 200 in the code
    MaxFrame,       \* numeric_limits<uint32_t>::max()
    MaxMs           \* numeric_limits<uint64_t>::max()

ASSUME ClockAssumption ==
    /\ OriginMs \in Nat /\ MaxMs \in Nat /\ OriginMs <= MaxMs
    /\ FirstFrame \in Nat /\ MaxFrame \in Nat /\ FirstFrame < MaxFrame
    /\ FrameMs \in Nat \ {0}

Elapsed(frame) == (frame - FirstFrame + 1) * FrameMs

\* boundaryOf answers: the frame is not before the origin and its end is
\* still a 64-bit millisecond.
BoundaryInRange(frame) ==
    /\ frame >= FirstFrame
    /\ Elapsed(frame) <= MaxMs - OriginMs

BoundaryOf(frame) == OriginMs + Elapsed(frame)

\* frameAfter: the frame whose interval holds the receipt.
FrameAfter(receipt) == FirstFrame + (receipt - OriginMs) \div FrameMs

\* The period count is added without the 32-bit test.
Mutant_FrameAfterInRange(receipt) == receipt >= OriginMs /\ BoundaryInRange(FrameAfter(receipt))

FrameAfterInRange(receipt) ==
    /\ receipt >= OriginMs
    /\ FrameAfter(receipt) <= MaxFrame
    /\ BoundaryInRange(FrameAfter(receipt))

=============================================================================
