---------------------------- MODULE FrameChannel ----------------------------
(***************************************************************************)
(* What the framing layer promises one connection: frames that the sender  *)
(* got out whole arrive in order, each once and unchanged, however TCP     *)
(* cuts the stream.  The receiver leaves for good when it has delivered    *)
(* all of them, when the next one cannot be decoded, or when the link is   *)
(* cut.  Module Framing shows that FrameDecoder and the loop around it     *)
(* keep this promise.                                                      *)
(***************************************************************************)
EXTENDS Naturals, Sequences

CONSTANTS
  Frames,
  Undecodable   \* frames the receiver cannot decode

VARIABLES
  accepted,    \* frames written whole to a stream that was sound so far
  delivered,   \* frames handed to dispatch()
  state        \* "open", or how the receiver left its loop

vars == <<accepted, delivered, state>>

Init == accepted = <<>> /\ delivered = <<>> /\ state = "open"

Accept(f) ==
  /\ state = "open"
  /\ accepted' = Append(accepted, f)
  /\ UNCHANGED <<delivered, state>>

Pending == Len(delivered) < Len(accepted)
NextFrame == accepted[Len(delivered) + 1]

Deliver ==
  /\ state = "open"
  /\ Pending /\ NextFrame \notin Undecodable
  /\ delivered' = Append(delivered, NextFrame)
  /\ UNCHANGED <<accepted, state>>

Leave(how) ==
  /\ state = "open"
  /\ state' = how
  /\ UNCHANGED <<accepted, delivered>>

\* Nothing that was accepted is left behind.
Finish == delivered = accepted /\ Leave("finished")

\* The next frame is one the receiver cannot decode.
Refuse == Pending /\ NextFrame \in Undecodable /\ Leave("undecodable")

Cut == Leave("cut")

Next == (\E f \in Frames : Accept(f)) \/ Deliver \/ Finish \/ Refuse \/ Cut

Spec == Init /\ [][Next]_vars

=============================================================================
