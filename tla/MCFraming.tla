------------------------------ MODULE MCFraming ------------------------------
(* Instance of Framing: bytes of four values.  The magic is chosen so that a
   header cut in its length field reads as a length that is too large, one that
   swallows the next frame, and one that fits. *)
EXTENDS Framing

Payload(len) == [i \in 1..len |-> <<3>>]

MCMagic == <<<<0>>, <<2>>, <<1>>, <<3>>>>

\* Empty, exactly at the limit and one byte over it.
MCSent == {[type |-> 1, payload |-> Payload(0)],
           [type |-> 2, payload |-> Payload(kMaxPayloadLength)],
           [type |-> 1, payload |-> Payload(kMaxPayloadLength + 1)]}

\* One that passes every check of feed and that decode_message refuses.
MCUndecodable == {[type |-> 2, payload |-> Payload(1)]}

MCFrames == MCSent \cup MCUndecodable

\* Before the first byte, in the magic, in each byte of the length, in the
\* checksum of an empty frame (the payload of a longer one).
MCTearPoints == {0, 3, 8, 9, 10, 13}

=============================================================================
