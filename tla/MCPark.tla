------------------------------- MODULE MCPark -------------------------------
(* Instances of Park for TLC. *)
EXTENDS Park

CONSTANTS a1, a2,   \* two acknowledgements
          r1,       \* one rejection
          s1,       \* one polling reader
          g1        \* one garbage collection

\* An ack against a rejection and a polling reader; two acks, one of which may be
\* killed or fail, against a collection; that ack against a polling reader.
ThreeCasts == {{a1, r1, s1}, {a1, a2, g1}, {a2, s1}}

\* One ack against one collection.
AckAndCollector == {{a1, g1}}
=============================================================================
