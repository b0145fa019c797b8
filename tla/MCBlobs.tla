------------------------------- MODULE MCBlobs -------------------------------
(* An instance of Blobs.                                                     *)
EXTENDS Blobs, TLC

CONSTANTS c1, c2

KindOf == ("a" :> "blob") @@ ("b" :> "blob") @@ ("big" :> "blob") @@ ("t" :> "tree") @@ ("m" :> "missing")
SizeOf == ("a" :> 1) @@ ("b" :> 1) @@ ("big" :> 2) @@ ("t" :> 0) @@ ("m" :> 0)

\* A call of two Reads, and one whose answers would fit the first, and then too large.
BatchOf == (c1 :> <<"a", "m", "b">>) @@ (c2 :> <<"b", "t", "big">>)
=============================================================================
