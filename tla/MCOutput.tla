-------------------------------- MODULE MCOutput -------------------------------
(* Streams of six lines of two bytes, with the least limit, an odd and an    *)
(* even one.                                                                 *)
EXTENDS Output

SmallLimits == {2, 5, 6}
TwoFailures == {"make", "make again"}
=============================================================================
