-------------------------- MODULE MCThreadAttention --------------------------
(* One approval, one question, clients whose clocks are behind or right.     *)
EXTENDS ThreadAttention

MCOffset == {-1, 0}
=============================================================================
