---------------------------------- MODULE MCAuth ----------------------------------
(* A ring of four bytes that wraps three times, lines of up to three bytes, and *)
(* dumps into a buffer of exactly the ring and its NUL, or too small for it;    *)
(* windows of two ticks, and requests that fail each of the checks.             *)
EXTENDS Auth

MCCaps == {1, 3, 5}

Bearer(token) == [len |-> 7 + Len(token), scheme |-> "Bearer", token |-> token]

MCKey     == <<1, 2>>
MCHeaders ==
  {[len |-> 0, scheme |-> "other", token |-> <<>>],
   [len |-> 8, scheme |-> "other", token |-> MCKey],
   Bearer(<<1, 2, 3, 4>>), Bearer(<<1>>), Bearer(<<1, 3>>), Bearer(MCKey)}
=============================================================================
