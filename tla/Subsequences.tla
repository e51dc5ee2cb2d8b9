------------------------------ MODULE Subsequences ------------------------------
(***************************************************************************)
(* What Vec::retain leaves and Iterator::filter yields: the elements at    *)
(* some positions of a sequence, in their order.  SelectSeq says the same  *)
(* of a test; positions are a set, about which the prover can reason.      *)
(***************************************************************************)
EXTENDS Naturals, Sequences

(* A sequence, whatever its elements are. *)
IsSequence(s) == Len(s) \in Nat /\ s = [i \in 1 .. Len(s) |-> s[i]]

Subsequence(s, I) ==
  LET upto[n \in 0 .. Len(s)] ==
        IF n = 0 THEN <<>>
        ELSE IF n \in I THEN Append(upto[n - 1], s[n])
        ELSE upto[n - 1]
  IN  upto[Len(s)]
=================================================================================
