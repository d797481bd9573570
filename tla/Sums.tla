-------------------------------- MODULE Sums --------------------------------
(* The sum of a sequence of naturals: bytes of queued frames, weights of kept
   entries.  A recursive function and not FoldLeft of the library, whose
   operator argument puts it beyond the provers. *)
EXTENDS Naturals, Sequences

PartialSums(s) ==
  LET upTo[i \in 0..Len(s)] == IF i = 0 THEN 0 ELSE upTo[i - 1] + s[i]
  IN  upTo

SumOf(s) == PartialSums(s)[Len(s)]
=============================================================================
