--------------------------- MODULE SlidingWindow ---------------------------
(***************************************************************************)
(* The sliding window of the detectors: a list that is appended to and     *)
(* then filtered by its age at every use ("[t for t in ts if ...]").       *)
(***************************************************************************)
EXTENDS Integers, Sequences

\* The entries of s that belong to S, in their order.  (SelectSeq with a set
\* for its test: the proofs need its recursion in the open.)
Kept(s, S) ==
    LET kept[i \in 0..Len(s)] ==
          IF i = 0 THEN <<>>
          ELSE IF s[i] \in S THEN Append(kept[i - 1], s[i])
          ELSE kept[i - 1]
    IN  kept[Len(s)]
=============================================================================
