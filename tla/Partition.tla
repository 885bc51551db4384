----------------------------- MODULE Partition ------------------------------
(***************************************************************************)
(* hash_partition_edges of core/partition.py: an edge goes to the bucket   *)
(* of its smaller end, in the order of the input; it is a boundary edge of *)
(* its bucket if its two ends have different hashes.                       *)
(*                                                                         *)
(* Python's % and TLA+'s agree for every integer and a positive modulus.   *)
(***************************************************************************)
EXTENDS Integers, SequencesExt

Smaller(e) == IF e[1] <= e[2] THEN e[1] ELSE e[2]

Bucket(e, partitions) == Smaller(e) % partitions

IsBoundary(e, partitions) == e[1] % partitions # e[2] % partitions

\* `for src, dst in edges` unpacks pairs only.
Unpacks(edges) == \A i \in DOMAIN edges : Len(edges[i]) = 2

\* The members of a sequence that lie in S, in their order: SelectSeq, as the
\* loop that appends one member after the other.
Among(seq, S) ==
  LET taken[n \in 0 .. Len(seq)] ==
        IF n = 0 THEN <<>>
        ELSE IF seq[n] \in S THEN Append(taken[n - 1], seq[n]) ELSE taken[n - 1]
  IN  taken[Len(seq)]

\* The edges of partition i, for i in 0 .. partitions - 1.
PartEdges(edges, partitions, i) ==
  Among(edges, {e \in Range(edges) : Bucket(e, partitions) = i})

HashPartitionEdges(edges, partitions) ==
  [i \in 1 .. partitions |-> PartEdges(edges, partitions, i - 1)]

BoundaryEdges(part, partitions) ==
  Among(part, {e \in Range(part) : IsBoundary(e, partitions)})
=============================================================================
