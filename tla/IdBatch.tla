------------------------------ MODULE IdBatch -------------------------------
(***************************************************************************)
(* The batches of ids that the cluster hands out (id_batch, proxy.cpp): a  *)
(* base, an increment and a size.  Which bases the cluster chooses is      *)
(* external: all that is assumed is that batches do not overlap.           *)
(***************************************************************************)
EXTENDS Integers

CONSTANTS
    BatchSize,      \* batch_size_, the prefetch count of the generator
    MaxBatch,       \* bound: batches the cluster hands out
    Base(_),        \* external: the base of a batch
    increment       \* external: the increment of every batch

\* block::next(): the id at an index of a batch
Id(b, i) == Base(b) + i * increment

Ids == {Id(b, i) : b \in 1..MaxBatch, i \in 0..(BatchSize - 1)}

ASSUME SizesAssumption == BatchSize \in Nat \ {0} /\ MaxBatch \in Nat

ASSUME BatchesDisjoint ==
    \A b, d \in 1..MaxBatch : \A i, j \in 0..(BatchSize - 1) :
        Id(b, i) = Id(d, j) => b = d /\ i = j
=============================================================================
