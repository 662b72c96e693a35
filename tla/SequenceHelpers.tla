-------------------------- MODULE SequenceHelpers ---------------------------
(***************************************************************************)
(* The operators on sequences that the tree, the commitment and the         *)
(* verifier share.  They are those of SequencesExt under names of their     *)
(* own: the modules with proofs carry every definition they extend into     *)
(* each obligation, and SequencesExt brings in all of Bags.                 *)
(***************************************************************************)
EXTENDS Integers, Sequences, Folds, FiniteSetsExt

\* op(... op(op(base, seq[1]), seq[2]) ..., seq[Len(seq)])
FoldOver(op(_, _), base, seq) ==
    MapThenFoldSet(LAMBDA x, y : op(y, x), base, LAMBDA i : seq[i], LAMBDA S : Max(S), DOMAIN seq)

\* The elements of a sequence of sequences, one after the other.
Joined(seqs) == FoldOver(LAMBDA joined, s : joined \o s, <<>>, seqs)

LastOf(s) == s[Len(s)]

AllButLast(s) == SubSeq(s, 1, Len(s) - 1)

=============================================================================
