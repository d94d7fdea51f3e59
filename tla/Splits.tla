------------------------------- MODULE Splits --------------------------------
(***************************************************************************)
(* Parallel::get_splits and get_chunks: how a range of total items is cut  *)
(* into contiguous spans of nearly equal size.  The threads of one         *)
(* parallel_compute, the ranks that share a sample collection and the      *)
(* batches of a rollout are all cut this way.  Spans are numbered from 0   *)
(* and span i holds the items SpanStart(.., i) .. SpanStart(.., i + 1) - 1.*)
(***************************************************************************)
EXTENDS Integers

(* get_splits throws on these arguments. *)
SplitsThrow(total, num_splits) ==
  \/ num_splits = 0
  \/ total = 0
  \/ num_splits > total

BaseSpanSize(total, num_splits)   == total \div num_splits
NumLargerSpans(total, num_splits) == total % num_splits

(* The first num_larger_spans spans hold one item more. *)
SpanSize(total, num_splits, i) ==
  BaseSpanSize(total, num_splits)
    + IF i < NumLargerSpans(total, num_splits) THEN 1 ELSE 0

(* Faulty variant: offsets that forget that some spans are larger. *)
StartOfEqualSpans(total, num_splits, i) == i * BaseSpanSize(total, num_splits)

(* offset after the i spans before this one have been added to it. *)
SpanStart(total, num_splits, i) ==
  i * BaseSpanSize(total, num_splits)
    + IF i < NumLargerSpans(total, num_splits)
      THEN i
      ELSE NumLargerSpans(total, num_splits)

(* get_chunks throws when max_chunk_size is 0, and as get_splits does. *)
NumChunks(total, max_chunk_size) == (total + max_chunk_size - 1) \div max_chunk_size
=============================================================================
