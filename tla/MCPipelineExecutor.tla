------------------------- MODULE MCPipelineExecutor -------------------------
(* Small pipelines for PipelineExecutor. *)
EXTENDS PipelineExecutor, TLC

\* A task that takes one value, one that takes batches, and their variants.
One == [kind |-> "single", batch |-> FALSE, size |-> 0, limited |-> FALSE,
        enriches |-> FALSE, weight |-> 1]
Iterator == [One EXCEPT !.kind = "iter"]
Streaming == [One EXCEPT !.kind = "stream"]
Limited(t) == [t EXCEPT !.limited = TRUE]
Batch(t) == [t EXCEPT !.batch = TRUE]

\* An iterator for a limited batch task; a stream for a batch task; a limited
\* enriching task, then an iterator whose values go on one by one; a task of
\* weight zero.
MCPipelines ==
    { <<Iterator, Limited(Batch(One))>>,
      <<Streaming, Batch(Streaming)>>,
      <<[Limited(One) EXCEPT !.enriches = TRUE], Iterator, [One EXCEPT !.size = 1]>>,
      <<[One EXCEPT !.weight = 0]>> }

=============================================================================
