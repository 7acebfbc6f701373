-------------------------- MODULE MCIngestPipeline --------------------------
(* Instances of IngestPipeline for TLC: a small fleet and a small batch.    *)
EXTENDS IngestPipeline, TLC

\* Slots and candidates are interchangeable; sound for the safety runs only.
Symmetry == Permutations(Workers) \cup Permutations(Triage)
=============================================================================
