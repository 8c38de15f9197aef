----------------------------- MODULE MCEmbedBatch -----------------------------
(* Instances of EmbedBatch for TLC. *)
EXTENDS EmbedBatch

\* Files of one and of four chunks, one of which may be bad
CONSTANTS a, b, c, d, x
MCInputs == {<<a>>, <<d, c, b, a>>, <<a, b, x, c>>}

=============================================================================
