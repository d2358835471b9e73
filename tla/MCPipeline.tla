----------------------------- MODULE MCPipeline -----------------------------
(***************************************************************************)
(* Pipeline over three short documents and a ring of two buffers, so that  *)
(* the ring is reused while a document is still in it.                     *)
(***************************************************************************)
EXTENDS Pipeline

CONSTANTS a, b

MCTopics == 1..2
MCBody == <<<<a, b>>, <<a>>, <<b>>>>
MCTraining == {"train", "online", "test"}
MCStreaming == {"stream"}
=============================================================================
