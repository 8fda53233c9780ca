------------------------ MODULE MCDocumentPipeline ------------------------
(* Small instances of the document pipeline for TLC.                       *)
EXTENDS DocumentPipeline
=============================================================================
