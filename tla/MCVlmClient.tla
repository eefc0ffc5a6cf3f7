----------------------------- MODULE MCVlmClient -----------------------------
(* Two threads, one raw and one single-value field (or two page images).    *)
EXTENDS VlmClient
=============================================================================
