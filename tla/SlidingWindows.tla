--------------------------- MODULE SlidingWindows ---------------------------
(***************************************************************************)
(* create_sliding_windows of pipeline/vlm/chunked_extractor.py: the page   *)
(* windows of a document that does not fit into one VLM call.  Window i    *)
(* (from 0) starts i steps into the document; the loop stops with the      *)
(* first window that reaches the last page.                                *)
(***************************************************************************)
EXTENDS Integers

CONSTANTS
  WindowSize,  \* vlm_window_size
  Overlap      \* vlm_window_overlap

ASSUME WindowAssumption == WindowSize \in Nat \ {0} /\ Overlap \in Nat

\* Always forward, however large the configured overlap is.
Step == IF Overlap < WindowSize THEN WindowSize - Overlap ELSE 1

\* The loop adds window i unless an earlier one reached the last page.
WindowIndices(n) == {i \in 0 .. n - 1 : i = 0 \/ (i - 1) * Step + WindowSize < n}

\* Pages are counted from 1; both ends belong to the window.
SlidingWindow(i, n) ==
  [from |-> i * Step + 1,
   to   |-> IF i * Step + WindowSize < n THEN i * Step + WindowSize ELSE n]

PagesOf(w) == w.from .. w.to
=============================================================================
