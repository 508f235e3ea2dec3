---------------------------- MODULE MCSramAlloc ----------------------------
(* SramAlloc for TLC: two A7 threads and four pages of four bytes.  Sizes *)
(* cover the rejected lengths 0 and 17 (more than the RAM), a partial     *)
(* page, an exact two-page length and 9, which rounds up to three pages.  *)
EXTENDS SramAlloc, TLC

CONSTANTS t1, t2

MCThreads == {t1, t2}
MCSizes == {0, 3, 8, 16, 17}
\* unpinned, or pinned to a page a two-page run still fits after
MCPinsInRange == {NoPage, 1}
\* pinned to the last page, where a two-page run does not fit
MCPinsAll == {NoPage, 1, 3}
\* one DSP contends for pages: its pages are as good as the other's
MCDSPs == {RF}
\* the threads run the same code
MCSymmetry == Permutations(MCThreads)
=============================================================================
