--------------------------- MODULE MCBatchRunner ---------------------------
(* Two documents, two editions whose texts differ in one needle.           *)
EXTENDS BatchRunner

CONSTANTS d1, d2, n1, n2

MCSorted == <<d1, d2>>
MCText == <<{n1, n2}, {n2}>>

=============================================================================
