----------------------------- MODULE MC_PmemLog -----------------------------
(* A pool with room for three bytes.                                        *)
EXTENDS PmemLog

CONSTANTS a, b
MC_Bufs == {<<a>>, <<b, a>>}
=============================================================================
