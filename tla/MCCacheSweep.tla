---------------------------- MODULE MCCacheSweep ----------------------------
(* Two audits over two roots; a marker is stale after two days. *)
EXTENDS CacheSweep

CONSTANTS r1, r2, a1, a2
MCRoot  == {r1, r2}
MCAudit == {a1, a2}
=============================================================================
