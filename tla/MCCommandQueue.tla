--------------------------- MODULE MCCommandQueue ---------------------------
(* Instances of CommandQueue for TLC: what the driver may post.             *)
EXTENDS CommandQueue

Cmd(op, rid, av) == [op |-> op, rid |-> rid, av |-> av]
I1 == Cmd("inval", 1, "none")
I2 == Cmd("inval", 2, "none")
Ill == Cmd("illegal", 0, "none")
Fence0 == Cmd("fence", 0, "none")
FenceGood == Cmd("fence", 0, "good")
FenceBad == Cmd("fence", 0, "bad")
Cache == Cmd("cache", 0, "none")
Prgr == Cmd("prgr", 0, "none")

\* Every mix of invalidations and fences, and the commands that fail or that
\* only pass through between them.
Mixes == [1..4 -> {I1, FenceGood}] \cup [1..3 -> {I1, I2, Fence0, Ill}]
           \cup {<<I1, I2, I1, FenceGood>>, <<I1, FenceBad, I1>>, <<I1, Cache, Prgr, Fence0>>}
=============================================================================
