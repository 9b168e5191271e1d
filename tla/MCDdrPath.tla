----------------------------- MODULE MCDdrPath -----------------------------
(* An instance of DdrPath for TLC.                                          *)
EXTENDS DdrPath

TwoWalkers == {"xdtw", "ptw"}
TwoPlusOne == [c \in {"xdtw", "ptw"} |-> IF c = "ptw" THEN {"p1", "p2"} ELSE {"x1"}]
StepsOf == [w \in {"p1", "p2", "x1"} |-> IF w = "x1" THEN 1 ELSE 2]
\* The driver's thread fetches commands, the fault thread writes records.
ReadAndWrite == [u \in {"rp", "fault"} |-> IF u = "rp" THEN "read" ELSE "write"]

\* A behaviour has one of two loads, to keep the instance small: every walk and
\* one call, or one walk and every call of both callers.
VARIABLE load
WalkersBusy == [starts |-> AllWalks \cup MrifWrites,
                calls |-> [u \in Callers |-> IF u = "rp" THEN 1 ELSE 0]]
CallersBusy == [starts |-> {"x1"}, calls |-> [u \in Callers |-> MaxCalls]]

LoadInit == Init /\ load \in {WalkersBusy, CallersBusy}
LoadNext == /\ Next /\ UNCHANGED load
            /\ started' \subseteq load.starts
            /\ \A u \in Callers : calls'[u] <= load.calls[u]
LoadSpec == LoadInit /\ [][LoadNext]_<<vars, load>> /\ Fairness
=============================================================================
