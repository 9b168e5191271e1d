---------------------------- MODULE MCRequestPath ----------------------------
(* Instances of RequestPath for TLC.                                        *)
EXTENDS RequestPath

\* One order queue for all writes (the default build): devices differ in
\* nothing, one stands for all.
OneDevice == {1}
OneQueue == [d \in OneDevice |-> 1]

\* One order queue per device (TEST_CFG_PERDEV_WRITE_ORDER).
TwoDevices == {1, 2}
PerDevice == [d \in TwoDevices |-> d]

SplitPorts == [dir \in {"READ", "WRITE"} |-> dir]    \* TEST_CFG_SPLIT_RW_PORTS
SinglePort == [dir \in {"READ", "WRITE"} |-> "RW"]
=============================================================================
