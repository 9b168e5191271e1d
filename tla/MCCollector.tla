---------------------------- MODULE MCCollector ----------------------------
(* Instances of Collector for TLC: directories, requests and limits.       *)
EXTENDS Collector

DC(en_ats, t2gpa, pdtv, dpe, mode) ==
  [valid |-> TRUE, en_ats |-> en_ats, t2gpa |-> t2gpa, pdtv |-> pdtv, dpe |-> dpe, mode |-> mode]
PC(ens) == [valid |-> TRUE, ens |-> ens]
Absent(context) == [context EXCEPT !.valid = FALSE]

\* Device 1 has processes 0 and 1, device 2 one address space, device 3 no context.
SpaceOnly == DC(FALSE, FALSE, FALSE, FALSE, "bare")
Devices == <<DC(TRUE, TRUE, TRUE, TRUE, "pd8"), SpaceOnly, Absent(SpaceOnly)>>
Processes == [k \in (1 .. 3) \X (0 .. 2) |->
  CASE k = <<1, 0>> -> PC(FALSE) [] k = <<1, 1>> -> PC(TRUE) [] OTHER -> Absent(PC(TRUE))]

Plain(dev) == [dev |-> dev, at |-> "untranslated", pid_valid |-> FALSE, pid |-> 0, priv_req |-> FALSE]
WithPid(dev, pid, priv) == [Plain(dev) EXCEPT !.pid_valid = TRUE, !.pid = pid, !.priv_req = priv]

\* The default process (which does not grant the privilege that comes with no
\* process id), a process that is missing, and a device without a context.
MixedRequests == {[Plain(1) EXCEPT !.priv_req = TRUE], WithPid(1, 2, FALSE), Plain(3)}
\* A device and a process context to walk for.
TwoWalks == {WithPid(1, 1, FALSE)}

OneEach == [w \in Walk |-> 1]
OneDevice == [w \in Walk |-> IF w = "ddt" THEN 1 ELSE 3]
=============================================================================
