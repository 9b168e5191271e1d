------------------------------- MODULE MCWalk -------------------------------
(* Instances of Walk for TLC: page tables, device contexts and tasks.       *)
EXTENDS Walk, TLC

Full == {"R", "W", "X", "U", "A", "D"}
Leaf(f) == [k |-> "leaf", p |-> Full, ppn |-> f]
Only(p, f) == [k |-> "leaf", p |-> p, ppn |-> f]
Table(f) == [k |-> "table", p |-> {}, ppn |-> f]

\* First stage alone, Sv39 from frame 1 and Sv48 from frame 9, Fan = 4: pages
\* 0..3 are 4 KiB pages, 4..7 and 16..31 one page each, the rest is unmapped.
OneStage ==
  <<9, 0>> :> Table(1) @@
  <<1, 0>> :> Table(2) @@ <<1, 1>> :> Leaf(32) @@
  <<2, 0>> :> Table(3) @@ <<2, 1>> :> Leaf(48) @@
  <<3, 0>> :> Leaf(5) @@ <<3, 1>> :> Leaf(6) @@
  <<3, 2>> :> Only({"R", "U", "A"}, 7) @@ <<3, 3>> :> Only({"R", "W", "U", "A"}, 10)

\* Second stage Sv48x4 from frame 20: guest pages 0..3 and 8..11 are 4 KiB
\* pages, 4..7 and 16..31 one page each.  First stage from guest page 1.
TwoStages ==
  <<20, 0>> :> Table(21) @@ <<21, 0>> :> Table(22) @@ <<21, 1>> :> Leaf(64) @@
  <<22, 0>> :> Table(23) @@ <<22, 1>> :> Leaf(36) @@ <<22, 2>> :> Table(24) @@
  <<23, 0>> :> Leaf(30) @@ <<23, 1>> :> Leaf(31) @@
  <<23, 2>> :> Leaf(32) @@ <<23, 3>> :> Leaf(33) @@
  <<24, 0>> :> Leaf(50) @@ <<24, 1>> :> Only({"R", "U", "A", "D"}, 51) @@
  <<31, 0>> :> Table(2) @@ <<31, 1>> :> Leaf(16) @@
  <<32, 0>> :> Table(3) @@ <<32, 1>> :> Leaf(4) @@ <<32, 2>> :> Table(10) @@
  <<33, 0>> :> Leaf(0) @@ <<33, 1>> :> Leaf(5) @@
  <<33, 2>> :> Leaf(10) @@ <<33, 3>> :> Leaf(9)

\* A second stage of one page, from frame 25; the first from guest page 41.
OneGuestPage ==
  <<25, 0>> :> Leaf(0) @@
  <<41, 0>> :> Table(42) @@ <<42, 0>> :> Table(43) @@
  <<43, 1>> :> Leaf(5) @@ <<43, 2>> :> Leaf(10) @@ <<43, 3>> :> Leaf(9)

Access(page, acc) ==
  [iova |-> page, acc |-> acc, check |-> TRUE, priv |-> "U", sum |-> FALSE,
   msi |-> FALSE, bypass |-> FALSE]
Bypassing(a) == [a EXCEPT !.bypass = TRUE]
ToMsi(a) == [a EXCEPT !.msi = TRUE]

Scenario(pt, vtop, vroot, gtop, groot, sade, depth, msipages, a, b) ==
  [pt |-> pt, vtop |-> vtop, vroot |-> vroot, gtop |-> gtop, groot |-> groot,
   sade |-> sade, gade |-> FALSE, depth |-> depth, msipages |-> msipages,
   tasks |-> "t1" :> a @@ "t2" :> b]
Sv39(sade, depth, a, b) == Scenario(OneStage, 2, 1, Bare, 0, sade, depth, {}, a, b)
Sv48(depth, a, b) == Scenario(OneStage, 3, 9, Bare, 0, FALSE, depth, {}, a, b)
Both(depth, a, b) == Scenario(TwoStages, 2, 1, 3, 20, FALSE, depth, {}, a, b)

Runs == <<
  Sv39(FALSE, 0, Access(1, "write"), Access(3, "write")),
  Sv39(TRUE, 0, Access(3, "write"), Access(2, "read")),
  Sv39(FALSE, 0, Bypassing(Access(5, "read")), Access(6, "write")),
  Sv48(0, Access(17, "exec"), Access(300, "read")),
  Sv48(2, Access(1, "read"), Access(6, "read")),
  Both(0, Access(1, "read"), Access(3, "write")),
  Both(0, Access(9, "read"), Access(2, "read")),
  Both(0, Access(5, "read"), Access(17, "write")),
  Both(1, Access(1, "read"), Access(17, "read")),
  Scenario(OneGuestPage, 2, 41, 3, 25, FALSE, 1, {}, Access(3, "read"), Access(1, "read")),
  Scenario(TwoStages, Bare, 0, 3, 20, FALSE, 0, {}, Access(5, "read"), Access(9, "write")),
  Scenario(OneStage, Bare, 0, Bare, 0, FALSE, 0, {}, Access(5, "read"), Access(9, "write")),
  Scenario(OneStage, 2, 1, Bare, 0, FALSE, 0, {6}, ToMsi(Access(1, "write")), ToMsi(Access(0, "read"))),
  Scenario(TwoStages, 2, 1, 3, 20, FALSE, 0, {5}, ToMsi(Access(1, "write")), ToMsi(Access(0, "read"))),
  Scenario(TwoStages, Bare, 1, 3, 20, FALSE, 0, {5}, ToMsi(Access(5, "write")), ToMsi(Access(8, "read"))) >>
Every == {Runs[k] : k \in DOMAIN Runs}
\* The first task leaves the line for the second, whose own page has no
\* second-stage mapping while its prefetch is under way.
Faulting == {Both(1, Access(3, "read"), Access(2, "read"))}
\* The page after the first task's has no second-stage mapping.
HoleAhead == {Both(1, Access(1, "read"), Access(17, "read"))}
\* Pages 4..7 are one page of the first stage over 4 KiB pages of the second.
LargeOverSmall == [a \in DOMAIN TwoStages |-> IF a = <<32, 1>> THEN Leaf(8) ELSE TwoStages[a]]
MixedSizes == {Scenario(LargeOverSmall, 2, 1, 3, 20, FALSE, 0, {}, Access(4, "read"), Access(5, "read"))}
=============================================================================
