------------------------ MODULE MCLazyInvalidation ------------------------
(* Instances of LazyInvalidation for TLC: the lines that may be cached and  *)
(* the commands that may be issued.                                         *)
EXTENDS LazyInvalidation

Line(a, r, g, p, pg, gpa, s, gl) ==
  [array |-> a, ram |-> r, gscid |-> g, pscid |-> p, page |-> pg, gpa |-> gpa,
   stage |-> s, global |-> gl]
Command(op, g, p, pg, nl) == [op |-> op, gscid |-> g, pscid |-> p, page |-> pg, nl |-> nl]

\* Lines of two PT RAMs and two GSCIDs, one a global mapping, and a walker line.
SafeKeys == {Line("pt", 0, 1, 1, 1, 2, "STAGE1_AND_2", FALSE),
             Line("pt", 1, 2, 1, 1, 1, "STAGE1_AND_2", TRUE),
             Line("vs", 0, 1, 1, 1, 2, "STAGE1_AND_2", FALSE)}
\* Two lines that may replace each other, and a walker line.
NewKeys == {Line("pt", 0, 1, 1, 1, 2, "STAGE1_AND_2", FALSE),
            Line("pt", 0, 1, 2, 3, 3, "STAGE1_ONLY", FALSE),
            Line("vs", 0, 2, 1, 1, 2, "STAGE1_AND_2", FALSE)}
LazyCommands == {Command("VMA", 1, 1, None, FALSE), Command("VMA", None, 1, None, FALSE),
                 Command("GVMA", 1, None, None, FALSE), Command("GVMA", 2, None, None, FALSE),
                 Command("VMA", 1, 1, 1, FALSE), Command("VMA", 1, 1, 1, TRUE)}
NewCommands == LazyCommands \cup {Command("VMA", None, None, None, FALSE)}

\* One line, and commands about its GSCID and about another.
OneKey == {Line("pt", 0, 1, 1, 1, 2, "STAGE1_AND_2", FALSE)}
S2Key == {Line("s2", 0, 1, 1, 2, 2, "STAGE2_ONLY", FALSE)}
ByGscid == {Command("GVMA", 1, None, None, FALSE), Command("GVMA", 2, None, None, FALSE)}
=============================================================================
