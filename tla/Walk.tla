-------------------------------- MODULE Walk --------------------------------
(* The page table walker: iommu_perf_ptw.cc with the walker cache it reads  *)
(* and fills (walker_cache.cpp, iommu_task_cache_convert.cc), compared with *)
(* the functional model's sequential translation                            *)
(* (iommu_two_stage_trans.cc, iommu_second_stage_trans.cc).                 *)
(*                                                                          *)
(* Two threads run the walks.  ptw_req_process_thread starts a walk from    *)
(* what the walker cache offers; ptw_rsp_process_thread takes one DDR       *)
(* answer at a time, decides from the phase of its walk what the PTE means  *)
(* and sends the next read, ends the walk, or spawns prefetch walks.  The   *)
(* DDR answers in any order and walker updates reach the RAMs later, so     *)
(* walks of several tasks mix.                                              *)
(*                                                                          *)
(* Addresses are page numbers: a table has Fan entries instead of 512, a    *)
(* PTE is named by <<frame, index>>, a leaf at level l maps Fan^l pages.    *)
(* Levels and the sub tables C1, C2, C3 of the walker cache are the code's. *)
EXTENDS Integers, Sequences, FiniteSetsExt, Functions

CONSTANTS
  Fan,              \* entries of a page table
  Scenarios,        \* page tables, device context and tasks of a behaviour
  MaxOutstanding,   \* PTW_MAX_OUTSTANDING_TASKS
  Ways              \* lines of a walker sub table that compete for a tag

\* A scenario: vtop, gtop are the levels of the root tables (2 for Sv39, 3
\* for Sv48 and Sv48x4, Bare for none), pt the words of the page tables,
\* depth is PT_DEDUP_PREFETCH_DEPTH, msipages the pages that
\* msi_addr_pattern selects.
Bare == -1

ASSUME WalkAssumption ==
  /\ Fan \in Nat \ {0, 1}
  /\ MaxOutstanding \in Nat \ {0}
  /\ Ways \in Nat \ {0}
  /\ \A sc \in Scenarios : /\ sc.vtop \in {Bare, 2, 3}
                           /\ sc.gtop \in {Bare, 3}
                           /\ sc.depth \in Nat
                           /\ \A t \in DOMAIN sc.tasks : sc.tasks[t].iova \in Nat

VARIABLES
  s,            \* the scenario: never changes
  written,      \* PTEs changed by A/D updates
  wc, s2,       \* walker cache and its S2 arrays: sets of lines
  upd,          \* walker_update_fifo and the RAM queues behind it
  walks,        \* iommu_task_t.walk_ctx of every task and prefetch task
  groups,       \* prefetch_groups and, once taken, the agg_flush_peq
  outstanding,  \* ptw_outstanding_task_count
  out,          \* history: what each task was forwarded with
  given         \* history: results handed to the PT cache and dedup cache

caches == <<wc, s2, upd>>
vars == <<s, written, caches, walks, groups, outstanding, out, given>>

-----------------------------------------------------------------------------
(* Page tables.                                                             *)

\* k is "bad" for every encoding a stage rejects at any level (V = 0, W
\* without R, reserved bits, A, D or U in a pointer).
Bad == [k |-> "bad", p |-> {}, ppn |-> 0]

Tasks == DOMAIN s.tasks
Ids == Tasks \X (0..s.depth)    \* <<t, 0>> the task, <<t, d>> its prefetches
Task(i) == s.tasks[i[1]]
IsPrefetch(i) == i[2] > 0
Iova(i) == Task(i).iova + i[2]
TwoStage == s.gtop # Bare

Idx(page, l) == (page \div Fan^l) % Fan
Within(ppn, page, l) == (ppn - (ppn % Fan^l)) + (page % Fan^l)
Misaligned(ppn, l) == ppn % Fan^l # 0

Word(a) == IF a \in DOMAIN written THEN written[a]
           ELSE IF a \in DOMAIN s.pt THEN s.pt[a] ELSE Bad

PageFault(acc) == CASE acc = "exec" -> 12 [] acc = "read" -> 13 [] OTHER -> 15
GuestFault(acc) == CASE acc = "exec" -> 20 [] acc = "read" -> 21 [] OTHER -> 23
Right(acc) == CASE acc = "exec" -> "X" [] acc = "read" -> "R" [] OTHER -> "W"

Done(pa) == [st |-> "done", pa |-> pa, cause |-> 0]
Msi(gpa) == [st |-> "msi", pa |-> gpa, cause |-> 0]
Fault(c) == [st |-> "fault", pa |-> 0, cause |-> c]
NoResult == [st |-> "none", pa |-> 0, cause |-> 0]

\* The checks on a VS leaf that are the same in both models.
VsForbids(task, pte, l) ==
  \/ task.check /\ Right(task.acc) \notin pte.p
  \/ task.priv = "U" /\ "U" \notin pte.p
  \/ task.priv = "S" /\ "U" \in pte.p /\ (task.acc = "exec" \/ ~task.sum)
  \/ Misaligned(pte.ppn, l)

-----------------------------------------------------------------------------
(* The functional model: one translation at a time, no caches.              *)

\* The leaf has to be marked; an implicit access is that of a VS table walk,
\* and writes its PTEs when the first stage updates A and D itself.
GsNeedsAd(task, implicit, pte) ==
  \/ "A" \notin pte.p
  \/ /\ "D" \notin pte.p /\ "W" \in pte.p
     /\ IF implicit THEN s.sade ELSE task.acc = "write"

GsDenied(task, implicit, pte, l) ==
  \/ ~implicit /\ task.check /\ Right(task.acc) \notin pte.p
  \/ implicit /\ "R" \notin pte.p
  \/ "U" \notin pte.p
  \/ Misaligned(pte.ppn, l)
  \/ GsNeedsAd(task, implicit, pte) /\ ~s.gade

\* second_stage_address_translation of a guest page: Done(frame), or a fault
\* that the caller gives its cause.
RefSecond(page, task, implicit) ==
  LET step[l \in -1..3, f \in Nat] ==
         LET pte == IF l < 0 THEN Bad ELSE Word(<<f, Idx(page, l)>>)
         IN  CASE pte.k = "bad" -> Fault(0)
               [] pte.k = "table" -> step[l - 1, pte.ppn]
               [] OTHER -> IF GsDenied(task, implicit, pte, l) THEN Fault(0)
                           ELSE Done(Within(pte.ppn, page, l))
  IN  IF TwoStage THEN step[s.gtop, s.groot] ELSE Done(page)

\* iommu_translate_iova after the first stage: MSI or the G-stage of the GPA.
RefLast(task, gpa) ==
  IF task.msi /\ gpa \in s.msipages THEN Msi(gpa)
  ELSE LET r == RefSecond(gpa, task, FALSE)
       IN  IF r.st = "fault" THEN Fault(GuestFault(task.acc)) ELSE r

VsNeedsAd(task, pte) ==
  \/ "A" \notin pte.p
  \/ "D" \notin pte.p /\ task.acc = "write" /\ "W" \in pte.p

\* two_stage_address_translation followed by the G-stage of the result.
RefTranslate(task) ==
  LET step[l \in -1..3, table \in Nat] ==
        LET r == RefSecond(table, task, TRUE)
            pte == IF l < 0 THEN Bad ELSE Word(<<r.pa, Idx(task.iova, l)>>)
        IN  CASE l >= 0 /\ r.st = "fault" -> Fault(GuestFault(task.acc))
              [] pte.k = "bad" -> Fault(PageFault(task.acc))
              [] pte.k = "table" -> step[l - 1, pte.ppn]
              [] OTHER ->
                   IF VsForbids(task, pte, l) \/ (VsNeedsAd(task, pte) /\ ~s.sade)
                   THEN Fault(PageFault(task.acc))
                   ELSE RefLast(task, Within(pte.ppn, task.iova, l))
  IN  CASE s.vtop = Bare -> RefLast(task, task.iova)
        [] task.iova >= Fan^(s.vtop + 1) -> Fault(PageFault(task.acc))
        [] OTHER -> step[s.vtop, s.vroot]

-----------------------------------------------------------------------------
(* The walker cache.  A line of sub table C<h> comes from the PTE at level  *)
(* 4 - h: it holds the frame of the table below it or, when leaf, the first *)
(* frame of the page it maps.                                               *)

Line(h, page, ppn, leaf) ==
  [h |-> h, tag |-> page \div Fan^(4 - h), ppn |-> ppn, leaf |-> leaf]
NoLine == [h |-> 0, tag |-> 0, ppn |-> 0, leaf |-> FALSE]

\* All sub tables are looked up, the one nearest to the leaf wins.
Lookup(cache, page) ==
  LET hits == {e \in cache : e.tag = page \div Fan^(4 - e.h)}
  IN  IF hits = {} THEN NoLine
      ELSE CHOOSE e \in hits : \A f \in hits : f.h <= e.h

LookupVs(page) == Lookup(wc, page)
LookupS2(page) == Lookup(s2, page)

\* The caches a new line may leave: the same tag is overwritten, a free line
\* is taken, else the replacement policy picks a victim.
Insertions(cache, e) ==
  LET rest == {f \in cache : f.h = e.h /\ f.tag # e.tag}
      others == {f \in cache : f.h # e.h}
  IN  IF Cardinality(rest) < Ways THEN {others \cup rest \cup {e}}
      ELSE {others \cup (rest \ {v}) \cup {e} : v \in rest}

\* Mutant: a large page is cached with the frame of the page asked for.
UpdateFrom_Unaligned(first, entries, page, size, ppn) ==
  LET from == IF size = 0 THEN first ELSE Min({first, 4 - size})
      lines == {Line(e[1], page, e[2], FALSE) :
                  e \in {x \in entries : size = 0 \/ x[1] # 4 - size}}
      leaf == {Line(4 - size, page, ppn, TRUE)}
  IN  {e \in lines \cup (IF size > 0 THEN leaf ELSE {}) : e.h >= from}

\* Which sub tables an update with lookup result hit may write, and the lines
\* for them; entries that were not read have valid = 0 and are skipped.
UpdateFrom(first, entries, page, size, ppn) ==
  LET from == IF size = 0 THEN first ELSE Min({first, 4 - size})
      lines == {Line(e[1], page, e[2], FALSE) :
                  e \in {x \in entries : size = 0 \/ x[1] # 4 - size}}
      leaf == {Line(4 - size, page, Within(ppn, 0, size), TRUE)}
  IN  {e \in lines \cup (IF size > 0 THEN leaf ELSE {}) : e.h >= from}

Lowest(entries) == Min({e[1] : e \in entries} \cup {4})

\* task_to_walker_update: 4 stands for NONE.
VsUpdate(w, page) ==
  LET long == s.vtop = 3
      first == CASE w.hit = 3 -> IF long THEN 3 ELSE 4
                 [] w.hit = 2 -> IF long THEN 2 ELSE 3
                 [] w.hit = 1 -> IF Lowest(w.ents) = 1 THEN 1 ELSE 4
                 [] OTHER -> Lowest(w.ents)
  IN  UpdateFrom(first, w.ents, page, w.psz, w.pa)

\* task_to_s2_walker_update.
S2Update(w) ==
  IF TwoStage /\ s.vtop # Bare
  THEN LET first == IF w.s2hit = 0 THEN Lowest(w.s2ents) ELSE w.s2hit + 1
       IN  UpdateFrom(first, w.s2ents, w.gpa, w.gsz, w.pa)
  ELSE {}

Updates(vs, g) == {<<"vs", e>> : e \in vs} \cup {<<"s2", e>> : e \in g}

-----------------------------------------------------------------------------
(* The state of a walk.                                                     *)

NoWalk ==
  [ph |-> "idle",      \* walk_phase, and where the task is before its walk
   io |-> "none",      \* its DDR access: none, sent, back
   addr |-> <<0, 0>>, n |-> 0, buf |-> << >>,  \* read_addr, read_size, read_buf
   ad |-> Bad,         \* ad_pte
   front |-> NoLine,   \* walker_front_*
   lev |-> 0, base |-> 0, l0 |-> 0,   \* level, base_addr, vs_l0_spa_ppn
   hit |-> 0, ents |-> {},            \* walker_hit_level, walker_cache_entries
   glev |-> 0, s2hit |-> 0, s2ents |-> {},
   gpa |-> 0, pa |-> 0, psz |-> 0, gsz |-> 0,  \* sizes as levels of the leaf
   msi |-> FALSE,      \* is_msi
   depth |-> 0]        \* prefetch_depth
Phases == {"VS_WALK", "GS_IMPLICIT", "VS_PTE_READ", "GS_EXPLICIT", "AD_UPDATE"}
Ended == [NoWalk EXCEPT !.ph = "ended"]

\* A page of a group and its PA, 0 until a walk has brought one.
Slot(page, pa) == [page |-> page, pa |-> pa]
Unfilled(t, d) == Slot(Task(<<t, d>>).iova + d, 0)
NoGroup == [st |-> "none", pend |-> 0, main |-> FALSE, fault |-> FALSE,
            huge |-> FALSE, bypass |-> FALSE, slots |-> << >>]

Init ==
  /\ s \in Scenarios
  /\ written = << >> /\ wc = {} /\ s2 = {} /\ upd = {}
  /\ walks = [i \in Ids |-> NoWalk]
  /\ groups = [t \in Tasks |-> NoGroup]
  /\ outstanding = 0
  /\ out = [t \in Tasks |-> NoResult]
  /\ given = {}

\* A result for the PT cache ("pt") or the dedup cache ("dedup"), with the
\* task_id it carries.  The message does not say whether there was a result:
\* reserved.valid is 1 in every line it makes.
Given(to, by, page, pa) == [to |-> to, by |-> by, page |-> page, pa |-> pa]

\* Entries of the table left from page on, and prefetches that stay in it.
InTable(page, depth) == Min({depth, Fan - 1 - Idx(page, 0)})

Send(w) == [w EXCEPT !.io = "sent"]
Read(w, frame, idx) == Send([w EXCEPT !.addr = <<frame, idx>>, !.n = 1])

\* init_gstage_walk: also forgets what the S2 arrays answered before.
InitGstage(w, page) ==
  Read([w EXCEPT !.glev = s.gtop, !.s2hit = 0, !.s2ents = {}],
       s.groot, Idx(page, s.gtop))

\* A lookup of the S2 arrays gave the intermediate line e for page.
FromS2(w, page, e) ==
  Read([w EXCEPT !.s2hit = e.h, !.glev = s.gtop - e.h],
       e.ppn, Idx(page, s.gtop - e.h))

-----------------------------------------------------------------------------
(* From configure_and_route to the PTW.                                     *)

\* configure_and_route: a device without a first stage is asked for MSI here;
\* others look up the walker cache unless MSI must be identified later.
Submit(t) ==
  LET task == s.tasks[t]
      i == <<t, 0>>
  IN  /\ walks[i].ph = "idle"
      /\ IF s.vtop = Bare /\ task.msi /\ task.iova \in s.msipages
         THEN /\ out' = [out EXCEPT ![t] = Msi(task.iova)]
              /\ walks' = [walks EXCEPT ![i] = Ended]
         ELSE /\ walks' = [walks EXCEPT ![i] =
                   [NoWalk EXCEPT !.ph = "routed", !.depth = s.depth,
                      !.front = IF task.msi THEN NoLine ELSE Lookup(wc, task.iova)]]
              /\ UNCHANGED out
      /\ UNCHANGED <<s, written, caches, groups, outstanding, given>>

\* ptw_req_thread.
Admit(t) ==
  /\ walks[<<t, 0>>].ph = "routed"
  /\ outstanding < MaxOutstanding
  /\ outstanding' = outstanding + 1
  /\ walks' = [walks EXCEPT ![<<t, 0>>].ph = "queued"]
  /\ UNCHANGED <<s, written, caches, groups, out, given>>

\* The end of a walk that no group waits for: ptw_release_outstanding and the
\* answer r of the task, results g for the caches, updates u for the walker.
Release(t, r, g, u) ==
  /\ walks' = [walks EXCEPT ![<<t, 0>>] = Ended]
  /\ outstanding' = outstanding - 1
  /\ out' = [out EXCEPT ![t] = r]
  /\ given' = given \cup g
  /\ upd' = upd \cup u
  /\ UNCHANGED <<s, written, wc, s2, groups>>

\* Mutant: the walk gives its place back although the monitor will, too.
JoinGroup_Releases(t, group, ws, u) ==
  /\ walks' = [ws EXCEPT ![<<t, 0>>] = Ended]
  /\ groups' = [groups EXCEPT ![t] = group]
  /\ outstanding' = outstanding - 1
  /\ upd' = upd \cup u
  /\ UNCHANGED <<s, written, wc, s2, out, given>>

\* The end of a walk whose task waits for the monitor.
JoinGroup(t, group, ws, u) ==
  /\ walks' = [ws EXCEPT ![<<t, 0>>] = Ended]
  /\ groups' = [groups EXCEPT ![t] = group]
  /\ upd' = upd \cup u
  /\ UNCHANGED <<s, written, wc, s2, outstanding, out, given>>

\* A walk reads on.
Continue(i, w) ==
  /\ walks' = [walks EXCEPT ![i] = w]
  /\ UNCHANGED <<s, written, caches, groups, outstanding, out, given>>

\* Prefetch walks: they read the VS PTEs after the task's own.
Spawned(t, frame, n) ==
  [i \in Ids |->
     IF i[1] = t /\ i[2] \in 1..n
     THEN Read([NoWalk EXCEPT !.ph = "VS_PTE_READ"],
               frame, Idx(s.tasks[t].iova, 0) + i[2])
     ELSE walks[i]]

\* Mutant: the group waits for its main walk twice.
OpenGroup_Total(t, n) ==
  [NoGroup EXCEPT !.st = "open", !.pend = n + 1, !.bypass = s.tasks[t].bypass,
                  !.slots = [d \in 0..n |-> Unfilled(t, d)]]

OpenGroup(t, n) ==
  [NoGroup EXCEPT !.st = "open", !.pend = n, !.bypass = s.tasks[t].bypass,
                  !.slots = [d \in 0..n |-> Unfilled(t, d)]]

\* Mutant: every page gets the frame of the page that was asked for.
HugeGroup_OneFrame(t, depth, frame, size) ==
  [NoGroup EXCEPT !.st = "open", !.main = TRUE, !.huge = TRUE,
     !.slots = [d \in 0..InTable(s.tasks[t].iova, depth) |->
                  Slot(s.tasks[t].iova + d, frame)]]

\* A page larger than 4 KiB: the group is complete as it is created.
HugeGroup(t, depth, frame, size) ==
  LET page(d) == s.tasks[t].iova + d
  IN  [NoGroup EXCEPT !.st = "open", !.main = TRUE, !.huge = TRUE,
         !.slots = [d \in 0..InTable(s.tasks[t].iova, depth) |->
                      Slot(page(d), Within(frame, page(d), size))]]

-----------------------------------------------------------------------------
(* ptw_req_process_thread: where a walk begins.                             *)

\* First stage Bare: the address is the GPA.  A leaf in the S2 arrays counts
\* as a miss here.
StartBare(t) ==
  LET i == <<t, 0>>
      w == [walks[i] EXCEPT !.ph = "GS_EXPLICIT", !.gpa = Task(i).iova]
      e == LookupS2(w.gpa)
      new == InitGstage(w, w.gpa)
  IN  /\ walks[i].ph = "queued" /\ s.vtop = Bare
      /\ IF TwoStage
         THEN Continue(i, IF e.h > 0 /\ ~e.leaf THEN FromS2(new, w.gpa, e) ELSE new)
         ELSE Release(t, Done(w.gpa), {Given("pt", t, w.gpa, w.gpa)}, {})

\* The front lookup's line, or a better one found since; a device with MSI
\* was not looked up in front.
StartLine(i) ==
  LET front == walks[i].front
      again == LookupVs(Iova(i))
  IN  CASE Task(i).msi -> again
        [] front.h < 3 /\ again.h > front.h -> again
        [] OTHER -> front

Canonical(i) == Iova(i) < Fan^(s.vtop + 1)

StartFault(t) ==
  LET i == <<t, 0>>
  IN  /\ walks[i].ph = "queued" /\ s.vtop # Bare /\ ~Canonical(i)
      /\ Release(t, Fault(PageFault(Task(i).acc)), {Given("pt", t, Iova(i), 0)}, {})

\* A line with the translation of a large page: no DDR access at all.
StartLeaf(t) ==
  LET i == <<t, 0>>
      e == StartLine(i)
      pa == Within(e.ppn, Iova(i), 4 - e.h)
  IN  /\ walks[i].ph = "queued" /\ s.vtop # Bare /\ Canonical(i)
      /\ e.leaf /\ ~Task(i).msi
      /\ IF Task(i).bypass
         THEN Release(t, Done(pa), {}, {})
         ELSE JoinGroup(t, HugeGroup(t, walks[i].depth, pa, 4 - e.h), walks, {})

\* walker_response_to_task: the walk goes on below the table of line e.  A
\* leaf answers a device with MSI, too: level and base_addr keep their 0.
FromLine(w, e) ==
  [w EXCEPT !.hit = e.h,
            !.lev = CASE e.h = 0 -> s.vtop [] e.leaf -> 0 [] OTHER -> 3 - e.h,
            !.base = CASE e.h = 0 -> s.vroot [] e.leaf -> 0 [] OTHER -> e.ppn,
            !.l0 = IF e.h = 3 /\ ~e.leaf THEN e.ppn ELSE 0]

StartWalk(t) ==
  LET i == <<t, 0>>
      e == StartLine(i)
      hit == e.h > 0
      w == FromLine(walks[i], e)
      idx == Idx(Iova(i), w.lev)
      near == hit /\ w.lev = 0 /\ w.depth > 0
      n == InTable(Iova(i), w.depth)
      first == [Read(w, w.base, idx) EXCEPT
                  !.ph = "VS_WALK",
                  !.n = IF near THEN 1 + n ELSE 1,
                  !.depth = IF near THEN n ELSE @]
  IN  /\ walks[i].ph = "queued" /\ s.vtop # Bare /\ Canonical(i)
      /\ ~(e.leaf /\ ~Task(i).msi)
      /\ CASE TwoStage /\ ~hit ->
                Continue(i, [InitGstage(w, w.base) EXCEPT !.ph = "GS_IMPLICIT"])
           [] TwoStage /\ near /\ n > 0 /\ ~Task(i).msi ->
                /\ walks' = [Spawned(t, w.l0, n) EXCEPT ![i] = first]
                /\ groups' = [groups EXCEPT ![t] = OpenGroup(t, n)]
                /\ UNCHANGED <<s, written, caches, outstanding, out, given>>
           [] OTHER -> Continue(i, first)

-----------------------------------------------------------------------------
(* The DDR, seen from the PTW: accesses are served in any order.            *)

Serve(i) ==
  LET w == walks[i]
      words == [k \in 1..w.n |-> Word(<<w.addr[1], w.addr[2] + k - 1>>)]
      write == w.ph = "AD_UPDATE"
  IN  /\ w.io = "sent"
      /\ walks' = [walks EXCEPT ![i].io = "back",
                                ![i].buf = IF write THEN @ ELSE words]
      /\ written' = IF write
                    THEN [a \in DOMAIN written \cup {w.addr} |->
                            IF a = w.addr THEN w.ad ELSE written[a]]
                    ELSE written
      /\ UNCHANGED <<s, caches, groups, outstanding, out, given>>

\* prefetch_group_monitor_thread takes a group when it is complete.
Complete(group) == group.st = "open" /\ group.main /\ group.pend = 0

-----------------------------------------------------------------------------
(* How a walk ends.                                                         *)

\* Mutant: a prefetch without a result is not counted down.
EndPrefetch_OnlyDone(i, slot, u) ==
  /\ walks' = [walks EXCEPT ![i] = Ended]
  /\ IF groups[i[1]].st = "open" /\ slot.pa # 0
     THEN /\ groups' = [groups EXCEPT ![i[1]].slots[i[2]] = slot,
                                      ![i[1]].pend = Max({@ - 1, 0})]
          /\ upd' = upd \cup u
     ELSE UNCHANGED <<groups, upd>>
  /\ UNCHANGED <<s, written, wc, s2, outstanding, out, given>>

\* A prefetch walk ends with a result or without one.  Its group may be gone:
\* a fault of the main walk ends a group early.
EndPrefetch(i, slot, u) ==
  /\ walks' = [walks EXCEPT ![i] = Ended]
  /\ IF groups[i[1]].st = "open"
     THEN /\ groups' = [groups EXCEPT ![i[1]].slots[i[2]] = slot,
                                      ![i[1]].pend = Max({@ - 1, 0})]
          /\ upd' = upd \cup u
     ELSE UNCHANGED <<groups, upd>>
  /\ UNCHANGED <<s, written, wc, s2, outstanding, out, given>>

Fail(i, w, cause) ==
  LET t == i[1]
  IN  CASE IsPrefetch(i) -> EndPrefetch(i, Unfilled(t, i[2]), {})
        [] ~IsPrefetch(i) /\ groups[t].st = "open" ->
             JoinGroup(t, [groups[t] EXCEPT
                             !.main = TRUE, !.pend = 0, !.fault = TRUE,
                             !.slots[0] = Slot(Iova(i), w.gpa)], walks, {})
        [] OTHER ->
             Release(t, Fault(cause), {Given("pt", t, Iova(i), w.pa)}, {})

\* MSI: the placeholders of pages that are no longer prefetched are cleared.
Cleaned(i, w) ==
  IF w.msi THEN {Given("dedup", i[1], Iova(i) + d, 0) :
                   d \in 1..InTable(Iova(i), s.depth)}
  ELSE {}

\* Two stages: the prefetches start when the task's own walk is done.
LateGroup(t, n, slot) == [OpenGroup(t, n) EXCEPT !.main = TRUE, !.slots[0] = slot]

\* One stage: the PTEs that were read along with the task's own.
BurstGroup(i, w) ==
  [NoGroup EXCEPT !.st = "open", !.main = TRUE,
     !.slots = [d \in 0..w.depth |->
                  Slot(Iova(i) + d, IF d = 0 THEN w.pa ELSE w.buf[1 + d].ppn)]]

\* No prefetch: the task is forwarded, its result goes to the caches.
EndAlone(i, w) ==
  LET vs == VsUpdate(w, Iova(i))
      pt == IF w.psz = 0 THEN {Given("pt", i[1], Iova(i), w.pa)} ELSE {}
      dedup == IF Task(i).bypass THEN {}
               ELSE {Given("dedup", i[1], Iova(i), w.pa)} \cup Cleaned(i, w)
  IN  Release(i[1], IF w.msi THEN Msi(w.gpa) ELSE Done(w.pa), pt \cup dedup,
              Updates(vs, IF w.msi THEN {} ELSE S2Update(w)))

\* walk_complete_handler, in the order of its branches.
Finish(i, w) ==
  LET t == i[1]
      vs == VsUpdate(w, Iova(i))
      slot == Slot(Iova(i), w.pa)
      n == InTable(Iova(i), w.depth)
  IN  CASE IsPrefetch(i) -> EndPrefetch(i, slot, Updates({}, S2Update(w)))
        [] ~IsPrefetch(i) /\ groups[t].st = "open" ->
             JoinGroup(t, [groups[t] EXCEPT !.slots[0] = slot, !.main = TRUE],
                       walks, {})
        [] ~IsPrefetch(i) /\ groups[t].st # "open" /\ w.depth > 0 ->
             CASE w.psz > 0 ->
                    JoinGroup(t, HugeGroup(t, w.depth, w.pa, w.psz), walks,
                              Updates(vs, S2Update(w)))
               [] w.psz = 0 /\ TwoStage ->
                    JoinGroup(t, LateGroup(t, n, slot), Spawned(t, w.l0, n),
                              Updates(vs, S2Update(w)))
               [] OTHER -> JoinGroup(t, BurstGroup(i, w), walks, Updates(vs, {}))
        [] OTHER -> EndAlone(i, w)

\* The second stage for a GPA, when the first stage was not Bare: from a leaf
\* in the S2 arrays, from an intermediate line, or from the root.
Explicit(i, w) ==
  LET e == LookupS2(w.gpa)
      ready == [w EXCEPT !.ph = "GS_EXPLICIT"]
  IN  CASE e.leaf -> Finish(i, [w EXCEPT !.s2hit = e.h, !.gsz = 4 - e.h,
                                         !.pa = Within(e.ppn, w.gpa, 4 - e.h)])
        [] ~e.leaf /\ e.h > 0 -> Continue(i, FromS2(ready, w.gpa, e))
        [] OTHER -> Continue(i, InitGstage(ready, w.gpa))

\* A VS leaf that passed its checks gave the GPA.
Translated(i, w) ==
  LET gpa == w.gpa
  IN  CASE Task(i).msi /\ gpa \in s.msipages ->
             Finish(i, [w EXCEPT !.msi = TRUE, !.pa = gpa, !.depth = 0])
        [] ~(Task(i).msi /\ gpa \in s.msipages) /\ TwoStage -> Explicit(i, w)
        [] OTHER -> Finish(i, [w EXCEPT !.pa = gpa])

-----------------------------------------------------------------------------
(* ptw_rsp_process_thread, one action per phase of the walk.                *)

Back(i, phase) == walks[i].ph = phase /\ walks[i].io = "back"
Checks(i) == ~IsPrefetch(i) /\ Task(i).check
Writes(i) == ~IsPrefetch(i) /\ Task(i).acc = "write"
Pte(i) == walks[i].buf[1]
Idle(w) == [w EXCEPT !.io = "none", !.addr = <<0, 0>>, !.n = 0]

AdMissing(i) == \/ "A" \notin Pte(i).p
                \/ Writes(i) /\ "D" \notin Pte(i).p

VsFault(i, w) == Fail(i, w, PageFault(Task(i).acc))

VsLeaf(i, w, pte) ==
  LET leaf == [w EXCEPT !.psz = w.lev, !.gpa = Within(pte.ppn, Iova(i), w.lev)]
      set == pte.p \cup {"A"} \cup (IF Writes(i) THEN {"D"} ELSE {})
  IN  IF VsForbids(Task(i), pte, w.lev) \/ (AdMissing(i) /\ ~s.sade)
      THEN VsFault(i, w)
      ELSE IF AdMissing(i)
      THEN Continue(i, [Read(leaf, w.base, Idx(Iova(i), w.lev)) EXCEPT
                          !.ph = "AD_UPDATE", !.ad = [pte EXCEPT !.p = set]])
      ELSE Translated(i, leaf)

\* A pointer: its table is read, in two stages after its own translation.
\* With prefetch the last table is read up to its end.
VsTable(i, w, pte) ==
  LET below == w.lev - 1
      last == below = 0 /\ w.depth > 0
      n == InTable(Iova(i), w.depth)
      next == [w EXCEPT !.lev = below, !.base = pte.ppn]
  IN  CASE below < 0 -> VsFault(i, w)
        [] below >= 0 /\ TwoStage ->
             Continue(i, [InitGstage(next, pte.ppn) EXCEPT !.ph = "GS_IMPLICIT"])
        [] OTHER ->
             Continue(i, [Read(next, pte.ppn, Idx(Iova(i), below)) EXCEPT
                            !.ents = @ \cup {<<4 - w.lev, pte.ppn>>},
                            !.n = IF last THEN 1 + n ELSE 1,
                            !.depth = IF last THEN n ELSE @])

VsWalk(i) ==
  LET w == Idle(walks[i])
      pte == Pte(i)
  IN  /\ Back(i, "VS_WALK")
      /\ CASE pte.k = "bad" -> VsFault(i, w)
           [] pte.k = "leaf" -> VsLeaf(i, w, pte)
           [] OTHER -> VsTable(i, w, pte)

\* Every fault here has cause 21, whatever the access was.
GsImplicit(i) ==
  LET w == Idle(walks[i])
      pte == Pte(i)
      fault == Fail(i, w, GuestFault("read"))
      spa == Within(pte.ppn, w.base, w.glev)
      entry == IF w.lev < s.vtop THEN {<<3 - w.lev, spa>>} ELSE {}
  IN  /\ Back(i, "GS_IMPLICIT")
      /\ CASE pte.k = "bad" -> fault
           [] pte.k = "leaf" ->
                IF "R" \notin pte.p \/ ("A" \notin pte.p /\ ~s.gade)
                THEN fault
                ELSE Continue(i, [Read(w, spa, Idx(Iova(i), w.lev)) EXCEPT
                                    !.ph = "VS_WALK",
                                    !.l0 = IF w.lev = 0 THEN spa ELSE @,
                                    !.ents = @ \cup entry])
           [] OTHER ->
                IF w.glev = 0 THEN fault
                ELSE Continue(i, [Read(w, pte.ppn, Idx(w.base, w.glev - 1))
                                    EXCEPT !.glev = @ - 1])

\* A prefetch reads its VS PTE and checks nothing but its validity.
VsPteRead(i) ==
  LET w == Idle(walks[i])
  IN  /\ Back(i, "VS_PTE_READ")
      /\ IF Pte(i).k = "bad" THEN EndPrefetch(i, Unfilled(i[1], i[2]), {})
         ELSE Explicit(i, [w EXCEPT !.gpa = Pte(i).ppn])

\* Mutant: the second stage does not check the permission.
GsForbids_NoAccess(i, pte, l) ==
  \/ AdMissing(i) /\ ~s.gade
  \/ Misaligned(pte.ppn, l)

GsForbids(i, pte, l) ==
  \/ Checks(i) /\ Right(Task(i).acc) \notin pte.p
  \/ AdMissing(i) /\ ~s.gade
  \/ Misaligned(pte.ppn, l)

GsExplicit(i) ==
  LET w == Idle(walks[i])
      pte == Pte(i)
      fault == Fail(i, w, GuestFault(Task(i).acc))
  IN  /\ Back(i, "GS_EXPLICIT")
      /\ CASE pte.k = "bad" -> fault
           [] pte.k = "leaf" ->
                IF GsForbids(i, pte, w.glev) THEN fault
                ELSE Finish(i, [w EXCEPT !.gsz = w.glev,
                                         !.pa = Within(pte.ppn, w.gpa, w.glev)])
           [] OTHER ->
                IF w.glev = 0 THEN fault
                ELSE Continue(i, [Read(w, pte.ppn, Idx(w.gpa, w.glev - 1)) EXCEPT
                                    !.glev = @ - 1,
                                    !.s2ents = @ \cup {<<4 - w.glev, pte.ppn>>}])

\* After an A/D update MSI is not identified, and a leaf in the S2 arrays is
\* taken for a table.
AdUpdate(i) ==
  LET w == [Idle(walks[i]) EXCEPT !.ad = Bad]
      new == [InitGstage(w, w.gpa) EXCEPT !.ph = "GS_EXPLICIT"]
      e == LookupS2(w.gpa)
  IN  /\ Back(i, "AD_UPDATE")
      /\ IF TwoStage
         THEN Continue(i, IF e.h > 0 THEN FromS2(new, w.gpa, e) ELSE new)
         ELSE Finish(i, [w EXCEPT !.pa = w.gpa])

Handle(i) ==
  VsWalk(i) \/ GsImplicit(i) \/ VsPteRead(i) \/ GsExplicit(i) \/ AdUpdate(i)

-----------------------------------------------------------------------------
(* prefetch_group_monitor_thread and agg_flush_process_thread.              *)

Take(t) ==
  /\ Complete(groups[t])
  /\ outstanding' = outstanding - 1
  /\ groups' = [groups EXCEPT ![t].st = "taken"]
  /\ UNCHANGED <<s, written, caches, walks, out, given>>

\* Every slot is written, also one that a failed walk left at 0: the dedup
\* chain marks its tasks done with the PA it is given, even for a group with a
\* fault.  The result of page 0 is skipped.
Flush(t) ==
  LET g == groups[t]
      slots == {g.slots[d] : d \in DOMAIN g.slots}
      to == (IF g.bypass THEN {} ELSE {"dedup"})
              \cup (IF g.fault \/ g.huge THEN {} ELSE {"pt"})
      mine == g.slots[0]
  IN  /\ g.st = "taken"
      /\ groups' = [groups EXCEPT ![t] = NoGroup]
      /\ given' = given \cup {Given(k, t, x.page, x.pa) :
                                k \in to, x \in {y \in slots : y.page # 0}}
      /\ IF (IF g.bypass THEN ~g.fault ELSE mine.page # 0 /\ ~s.tasks[t].bypass)
         THEN out' = [out EXCEPT ![t] = Done(mine.pa)]
         ELSE UNCHANGED out
      /\ UNCHANGED <<s, written, caches, walks, outstanding>>

-----------------------------------------------------------------------------
(* The walker cache applies the updates of its RAM queues.                  *)

UpdateVs(e) == wc' \in Insertions(wc, e) /\ UNCHANGED s2
UpdateS2(e) == s2' \in Insertions(s2, e) /\ UNCHANGED wc

Update ==
  \E u \in upd :
    /\ upd' = upd \ {u}
    /\ \/ u[1] = "vs" /\ UpdateVs(u[2])
       \/ u[1] = "s2" /\ UpdateS2(u[2])
    /\ UNCHANGED <<s, written, walks, groups, outstanding, out, given>>

Start(t) == StartBare(t) \/ StartFault(t) \/ StartLeaf(t) \/ StartWalk(t)

Next ==
  \/ \E t \in Tasks : Submit(t) \/ Admit(t) \/ Start(t) \/ Take(t) \/ Flush(t)
  \/ \E i \in Ids : Serve(i) \/ Handle(i)
  \/ Update

Spec == Init /\ [][Next]_vars

\* Every thread goes on as long as it can, and the DDR answers every access;
\* when an update reaches the walker RAMs is left open.
Fairness ==
  /\ WF_vars(\E t \in Tasks : Submit(t)) /\ WF_vars(\E t \in Tasks : Admit(t))
  /\ WF_vars(\E t \in Tasks : Start(t))
  /\ WF_vars(\E t \in Tasks : Take(t)) /\ WF_vars(\E t \in Tasks : Flush(t))
  /\ WF_vars(\E i \in Ids : Serve(i)) /\ WF_vars(\E i \in Ids : Handle(i))
FairSpec == Spec /\ Fairness

-----------------------------------------------------------------------------
(* Correctness.                                                             *)

\* The path of page through the VS tables: the PTE at level l, and the host
\* frame it leads to.
VsPte(page, l) ==
  LET neutral == [acc |-> "read", check |-> FALSE]
      host(f) == RefSecond(f, neutral, TRUE).pa
      pte[k \in l..s.vtop] ==
        LET table == IF k = s.vtop THEN s.vroot ELSE pte[k + 1].ppn
        IN  IF k < s.vtop /\ pte[k + 1].k # "table" THEN Bad
            ELSE Word(<<host(table), Idx(page, k)>>)
  IN  pte[l]
GsPte(page, l) ==
  LET pte[k \in l..s.gtop] ==
        IF k < s.gtop /\ pte[k + 1].k # "table" THEN Bad
        ELSE Word(<<IF k = s.gtop THEN s.groot ELSE pte[k + 1].ppn, Idx(page, k)>>)
  IN  pte[l]

\* An access that no permission of a leaf can forbid.
Neutral(task, page) ==
  [task EXCEPT !.iova = page, !.acc = "read", !.check = FALSE,
               !.priv = "S", !.sum = TRUE]

\* Every variable has its type, and no more than PTW_MAX_OUTSTANDING_TASKS
\* tasks are in the PTW.
TypeOK ==
  /\ s \in Scenarios /\ outstanding \in 0..MaxOutstanding
  /\ \A u \in upd : u[1] \in {"vs", "s2"} /\ u[2].h \in 1..3
  /\ \A e \in wc \cup s2 : e.h \in 1..3
  /\ \A i \in Ids : /\ walks[i].ph \in Phases \cup {"idle", "routed", "queued", "ended"}
                    /\ walks[i].io \in {"none", "sent", "back"}
                    /\ walks[i].n \in 0..s.depth + 1 /\ walks[i].lev \in 0..3
  /\ \A t \in Tasks : groups[t].st \in {"none", "open", "taken"}
                    /\ groups[t].pend \in 0..s.depth

\* Lines of the walker cache, and lines on their way to it, say what the page
\* tables say: walks of other pages, faults and A/D updates in between mix in
\* the same arrays (task_to_walker_update, update_entry_ram, update_s2).
CachesRight ==
  LET known == upd \cup {<<"vs", e>> : e \in wc} \cup {<<"s2", e>> : e \in s2}
  IN  \A u \in known :
        LET e == u[2]
            l == 4 - e.h
            page == e.tag * Fan^l
            pte == IF u[1] = "vs" THEN VsPte(page, l) ELSE GsPte(page, l)
            neutral == [acc |-> "read", check |-> FALSE]
        IN  /\ pte.k = (IF e.leaf THEN "leaf" ELSE "table")
            /\ e.ppn = IF u[1] = "vs"
                       THEN RefSecond(pte.ppn, neutral, TRUE).pa ELSE pte.ppn

\* Cached lines, bursts, concurrent walks and prefetches change nothing: each
\* task is forwarded with the result of the sequential translation of
\* iommu_two_stage_trans.cc.
SameAsReference ==
  \A t \in Tasks : out[t] # NoResult => out[t] = RefTranslate(s.tasks[t])

\* What the PT cache and the suspended tasks are given for a page is what the
\* sequential translation of that page gives, whichever task walked, in its
\* own walk, a burst, a large page or a prefetch in another task's shadow.
\* Two kinds of fills are exempt, as the code gets them wrong: those of a task
\* that faults, and those of a page that has no translation (NoInvalidFill).
Translation(g) == RefTranslate(Neutral(s.tasks[g.by], g.page))
FilledRight ==
  \A g \in given :
    RefTranslate(s.tasks[g.by]).st # "fault" /\ Translation(g).st # "fault"
      => Translation(g) \in {Done(g.pa), Msi(g.pa)}

\* ptw_outstanding_task_count counts each task once, from its admission until
\* its walk ended alone or the monitor took its group: main walk and
\* prefetches end in any order (iommu_perf_ptw.cc:96, 2535-2745, 2880-2985).
OutstandingMatches == TypeOK /\
  outstanding = Cardinality({t \in Tasks :
                   walks[<<t, 0>>].ph \in Phases \cup {"queued"} \/ groups[t].st = "open"})

\* A group waits for exactly the prefetch walks that still run, so that it is
\* neither taken before the last of them nor kept for ever.
GroupCountsWalks ==
  \A t \in Tasks :
    groups[t].st = "open" /\ ~groups[t].fault =>
      groups[t].pend = Cardinality({d \in 1..s.depth : walks[<<t, d>>].ph \in Phases})

\* Every task sent to the PTW leaves it with a result, also one that waits
\* for PTW_MAX_OUTSTANDING_TASKS or for the prefetches of its group.
EveryWalkEnds ==
  \A t \in UNION {DOMAIN sc.tasks : sc \in Scenarios} :
    (t \in Tasks /\ walks[<<t, 0>>].ph = "routed")
      ~> (t \in Tasks => out[t] # NoResult)

\* An invalid result must not be flushed as a successful translation (the
\* assertion of agg_flush_process_thread, iommu_perf_ptw.cc:3016): a task that
\* the page tables fault is never answered with a physical address.
NoFaultAnswered ==
  \A t \in Tasks : out[t].st = "done" => RefTranslate(s.tasks[t]).st # "fault"

\* An invalid result must neither be written to the PT cache nor wake a task
\* that waits (the assertion of agg_flush_process_thread on the PTEs of every
\* result, iommu_perf_ptw.cc:3031): no page without a translation is filled.
NoInvalidFill == \A g \in given : Translation(g).st # "fault"
=============================================================================
