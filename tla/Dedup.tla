------------------------------- MODULE Dedup -------------------------------
(***************************************************************************)
(* Deduplication and prefetch of page table walks.  A task that misses the *)
(* PT cache comes here.  The first task for a page becomes the owner of a  *)
(* line and walks; later tasks for the page wait in a chain of buffer      *)
(* entries that hangs from the line; the owner's group refreshes its page  *)
(* and the D pages after it, for which placeholder lines were inserted.    *)
(*                                                                         *)
(* The PT cache is left out: a task may miss it at any time, since a line  *)
(* of it may be evicted or invalidated.  Messages and results are what the *)
(* refresh of a line can tell apart.                                       *)
(***************************************************************************)
EXTENDS Integers, SequencesExt

CONSTANTS LAST_PAGE,         \* last page of an L0 page table (511)
          MaxTasks,          \* bound: tasks that arrive
          PREFETCH_DEPTH,    \* PT_DEDUP_PREFETCH_DEPTH
          BUFFER_SIZE,       \* PT_DEDUP_BUFFER_SIZE
          RAMS, WAYS,        \* dedup cache: RAMs of one set each
          INSIDE_DEPTH, UPDATE_DEPTH, HASH_DEPTH, RAM_DEPTH,   \* FIFO depths
          PTW_MAX,           \* PTW_MAX_OUTSTANDING_TASKS
          Unmapped,          \* pages whose walk faults
          FirstTable,        \* TRUE: page 0 is IOVA 0
          TwoStage,          \* TRUE: G-stage enabled; FALSE: first stage only
          Prompt             \* TRUE: a walk outlasts the dedup pipeline

Pages == 0 .. LAST_PAGE
Tasks == 1 .. MaxTasks
Idx == 1 .. BUFFER_SIZE
Rams == 0 .. RAMS - 1

ASSUME SizeAssumption ==
  /\ LAST_PAGE \in Nat /\ MaxTasks \in Nat /\ PREFETCH_DEPTH \in Nat
  /\ BUFFER_SIZE \in Nat \ {0} /\ RAMS \in Nat \ {0} /\ WAYS \in Nat \ {0}
  /\ INSIDE_DEPTH \in Nat /\ UPDATE_DEPTH \in Nat \ {0} /\ HASH_DEPTH \in Nat \ {0}
  /\ RAM_DEPTH \in Nat \ {0} /\ PTW_MAX \in Nat \ {0}
ASSUME ModeAssumption ==
  Unmapped \subseteq Pages /\ FirstTable \in BOOLEAN /\ TwoStage \in BOOLEAN /\ Prompt \in BOOLEAN

VARIABLES
  page,          \* the page a task asks for
  request_fifo, inside_fifo, update_fifo, next_is_request,   \* scheduler
  hash_in, ram_fifo,
  worker,        \* dedup_ram_worker_thread of each RAM
  line,          \* the valid lines of the dedup cache, by page
  entry,         \* the dedup buffer
  ptw_fifo, bypass, walking,    \* pt_cache_to_ptw_fifo, dedup_bypass, PTW
  rsp_write,     \* the update ptw_rsp_process_thread is writing
  agg,           \* groups collected by the monitor and not yet flushed
  answers        \* what each task was forwarded with

pipeVars == <<request_fifo, inside_fifo, update_fifo, next_is_request, hash_in>>
cacheVars == <<ram_fifo, worker, line, entry>>
walkVars == <<ptw_fifo, bypass, walking, rsp_write, agg>>
vars == <<page, pipeVars, cacheVars, walkVars, answers>>

NoTask == 0
NoPage == -1
NoIdx == 0
Results == {"ok", "none", "gpa", "fault"}
Message == [kind : {"request", "prefetch", "update"}, page : Pages, by : Tasks, result : Results]
Request(t) == [kind |-> "request", page |-> page[t], by |-> t, result |-> "none"]
Prefetch(t, p) == [kind |-> "prefetch", page |-> p, by |-> t, result |-> "none"]
Update(t, p, res) == [kind |-> "update", page |-> p, by |-> t, result |-> res]

RamOf(p) == p % RAMS
FreeIdx == {i \in Idx : entry[i].task = NoTask}
FirstFree == CHOOSE i \in FreeIdx : \A j \in FreeIdx : i <= j

\* Variant: one task too many.
PtwHasRoom_OffByOne == Cardinality(walking) <= PTW_MAX
PtwHasRoom == Cardinality(walking) < PTW_MAX

\* A group does not leave the L0 page table of its main page.
GroupDepth(p) == Min({PREFETCH_DEPTH, LAST_PAGE - p})

Forward(t, res) == answers' = [answers EXCEPT ![t] = Append(@, res)]

-----------------------------------------------------------------------------
\* A task that missed the PT cache, written by the PT RAM worker.
Arrive(t, p) ==
  /\ page[t] = NoPage /\ \A u \in 1 .. t - 1 : page[u] # NoPage
  /\ page' = [page EXCEPT ![t] = p]
  /\ request_fifo' = Append(request_fifo, [Request(t) EXCEPT !.page = p])
  /\ UNCHANGED <<inside_fifo, update_fifo, next_is_request, hash_in, cacheVars,
                 walkVars, answers>>

\* dedup_scheduler_thread: requests and updates alternate; among the requests
\* a placeholder goes first.
AnyRequest == request_fifo # << >> \/ inside_fifo # << >>
ServesRequest == AnyRequest /\ (update_fifo = << >> \/ next_is_request)

Schedule ==
  /\ Len(hash_in) < HASH_DEPTH
  /\ \/ /\ ServesRequest /\ inside_fifo # << >>
        /\ hash_in' = Append(hash_in, Head(inside_fifo))
        /\ inside_fifo' = Tail(inside_fifo)
        /\ UNCHANGED <<request_fifo, update_fifo>>
     \/ /\ ServesRequest /\ inside_fifo = << >>
        /\ hash_in' = Append(hash_in, Head(request_fifo))
        /\ request_fifo' = Tail(request_fifo)
        /\ UNCHANGED <<inside_fifo, update_fifo>>
     \/ /\ ~ServesRequest /\ update_fifo # << >>
        /\ hash_in' = Append(hash_in, Head(update_fifo))
        /\ update_fifo' = Tail(update_fifo)
        /\ UNCHANGED <<request_fifo, inside_fifo>>
  /\ next_is_request' = ~ServesRequest
  /\ UNCHANGED <<page, cacheVars, walkVars, answers>>

\* dedup_hash_process_thread: a full RAM FIFO holds up everything behind.
Dispatch ==
  LET r == RamOf(Head(hash_in).page)
  IN /\ hash_in # << >> /\ Len(ram_fifo[r]) < RAM_DEPTH
     /\ ram_fifo' = [ram_fifo EXCEPT ![r] = Append(@, Head(hash_in))]
     /\ hash_in' = Tail(hash_in)
     /\ UNCHANGED <<page, request_fifo, inside_fifo, update_fifo, next_is_request,
                    worker, line, entry, walkVars, answers>>

-----------------------------------------------------------------------------
(* The dedup cache                                                          *)

IdleWorker == [at |-> "idle", by |-> NoTask, page |-> NoPage, result |-> "none", cur |-> NoIdx]
LinesOf(r) == {p \in DOMAIN line : RamOf(p) = r}
Placeholders(r) == {p \in LinesOf(r) : ~line[p].is_req}
HasFreeWay(r) == Cardinality(LinesOf(r)) < WAYS
HasWritableWay(r) == HasFreeWay(r) \/ Placeholders(r) # {}

WithLine(ls, p, l) == [q \in DOMAIN ls \union {p} |-> IF q = p THEN l ELSE ls[q]]
Without(ls, p) == [q \in DOMAIN ls \ {p} |-> ls[q]]

\* An empty way, or else a placeholder picked at random.
Insert(r, p, l) ==
  IF HasFreeWay(r) THEN line' = WithLine(line, p, l)
  ELSE \E victim \in Placeholders(r) : line' = WithLine(Without(line, victim), p, l)

\* The head of a RAM's FIFO, served when the worker is free.
Serves(r, kind) ==
  /\ worker[r].at = "idle" /\ ram_fifo[r] # << >> /\ Head(ram_fifo[r]).kind = kind
  /\ ram_fifo' = [ram_fifo EXCEPT ![r] = Tail(@)]

\* A line of the page is there and the buffer has room: the task waits at
\* the end of the chain.  Variant: the head keeps its old tail.
Suspend_OldTail(r) ==
  LET m == Head(ram_fifo[r])
      head == line[m.page].head
  IN /\ Serves(r, "request")
     /\ m.page \in DOMAIN line /\ line[m.page].is_req /\ FreeIdx # {}
     /\ entry' = [i \in Idx |->
          CASE i = FirstFree        -> [task |-> m.by, next |-> NoIdx, tail |-> NoIdx]
            [] i = entry[head].tail -> [entry[i] EXCEPT !.next = FirstFree]
            [] OTHER                -> entry[i]]
     /\ UNCHANGED <<page, pipeVars, worker, line, walkVars, answers>>

Suspend(r) ==
  LET m    == Head(ram_fifo[r])
      head == line[m.page].head
      last == entry[head].tail
      linked(i) == [entry[i] EXCEPT !.next = IF i = last THEN FirstFree ELSE @,
                                    !.tail = IF i = head THEN FirstFree ELSE @]
  IN /\ Serves(r, "request")
     /\ m.page \in DOMAIN line /\ line[m.page].is_req /\ FreeIdx # {}
     /\ entry' = [i \in Idx |-> IF i = FirstFree
                                THEN [task |-> m.by, next |-> NoIdx, tail |-> NoIdx]
                                ELSE linked(i)]
     /\ UNCHANGED <<page, pipeVars, worker, line, walkVars, answers>>

\* A placeholder becomes a request line whose owner waits for the group that
\* prefetches the page.  Variant: the owner is taken for a walker.
NewHead(i, t) == entry' = [entry EXCEPT ![i] = [task |-> t, next |-> NoIdx, tail |-> i]]
ReqLine(i, t, suspended) == [is_req |-> TRUE, head |-> i, owner |-> t, suspended |-> suspended]

Upgrade_Walker(r) ==
  LET m == Head(ram_fifo[r])
  IN /\ Serves(r, "request")
     /\ m.page \in DOMAIN line /\ ~line[m.page].is_req /\ FreeIdx # {}
     /\ NewHead(FirstFree, m.by)
     /\ line' = [line EXCEPT ![m.page] = ReqLine(FirstFree, m.by, FALSE)]
     /\ UNCHANGED <<page, pipeVars, worker, walkVars, answers>>

Upgrade(r) ==
  LET m == Head(ram_fifo[r])
  IN /\ Serves(r, "request")
     /\ m.page \in DOMAIN line /\ ~line[m.page].is_req /\ FreeIdx # {}
     /\ NewHead(FirstFree, m.by)
     /\ line' = [line EXCEPT ![m.page] = ReqLine(FirstFree, m.by, TRUE)]
     /\ UNCHANGED <<page, pipeVars, worker, walkVars, answers>>

\* The first task of a page takes a line and goes to the PTW; placeholders
\* that do not fit in dedup_inside_request_fifo are dropped.
Own(r) ==
  LET m == Head(ram_fifo[r])
      ahead == [d \in 1 .. GroupDepth(m.page) |-> Prefetch(m.by, m.page + d)]
  IN /\ Serves(r, "request")
     /\ m.page \notin DOMAIN line /\ HasWritableWay(r) /\ FreeIdx # {}
     /\ NewHead(FirstFree, m.by)
     /\ Insert(r, m.page, ReqLine(FirstFree, m.by, FALSE))
     /\ inside_fifo' = SubSeq(inside_fifo \o ahead, 1,
                              Min({INSIDE_DEPTH, Len(inside_fifo) + Len(ahead)}))
     /\ ptw_fifo' = Append(ptw_fifo, m.by)
     /\ UNCHANGED <<page, request_fifo, update_fifo, next_is_request, hash_in, worker,
                    bypass, walking, rsp_write, agg, answers>>

GoAround(t) == ptw_fifo' = Append(ptw_fifo, t) /\ bypass' = bypass \union {t}

\* Every way holds a request: the task walks with neither line nor entry.
ConflictBypass(r) ==
  LET m == Head(ram_fifo[r])
  IN /\ Serves(r, "request")
     /\ m.page \notin DOMAIN line /\ ~HasWritableWay(r)
     /\ GoAround(m.by)
     /\ UNCHANGED <<page, pipeVars, worker, line, entry, walking, rsp_write, agg, answers>>

\* The buffer is full: the worker waits until the PTW has room, then the task
\* walks on its own, even if an entry was freed meanwhile.
NeedsEntry(r) == LET p == Head(ram_fifo[r]).page
                 IN FreeIdx = {} /\ (p \in DOMAIN line \/ HasWritableWay(r))

BufferFull(r) ==
  LET m == Head(ram_fifo[r])
  IN /\ Serves(r, "request") /\ NeedsEntry(r)
     /\ IF PtwHasRoom
        THEN GoAround(m.by) /\ UNCHANGED worker
        ELSE /\ worker' = [worker EXCEPT ![r] = [@ EXCEPT !.at = "full", !.by = m.by]]
             /\ UNCHANGED <<ptw_fifo, bypass>>
     /\ UNCHANGED <<page, pipeVars, line, entry, walking, rsp_write, agg, answers>>

BypassAfterWait(r) ==
  /\ worker[r].at = "full" /\ PtwHasRoom
  /\ GoAround(worker[r].by)
  /\ worker' = [worker EXCEPT ![r] = IdleWorker]
  /\ UNCHANGED <<page, pipeVars, ram_fifo, line, entry, walking, rsp_write, agg, answers>>

\* A placeholder is inserted unless the page has a line or no way is writable.
Placehold(r) ==
  LET m == Head(ram_fifo[r])
  IN /\ Serves(r, "prefetch")
     /\ IF m.page \notin DOMAIN line /\ HasWritableWay(r)
        THEN Insert(r, m.page, [is_req |-> FALSE, head |-> NoIdx, owner |-> NoTask,
                                suspended |-> FALSE])
        ELSE UNCHANGED line
     /\ UNCHANGED <<page, pipeVars, worker, entry, walkVars, answers>>

\* The result of another group does not refresh a line whose owner walks.
\* Variant: it does.
MayRefresh_Anyone(l, t) == TRUE
MayRefresh(l, t) == l.suspended \/ l.owner = t

Refresh(r) ==
  LET m == Head(ram_fifo[r])
      l == line[m.page]
  IN /\ Serves(r, "update")
     /\ \/ /\ m.page \in DOMAIN line /\ ~l.is_req
           /\ line' = Without(line, m.page)
           /\ UNCHANGED worker
        \/ /\ m.page \in DOMAIN line /\ l.is_req /\ MayRefresh(l, m.by)
           /\ worker' = [worker EXCEPT ![r] = [at |-> "flush", by |-> m.by, page |-> m.page,
                                               result |-> m.result, cur |-> l.head]]
           /\ UNCHANGED line
        \/ /\ m.page \in DOMAIN line => l.is_req /\ ~MayRefresh(l, m.by)
           /\ UNCHANGED <<line, worker>>
     /\ UNCHANGED <<page, pipeVars, entry, walkVars, answers>>

\* dedup_flush_chain_cb, one entry: it is freed, then its task is forwarded,
\* which may block.  The line goes when the chain is done.  Variant: only the
\* owner, at the head, is forwarded.
FreeEntry == [task |-> NoTask, next |-> NoIdx, tail |-> NoIdx]
FlushEntry_HeadOnly(r) ==
  LET w == worker[r]
  IN /\ w.at = "flush"
     /\ entry' = [entry EXCEPT ![w.cur] = FreeEntry]
     /\ Forward(entry[w.cur].task, w.result)
     /\ line' = Without(line, w.page)
     /\ worker' = [worker EXCEPT ![r] = IdleWorker]
     /\ UNCHANGED <<page, pipeVars, ram_fifo, walkVars>>

FlushEntry(r) ==
  LET w == worker[r]
      e == entry[w.cur]
  IN /\ w.at = "flush"
     /\ entry' = [entry EXCEPT ![w.cur] = FreeEntry]
     /\ Forward(e.task, w.result)
     /\ IF e.next = NoIdx
        THEN line' = Without(line, w.page) /\ worker' = [worker EXCEPT ![r] = IdleWorker]
        ELSE worker' = [worker EXCEPT ![r].cur = e.next] /\ UNCHANGED line
     /\ UNCHANGED <<page, pipeVars, ram_fifo, walkVars>>

-----------------------------------------------------------------------------
(* The PTW                                                                  *)

PtwStart ==
  /\ ptw_fifo # << >> /\ PtwHasRoom
  /\ walking' = walking \union {Head(ptw_fifo)}
  /\ ptw_fifo' = Tail(ptw_fifo)
  /\ UNCHANGED <<page, pipeVars, cacheVars, bypass, rsp_write, agg, answers>>

\* Only a two-stage group is marked as the group of a bypassed task.
MarkedBypass(t) == TwoStage /\ t \in bypass
ResultOf(p) == IF p \in Unmapped THEN "none" ELSE "ok"

\* What the group of t writes to the dedup cache: nothing for IOVA 0, which
\* can only be the main page; the group of a bypassed task leaves the cache
\* alone.
Group(t, results) ==
  LET all == [d \in DOMAIN results |-> Update(t, page[t] + d - 1, results[d])]
  IN [main |-> t, bypass |-> MarkedBypass(t), fault |-> page[t] \in Unmapped,
      writes |-> IF MarkedBypass(t) THEN << >>
                 ELSE IF FirstTable /\ page[t] = 0 THEN Tail(all) ELSE all]

Released(t) == t \in walking /\ rsp_write = << >> /\ walking' = walking \ {t}

\* The walk of a task with prefetch: the last result of the group completes
\* it and the monitor collects it.
GroupEnds(t) ==
  /\ Released(t) /\ page[t] \notin Unmapped /\ GroupDepth(page[t]) > 0
  /\ agg' = Append(agg, Group(t, [d \in 1 .. GroupDepth(page[t]) + 1 |->
                                     ResultOf(page[t] + d - 1)]))
  /\ UNCHANGED <<page, pipeVars, cacheVars, ptw_fifo, bypass, rsp_write, answers>>

\* The last page of a page table has nothing to prefetch: its owner's chain
\* is refreshed at once, a bypassed task is forwarded.  Variant: the owner is
\* forwarded as well as flushed.
LastPageEnds_Twice(t) ==
  /\ Released(t) /\ page[t] \notin Unmapped /\ GroupDepth(page[t]) = 0
  /\ Forward(t, "ok")
  /\ IF t \in bypass THEN UNCHANGED rsp_write
     ELSE rsp_write' = <<Update(t, page[t], "ok")>>
  /\ UNCHANGED <<page, pipeVars, cacheVars, ptw_fifo, bypass, agg>>

LastPageEnds(t) ==
  /\ Released(t) /\ page[t] \notin Unmapped /\ GroupDepth(page[t]) = 0
  /\ IF t \in bypass
     THEN Forward(t, "ok") /\ UNCHANGED rsp_write
     ELSE rsp_write' = <<Update(t, page[t], "ok")>> /\ UNCHANGED answers
  /\ UNCHANGED <<page, pipeVars, cacheVars, ptw_fifo, bypass, agg>>

\* ptw_rsp_process_thread does nothing else while dedup_update_fifo is full.
RspWrite ==
  /\ rsp_write # << >> /\ Len(update_fifo) < UPDATE_DEPTH
  /\ update_fifo' = update_fifo \o rsp_write
  /\ rsp_write' = << >>
  /\ UNCHANGED <<page, request_fifo, inside_fifo, next_is_request, hash_in, cacheVars,
                 ptw_fifo, bypass, walking, agg, answers>>

\* The main walk faults before its group exists: the task is forwarded.
FaultAlone(t) ==
  /\ Released(t) /\ page[t] \in Unmapped
  /\ Forward(t, "fault")
  /\ UNCHANGED <<page, pipeVars, cacheVars, ptw_fifo, bypass, rsp_write, agg>>

\* The main walk faults with its prefetches already spawned: the group
\* completes with what they have brought so far and the GPA as main result.
FaultInGroup(t) ==
  /\ Released(t) /\ page[t] \in Unmapped /\ TwoStage /\ GroupDepth(page[t]) > 0
  /\ \E done \in SUBSET (2 .. GroupDepth(page[t]) + 1) :
       agg' = Append(agg, Group(t, [d \in 1 .. GroupDepth(page[t]) + 1 |->
                CASE d = 1 -> "gpa" [] d \in done -> ResultOf(page[t] + d - 1)
                  [] OTHER -> "none"]))
  /\ UNCHANGED <<page, pipeVars, cacheVars, ptw_fifo, bypass, rsp_write, answers>>

\* agg_flush_process_thread, 200 ns after the group ended.  With Prompt that
\* is after the group's placeholders went through the dedup pipeline.
OnItsWay(t) == \E m \in ToSet(inside_fifo) \union ToSet(hash_in)
                        \union UNION {ToSet(ram_fifo[r]) : r \in Rams} :
                  m.kind = "prefetch" /\ m.by = t

AggWrite ==
  LET g == Head(agg)
  IN /\ agg # << >> /\ g.writes # << >>
     /\ Prompt => ~OnItsWay(g.main)
     /\ Len(update_fifo) < UPDATE_DEPTH
     /\ update_fifo' = Append(update_fifo, Head(g.writes))
     /\ agg' = IF Len(g.writes) = 1 THEN Tail(agg)
               ELSE <<[g EXCEPT !.writes = Tail(@)]>> \o Tail(agg)
     /\ UNCHANGED <<page, request_fifo, inside_fifo, next_is_request, hash_in, cacheVars,
                    ptw_fifo, bypass, walking, rsp_write, answers>>

\* The main task of a bypassed group is forwarded, unless the group faulted.
\* Variant: it is taken for flushed through its chain.
AggBypass_Flushed ==
  /\ agg # << >> /\ Head(agg).writes = << >>
  /\ agg' = Tail(agg)
  /\ UNCHANGED <<page, pipeVars, cacheVars, ptw_fifo, bypass, walking, rsp_write, answers>>

AggBypass ==
  LET g == Head(agg)
  IN /\ agg # << >> /\ g.writes = << >>
     /\ agg' = Tail(agg)
     /\ IF g.fault THEN UNCHANGED answers ELSE Forward(g.main, "ok")
     /\ UNCHANGED <<page, pipeVars, cacheVars, ptw_fifo, bypass, walking, rsp_write>>

-----------------------------------------------------------------------------
Init ==
  /\ page = [t \in Tasks |-> NoPage]
  /\ request_fifo = << >> /\ inside_fifo = << >> /\ update_fifo = << >>
  /\ next_is_request = TRUE /\ hash_in = << >>
  /\ ram_fifo = [r \in Rams |-> << >>] /\ worker = [r \in Rams |-> IdleWorker]
  /\ line = << >>
  /\ entry = [i \in Idx |-> FreeEntry]
  /\ ptw_fifo = << >> /\ bypass = {} /\ walking = {} /\ rsp_write = << >> /\ agg = << >>
  /\ answers = [t \in Tasks |-> << >>]

Worker(r) == \/ Suspend(r) \/ Upgrade(r) \/ Own(r) \/ ConflictBypass(r) \/ BufferFull(r)
             \/ BypassAfterWait(r) \/ Placehold(r) \/ Refresh(r) \/ FlushEntry(r)
WalkEnds(t) == GroupEnds(t) \/ LastPageEnds(t) \/ FaultAlone(t) \/ FaultInGroup(t)

Next == \/ \E t \in Tasks, p \in Pages : Arrive(t, p)
        \/ Schedule \/ Dispatch \/ \E r \in Rams : Worker(r)
        \/ PtwStart \/ \E t \in Tasks : WalkEnds(t)
        \/ RspWrite \/ AggWrite \/ AggBypass

\* Every thread runs again whenever it is runnable, and DDR answers.
Fairness ==
  /\ WF_vars(Schedule) /\ WF_vars(Dispatch) /\ \A r \in Rams : WF_vars(Worker(r))
  /\ WF_vars(PtwStart) /\ \A t \in Tasks : WF_vars(WalkEnds(t))
  /\ WF_vars(RspWrite) /\ WF_vars(AggWrite) /\ WF_vars(AggBypass)

Spec == Init /\ [][Next]_vars
FairSpec == Spec /\ Fairness

-----------------------------------------------------------------------------
(* Properties                                                               *)

\* Types of the variables; request lines have a head, and no RAM holds more
\* lines than it has ways.
TypeOK ==
  /\ page \in [Tasks -> Pages \union {NoPage}]
  /\ request_fifo \in Seq(Message) /\ inside_fifo \in Seq(Message)
  /\ update_fifo \in Seq(Message) /\ Len(update_fifo) <= UPDATE_DEPTH
  /\ next_is_request \in BOOLEAN /\ hash_in \in Seq(Message)
  /\ ram_fifo \in [Rams -> Seq(Message)]
  /\ \A r \in Rams : /\ worker[r].at \in {"idle", "full", "flush"}
                     /\ worker[r].at = "flush" => worker[r].cur \in Idx
                     /\ Cardinality(LinesOf(r)) <= WAYS
  /\ DOMAIN line \subseteq Pages
  /\ \A p \in DOMAIN line : line[p].is_req <=> line[p].head \in Idx
  /\ entry \in [Idx -> [task : Tasks \union {NoTask}, next : Idx \union {NoIdx},
                        tail : Idx \union {NoIdx}]]
  /\ ptw_fifo \in Seq(Tasks) /\ bypass \subseteq Tasks /\ walking \subseteq Tasks
  /\ rsp_write \in Seq(Message) /\ Cardinality(walking) <= PTW_MAX
  /\ answers \in [Tasks -> Seq(Results)]

\* The chain that hangs from a line, or what is left of it while it is being
\* flushed, runs through exactly the buffer entries of the tasks that wait for
\* its page, each once, and ends at the recorded tail; no entry is lost and,
\* unless the page faulted, no entry holds a task that was already forwarded
\* (cache_subsystem.cpp:2305-2371).
ReqPages == {p \in DOMAIN line : line[p].is_req}
Flushing(p) == \E r \in Rams : worker[r].at = "flush" /\ worker[r].page = p
HeadOf(p) == IF Flushing(p) THEN worker[RamOf(p)].cur ELSE line[p].head
Waiting(p) == {i \in Idx : entry[i].task # NoTask /\ page[entry[i].task] = p}
IsChain(s, p) ==
  /\ s[1] = HeadOf(p)
  /\ \A k \in DOMAIN s : entry[s[k]].next = IF k = Len(s) THEN NoIdx ELSE s[k + 1]
  /\ ~Flushing(p) => entry[s[1]].tail = s[Len(s)]
ChainsWellFormed ==
  /\ \A p \in ReqPages : \E s \in [1 .. Cardinality(Waiting(p)) -> Waiting(p)] :
        ToSet(s) = Waiting(p) /\ s # << >> /\ IsChain(s, p)
  /\ \A i \in Idx \ FreeIdx : /\ page[entry[i].task] \in ReqPages
                              /\ page[entry[i].task] \notin Unmapped => answers[entry[i].task] = << >>

\* A task is not forwarded, and so not deleted, while its walk uses it or the
\* flush of its group will (cache_subsystem.cpp:2612-2628).
TaskOutlivesItsWalk ==
  \A t \in walking \union {g.main : g \in {h \in ToSet(agg) : h.bypass}} : answers[t] = << >>

\* No task is forwarded twice: through its chain and directly, or through two
\* chains (iommu_perf_ptw.cc:2612, 2286-2289).
AnsweredOnce == \A t \in Tasks : Len(answers[t]) <= 1

\* The main tasks whose groups will still write an update of page p.
InPtw(t) == t \in ToSet(ptw_fifo) \union walking
Covers(t, p) == p \in page[t] .. page[t] + GroupDepth(page[t])
UpdatesComing == ToSet(update_fifo) \union ToSet(hash_in) \union ToSet(rsp_write)
                 \union (UNION {ToSet(ram_fifo[r]) : r \in Rams})
                 \union (UNION {ToSet(g.writes) : g \in ToSet(agg)})
Refreshers(p) ==
  {t \in Tasks : \/ InPtw(t) /\ Covers(t, p) /\ ~MarkedBypass(t)
                 \/ \E m \in UpdatesComing : m.kind = "update" /\ m.page = p /\ m.by = t}

\* Every line has a refresh to come that its owner rule will not turn away,
\* so no chain waits for a walk nobody makes (cache_subsystem.cpp:2612-2621).
NoAbandonedLine ==
  \A p \in DOMAIN line : ~Flushing(p) =>
    IF line[p].is_req /\ ~line[p].suspended THEN line[p].owner \in Refreshers(p)
                                            ELSE Refreshers(p) # {}

\* A task that went around the dedup cache is in the PTW or in a group that
\* will forward it, until it is forwarded (cache_subsystem.cpp:2345-2347).
BypassedAnswered ==
  \A t \in bypass : answers[t] = << >> => InPtw(t) \/ \E g \in ToSet(agg) : g.main = t

\* Every task that misses the PT cache is forwarded in the end, as an owner, a
\* waiting or a bypassed task (iommu_perf_pt_cache_response.cc:13-18): the
\* worker that waits for the PTW at a full buffer (cache_subsystem.cpp:2333,
\* 2395, 2484) and the response thread that waits at a full update FIFO
\* (iommu_perf_ptw.cc:2631) go on.  As tasks are finite in number, none is left
\* behind if again and again there is a moment when none waits.
EveryMissAnswered ==
  []<>(\A t \in Tasks : page[t] # NoPage => answers[t] # << >>)
=============================================================================
