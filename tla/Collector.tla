------------------------------ MODULE Collector ------------------------------
(***************************************************************************)
(* From the parser to the page table caches: the DC and PC cache threads,  *)
(* the two collector threads and the directory walker xDTW.  A task waits  *)
(* for the answers of both caches; if a context it needs was missed it is  *)
(* sent to walk the directory and comes back through the second thread,    *)
(* which may send it on a second walk.                                     *)
(*                                                                         *)
(* Bounded FIFOs lead from the threads to each other in a ring, and both   *)
(* collector threads wait for the counters of walks.  A thread is a record *)
(* of where it is and the task it holds; a write that may block is a step  *)
(* of its own.  Walks of kind "ddt" fill the DC cache, "pdt" the PC cache. *)
(***************************************************************************)
EXTENDS Naturals, SequencesExt

CONSTANTS MaxTasks,         \* bound: tasks that arrive
          Requests,         \* what a request may ask
          DDT, PDT,         \* directories: contexts by Key, present or not
          COLLECTOR_MAX_WALK, XDTW_MAX,      \* limits, by kind of walk
          PARSER_DEPTH, REQUEST_DEPTH, RESPONSE_DEPTH, UPDATE_DEPTH,
          XDTW_DEPTH, BACK_DEPTH             \* depths of the FIFOs

Walk == {"ddt", "pdt"}
Threads == {"lookup", "response"}   \* collector_cache_lookup_result / _xdtw_response
Tasks == 1 .. MaxTasks
AddrTypes == {"untranslated", "translated", "ats_request"}
Modes == {"bare", "pd8", "pd17", "pd20"}
Exits == {"none", "fault", "forward", "route", "need_pc"}

ASSUME LimitAssumption ==
  /\ COLLECTOR_MAX_WALK \in [Walk -> Nat \ {0}] /\ XDTW_MAX \in [Walk -> Nat \ {0}]
  /\ PARSER_DEPTH \in Nat \ {0} /\ REQUEST_DEPTH \in Nat \ {0} /\ RESPONSE_DEPTH \in Nat \ {0}
  /\ UPDATE_DEPTH \in Nat \ {0} /\ XDTW_DEPTH \in Nat \ {0} /\ BACK_DEPTH \in Nat \ {0}
  /\ MaxTasks \in Nat
ASSUME RequestAssumption ==
  /\ \A d \in DOMAIN DDT : DDT[d] \in [valid : BOOLEAN, en_ats : BOOLEAN, t2gpa : BOOLEAN,
                                     pdtv : BOOLEAN, dpe : BOOLEAN, mode : Modes]
  /\ Requests \subseteq [dev : DOMAIN DDT, at : AddrTypes, pid_valid : BOOLEAN,
                      pid : Nat, priv_req : BOOLEAN]

VARIABLES
  asked,         \* the request of each task, as it arrived
  req,           \* and as the collector has changed it
  incoming,      \* parser_to_collector_fifo
  request, response, update,     \* FIFOs of the DC and the PC cache
  cached, server,                \* keys in each cache; the answer its thread holds
  pending, answered, hits,       \* pending_tasks, and the answers recorded in it
  batch,         \* entries found complete in this pass
  thread,        \* the collector threads
  walks,         \* collector_dc/pc_walk_outstanding
  to_xdtw, xdtw, finished, back, \* xDTW: FIFOs in, active walks, result held, FIFO out
  exit           \* where each task went, and with which first-stage context

cacheVars == <<request, response, cached, server>>
entryVars == <<pending, answered, hits, batch>>
xdtwVars == <<xdtw, finished, back>>
vars == <<asked, req, incoming, cacheVars, update, entryVars, thread, walks, to_xdtw, xdtwVars, exit>>

NoTask == 0
Idle == [at |-> "free", task |-> NoTask, walk |-> "ddt"]
At(place, t, w) == [at |-> place, task |-> t, walk |-> w]
Key(w, r) == IF w = "ddt" THEN <<r.dev>> ELSE <<r.dev, r.pid>>
DeviceContext(r) == DDT[r.dev]
ProcessContext(key) == PDT[key]
\* What a walk finds out of the request it serves.
\* Variant: the process context is not checked.
Present_NoPcCheck(w, r) == w = "pdt" \/ DeviceContext(r).valid
Present(w, r) == IF w = "ddt" THEN DeviceContext(r).valid ELSE ProcessContext(Key("pdt", r)).valid

-----------------------------------------------------------------------------
(* What the contexts say of a request *)

MaxPid(mode) == CASE mode = "pd8" -> 2^8 - 1 [] mode = "pd17" -> 2^17 - 1 [] OTHER -> 2^20 - 1

Disallowed(r, dc) ==
  \/ r.at # "untranslated" /\ ~dc.en_ats
  \/ r.pid_valid /\ ~dc.pdtv
  \/ r.pid_valid /\ dc.mode \in {"pd8", "pd17"} /\ r.pid > MaxPid(dc.mode)

\* DPE: a request without a process id gets process id 0.
Defaulted(r, dc) ==
  IF dc.pdtv /\ dc.dpe /\ ~r.pid_valid
  THEN [r EXCEPT !.pid_valid = TRUE, !.pid = 0, !.priv_req = FALSE] ELSE r

Exit(way, context) == [way |-> way, context |-> context]
Fault == Exit("fault", <<>>)

\* Steps 7 to 13.
AfterDC(r, dc) ==
  CASE Disallowed(r, dc) -> Fault
    [] ~Disallowed(r, dc) /\ r.at = "translated" -> Exit(IF dc.t2gpa THEN "route" ELSE "forward", <<>>)
    [] ~Disallowed(r, dc) /\ r.at # "translated" /\ ~dc.pdtv -> Exit("route", <<r.dev>>)
    [] ~Disallowed(r, dc) /\ r.at # "translated" /\ dc.pdtv ->
         Exit(IF Defaulted(r, dc).pid_valid /\ dc.mode # "bare" THEN "need_pc" ELSE "route", <<>>)

\* Steps 15 and 16, with the process context found under key.
AfterPC(r, key) ==
  IF ~ProcessContext(key).ens /\ r.pid_valid /\ r.priv_req THEN Fault ELSE Exit("route", key)

-----------------------------------------------------------------------------
(* The parser and the threads of the DC and PC caches *)

\* The parser writes the three FIFOs in one step: it pops only if each has room.
Parse(r) ==
  /\ Len(asked) < MaxTasks
  /\ Len(incoming) < PARSER_DEPTH
  /\ \A w \in Walk : Len(request[w]) < REQUEST_DEPTH
  /\ LET t == Len(asked) + 1 IN
       /\ asked' = Append(asked, r) /\ req' = Append(req, r)
       /\ incoming' = Append(incoming, t)
       /\ request' = [w \in Walk |-> Append(request[w], t)]
  /\ UNCHANGED <<response, cached, server, update, entryVars, thread, walks, to_xdtw, xdtwVars, exit>>

\* A key that was cached may have been evicted or invalidated since.
MayHit(w, t) == {h \in BOOLEAN : h => Key(w, asked[t]) \in cached[w]}

\* Updates go before lookups.
Lookup(w) ==
  /\ server[w].task = NoTask /\ update[w] = <<>> /\ request[w] # <<>>
  /\ LET t == Head(request[w]) IN
       \E h \in MayHit(w, t) : server' = [server EXCEPT ![w] = [task |-> t, hit |-> h]]
  /\ request' = [request EXCEPT ![w] = Tail(@)]
  /\ UNCHANGED <<asked, req, incoming, response, cached, update, entryVars, thread, walks, to_xdtw, xdtwVars, exit>>

PushResponse(w) ==
  /\ server[w].task # NoTask /\ Len(response[w]) < RESPONSE_DEPTH
  /\ response' = [response EXCEPT ![w] = Append(@, server[w])]
  /\ server' = [server EXCEPT ![w] = [task |-> NoTask, hit |-> FALSE]]
  /\ UNCHANGED <<asked, req, incoming, request, cached, update, entryVars, thread, walks, to_xdtw, xdtwVars, exit>>

Fill(w) ==
  /\ server[w].task = NoTask /\ update[w] # <<>>
  /\ cached' = [cached EXCEPT ![w] = @ \cup {Head(update[w])}]
  /\ update' = [update EXCEPT ![w] = Tail(@)]
  /\ UNCHANGED <<asked, req, incoming, request, response, server, entryVars, thread, walks, to_xdtw, xdtwVars, exit>>

CacheThread(w) == Lookup(w) \/ PushResponse(w) \/ Fill(w)

-----------------------------------------------------------------------------
(* collector_cache_lookup_result_thread *)

\* The three FIFOs are drained in this order; an answer without an entry is dropped.
\* Variant: the responses are drained before the parser's FIFO.
Entries_ResponsesFirst == pending
Entries == pending \cup Range(incoming)
Recorded(w, ms) == {m.task : m \in ms} \cap Entries

Gather ==
  /\ thread["lookup"].at = "free" /\ batch = {}
  /\ incoming # <<>> \/ \E w \in Walk : response[w] # <<>>
  /\ LET now == [w \in Walk |-> answered[w] \cup Recorded(w, Range(response[w]))]
         all == pending \cup Range(incoming)
         complete == {t \in all : \A w \in Walk : t \in now[w]} IN
       /\ batch' = complete
       /\ pending' = all \ complete
       /\ answered' = [w \in Walk |-> now[w] \ complete]
       /\ hits' = [w \in Walk |-> hits[w] \cup Recorded(w, {m \in Range(response[w]) : m.hit})]
  /\ incoming' = <<>> /\ response' = [w \in Walk |-> <<>>]
  /\ UNCHANGED <<asked, req, request, cached, server, update, thread, walks, to_xdtw, xdtwVars, exit>>

Leave(t, e) == exit' = [exit EXCEPT ![t] = e]
Asks(th, t, w) == thread' = [thread EXCEPT ![th] = At("limit", t, w)]

\* What thread th does with task t once its device context is known.
WithDC(th, t, known) ==
  LET dc == DeviceContext(req[t])
      e == AfterDC(req[t], dc) IN
  IF e.way # "need_pc"
  THEN Leave(t, e) /\ UNCHANGED req /\ thread' = [thread EXCEPT ![th] = Idle]
  ELSE /\ req' = [req EXCEPT ![t] = Defaulted(@, dc)]
       /\ IF known
          THEN Leave(t, AfterPC(req'[t], Key("pdt", asked[t])))
               /\ thread' = [thread EXCEPT ![th] = Idle]
          ELSE Asks(th, t, "pdt") /\ UNCHANGED exit

\* The entries of a pass are taken in the order of their ids.
Take ==
  /\ thread["lookup"].at = "free" /\ batch # {}
  /\ LET t == Min(batch) IN
       /\ batch' = batch \ {t}
       /\ hits' = [w \in Walk |-> hits[w] \ {t}]
       /\ IF t \in hits["ddt"] THEN WithDC("lookup", t, t \in hits["pdt"])
          ELSE Asks("lookup", t, "ddt") /\ UNCHANGED <<req, exit>>
  /\ UNCHANGED <<asked, incoming, cacheVars, update, pending, answered, walks, to_xdtw, xdtwVars>>

-----------------------------------------------------------------------------
(* Waiting for a counter, by either thread; xDTW *)

AtLimit(w) == walks[w] >= COLLECTOR_MAX_WALK[w]

\* while (walks >= MAX) wait(completed_event); walks++
CheckLimit(th) ==
  /\ thread[th].at = "limit"
  /\ LET w == thread[th].walk IN
       IF AtLimit(w)
       THEN thread' = [thread EXCEPT ![th].at = "asleep"] /\ UNCHANGED walks
       ELSE /\ thread' = [thread EXCEPT ![th].at = "write"]
            /\ walks' = [walks EXCEPT ![w] = @ + 1]
  /\ UNCHANGED <<asked, req, incoming, cacheVars, update, entryVars, to_xdtw, xdtwVars, exit>>

WriteWalk(th) ==
  /\ thread[th].at = "write"
  /\ LET w == thread[th].walk IN
       /\ Len(to_xdtw[w]) < XDTW_DEPTH
       /\ to_xdtw' = [to_xdtw EXCEPT ![w] = Append(@, thread[th].task)]
  /\ thread' = [thread EXCEPT ![th] = Idle]
  /\ UNCHANGED <<asked, req, incoming, cacheVars, update, entryVars, walks, xdtwVars, exit>>

\* xDTW serves a kind that is below its limit, device directories first.
CanStart(w) == Cardinality(xdtw[w]) < XDTW_MAX[w] /\ to_xdtw[w] # <<>>

StartWalk(w) ==
  /\ CanStart(w) /\ (w = "pdt" => ~CanStart("ddt"))
  /\ xdtw' = [xdtw EXCEPT ![w] = @ \cup {Head(to_xdtw[w])}]
  /\ to_xdtw' = [to_xdtw EXCEPT ![w] = Tail(@)]
  /\ UNCHANGED <<asked, req, incoming, cacheVars, update, entryVars, thread, walks, finished, back, exit>>

\* The last answer of memory for a walk; the reads of its levels are not told apart.
EndWalk(w, t) ==
  /\ finished.task = NoTask /\ t \in xdtw[w]
  /\ xdtw' = [xdtw EXCEPT ![w] = @ \ {t}]
  /\ finished' = [task |-> t, walk |-> w]
  /\ UNCHANGED <<asked, req, incoming, cacheVars, update, entryVars, thread, walks, to_xdtw, back, exit>>

ReturnWalk ==
  /\ finished.task # NoTask /\ Len(back) < BACK_DEPTH
  /\ back' = Append(back, finished)
  /\ finished' = [task |-> NoTask, walk |-> "ddt"]
  /\ UNCHANGED <<asked, req, incoming, cacheVars, update, entryVars, thread, walks, to_xdtw, xdtw, exit>>

-----------------------------------------------------------------------------
(* collector_xdtw_response_thread *)

\* The completed event wakes the threads that wait for this kind of walk.
Woken(w) == [th \in Threads |->
  IF thread[th].at = "asleep" /\ thread[th].walk = w THEN [thread[th] EXCEPT !.at = "limit"] ELSE thread[th]]

\* Variant: a walk that failed keeps its slot.
Released_NotOnFault(w, t) == IF Present(w, req[t]) THEN [walks EXCEPT ![w] = @ - 1] ELSE walks
Released(w, t) == [walks EXCEPT ![w] = @ - 1]

\* Variant: after a failed walk the thread goes on as after a good one.
AfterAnswer_NoContinue(w, t) == [Woken(w) EXCEPT !["response"] = At("update", t, w)]
AfterAnswer(w, t) ==
  IF Present(w, req[t]) THEN [Woken(w) EXCEPT !["response"] = At("update", t, w)] ELSE Woken(w)

Answer ==
  /\ thread["response"].at = "free" /\ back # <<>>
  /\ LET t == Head(back).task
         w == Head(back).walk IN
       /\ walks' = Released(w, t)
       /\ thread' = AfterAnswer(w, t)
       /\ IF Present(w, req[t]) THEN UNCHANGED exit ELSE Leave(t, Fault)
  /\ back' = Tail(back)
  /\ UNCHANGED <<asked, req, incoming, cacheVars, update, entryVars, to_xdtw, xdtw, finished>>

\* The cache is updated, and the task goes on.
Resume ==
  /\ thread["response"].at = "update"
  /\ LET t == thread["response"].task
         w == thread["response"].walk
         key == Key(w, req[t]) IN
       /\ Len(update[w]) < UPDATE_DEPTH
       /\ update' = [update EXCEPT ![w] = Append(@, key)]
       /\ IF w = "ddt" THEN WithDC("response", t, FALSE)
          ELSE /\ Leave(t, AfterPC(req[t], key))
               /\ thread' = [thread EXCEPT !["response"] = Idle]
               /\ UNCHANGED req
  /\ UNCHANGED <<asked, incoming, cacheVars, entryVars, walks, to_xdtw, xdtwVars>>

-----------------------------------------------------------------------------
LookupThread == Gather \/ Take \/ CheckLimit("lookup") \/ WriteWalk("lookup")
ResponseThread == Answer \/ Resume \/ CheckLimit("response") \/ WriteWalk("response")
XdtwRequest == \E w \in Walk : StartWalk(w)
XdtwResponse == (\E w \in Walk : \E t \in xdtw[w] : EndWalk(w, t)) \/ ReturnWalk

Init ==
  /\ asked = <<>> /\ req = <<>> /\ incoming = <<>>
  /\ request = [w \in Walk |-> <<>>] /\ response = request /\ update = request
  /\ cached = [w \in Walk |-> {}]
  /\ server = [w \in Walk |-> [task |-> NoTask, hit |-> FALSE]]
  /\ pending = {} /\ batch = {} /\ answered = [w \in Walk |-> {}] /\ hits = answered
  /\ thread = [th \in Threads |-> Idle]
  /\ walks = [w \in Walk |-> 0]
  /\ to_xdtw = request /\ xdtw = answered /\ back = <<>>
  /\ finished = [task |-> NoTask, walk |-> "ddt"]
  /\ exit = [t \in Tasks |-> Exit("none", <<>>)]

Next ==
  \/ \E r \in Requests : Parse(r)
  \/ \E w \in Walk : CacheThread(w)
  \/ LookupThread \/ ResponseThread \/ XdtwRequest \/ XdtwResponse

Spec == Init /\ [][Next]_vars

ThreadFairness ==
  /\ \A w \in Walk : WF_vars(CacheThread(w))
  /\ WF_vars(LookupThread) /\ WF_vars(ResponseThread)
  /\ WF_vars(XdtwRequest) /\ WF_vars(XdtwResponse)

FairSpec == Spec /\ ThreadFairness

-----------------------------------------------------------------------------
(* Properties *)

\* Type invariant, with the limits of collector_*_walk_outstanding and of xDTW.
TypeOK ==
  /\ asked \in Seq(Requests) /\ Len(req) = Len(asked) /\ Len(asked) <= MaxTasks
  /\ Len(incoming) <= PARSER_DEPTH /\ Len(back) <= BACK_DEPTH
  /\ \A w \in Walk :
       /\ Len(request[w]) <= REQUEST_DEPTH /\ Len(response[w]) <= RESPONSE_DEPTH
       /\ Len(update[w]) <= UPDATE_DEPTH /\ Len(to_xdtw[w]) <= XDTW_DEPTH
       /\ walks[w] \in 0 .. COLLECTOR_MAX_WALK[w]
       /\ Cardinality(xdtw[w]) <= XDTW_MAX[w]
       /\ server[w].task \in 0 .. Len(asked)
  /\ pending \subseteq Tasks /\ batch \subseteq Tasks
  /\ \A th \in Threads : thread[th] \in
       [at : {"free", "limit", "asleep", "write", "update"}, task : Tasks \cup {NoTask}, walk : Walk]
  /\ \A t \in Tasks : exit[t].way \in Exits \ {"need_pc"}

\* Tasks that the counter of w stands for.
Counted(w) ==
  {thread[th].task : th \in {h \in Threads : thread[h].at = "write" /\ thread[h].walk = w}}
    \cup Range(to_xdtw[w]) \cup xdtw[w] \cup {m.task : m \in {x \in Range(back) : x.walk = w}}
    \cup (IF finished.walk = w THEN {finished.task} \ {NoTask} ELSE {})

\* The counters of walks, raised by two threads and lowered by one, stand for
\* exactly the tasks that are on a walk: none leaks, so the limits do not shrink,
\* and with TypeOK neither counter nor FIFO passes its limit.
CountersMatchWalks == TypeOK /\ \A w \in Walk : walks[w] = Cardinality(Counted(w))

\* A task is owned by one thread or FIFO at a time, from the parser to its exit.
Owners(t) ==
  (IF t \in pending \cup batch THEN 1 ELSE 0)
    + Cardinality({th \in Threads : thread[th].task = t})
    + Cardinality({i \in DOMAIN incoming : incoming[i] = t})
    + Cardinality({i \in DOMAIN to_xdtw["ddt"] : to_xdtw["ddt"][i] = t})
    + Cardinality({i \in DOMAIN to_xdtw["pdt"] : to_xdtw["pdt"][i] = t})
    + Cardinality({w \in Walk : t \in xdtw[w]})
    + Cardinality({i \in DOMAIN back : back[i].task = t})
    + (IF finished.task = t THEN 1 ELSE 0)
    + (IF exit[t].way # "none" THEN 1 ELSE 0)
OneOwner == \A t \in 1 .. Len(asked) : Owners(t) = 1

\* What iommu_translate_iova, the sequential translation, makes of the request.
Sequential(r) ==
  LET dc == DeviceContext(r)
      e == AfterDC(r, dc)
      d == Defaulted(r, dc)
      key == Key("pdt", d) IN
  IF ~dc.valid THEN Fault
  ELSE IF e.way # "need_pc" THEN e
  ELSE IF ~ProcessContext(key).valid THEN Fault ELSE AfterPC(d, key)

\* Whatever mix of hits, misses and walks it takes, a task leaves by the exit,
\* and with the context, that the sequential translation gives its request.
SameAsSequential ==
  \A t \in 1 .. Len(asked) : exit[t].way # "none" => exit[t] = Sequential(asked[t])

\* Again and again every task that has arrived has left; as arrivals are bounded,
\* each task leaves: no answer of a cache is dropped, no wake-up for a counter is
\* missed, and the ring of FIFOs does not close on itself.
EveryTaskLeaves == []<>(\A t \in 1 .. Len(asked) : exit[t].way # "none")
=============================================================================
