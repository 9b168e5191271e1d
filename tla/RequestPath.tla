----------------------------- MODULE RequestPath -----------------------------
(***************************************************************************)
(* The path of a request through the IOMMU model, from the call of         *)
(* nb_transport_fw on an inbound port to the response on that port: port   *)
(* admission against the outstanding limits, the input delay line, the     *)
(* parser, the reorder buffer, the output thread and the output delay      *)
(* line.  Everything between the parser and the forwarders (collector,     *)
(* caches, walkers) is the set translating, from which tasks leave in any  *)
(* order.                                                                  *)
(*                                                                         *)
(* SystemC threads are cooperative: the code between two wait() calls is   *)
(* one action.  A thread that waits for an event is a state of its own,    *)
(* left only by an action that notifies the event.                         *)
(***************************************************************************)
EXTENDS Integers, FiniteSets, SequencesExt

CONSTANTS Devices,             \* requesters
          Queues,              \* write-order queues (their index in the array)
          QueueOf,             \* the queue of a device (one for all, or one each)
          Ports,               \* inbound ports: R and W, or a single one
          PortOf,              \* the port that receives a direction
          GLOBAL_MAX, READ_MAX, WRITE_MAX,  \* IOMMU_*_MAX_OUTSTANDING
          FIFO_DEPTH_INBOUND,
          FIFO_DEPTH_FAULT,    \* collector_to_fault_fifo
          MaxTasks             \* bound: requests offered in a behaviour

Direction == {"READ", "WRITE"}
Request == [dir : Direction, dev : Devices]

ASSUME LimitsAssumption ==
  /\ GLOBAL_MAX \in Nat \ {0} /\ READ_MAX \in Nat \ {0} /\ WRITE_MAX \in Nat \ {0}
  /\ FIFO_DEPTH_INBOUND \in Nat \ {0} /\ FIFO_DEPTH_FAULT \in Nat \ {0}
  /\ MaxTasks \in Nat
ASSUME RequestAssumption == Devices # {}
ASSUME QueueAssumption == Queues \subseteq Nat /\ QueueOf \in [Devices -> Queues]
ASSUME PortAssumption == PortOf \in [Direction -> Ports]

VARIABLES
  task,             \* task[id] for id < next_task_id = Len(task) + 1
  port,             \* the call in progress on each port and what it waits for
  global_outstanding, outstanding,     \* outstanding[dir]: read/write counter
  input_delay_queue, inbound_fifo,     \* one of each per direction
  prefer_read, parser_task,            \* parser_thread: RR flag, popped task
  translating,      \* tasks in the collector, the caches or the walkers
  out_fifo,         \* tasks waiting for one of the three exit threads
  reorder_buf,      \* registered task -> ready
  reorder_write_order,
  sender, to_send,  \* reorder_output_thread: where it is, what it collected
  output_delay_queue,
  responses         \* ids in the order their responses reached the initiator

portVars == <<task, port, global_outstanding, outstanding>>
inputVars == <<input_delay_queue, inbound_fifo, prefer_read, parser_task>>
xlateVars == <<translating, out_fifo>>
reorderVars == <<reorder_buf, reorder_write_order, sender, to_send>>
outputVars == <<output_delay_queue, responses>>
vars == <<portVars, inputVars, xlateVars, reorderVars, outputVars>>

NoTask == 0
IsWrite(id) == task[id].dir = "WRITE"
WriteQueue(id) == QueueOf[task[id].dev]
SameQueueWrites(a, b) == IsWrite(a) /\ IsWrite(b) /\ WriteQueue(a) = WriteQueue(b)

-----------------------------------------------------------------------------
(* The initiator calls nb_transport_fw.  One sender thread drives a port,   *)
(* so a port has at most one call in progress; the beat delay of the port   *)
(* elapses between Offer and the admission gate.                            *)

GateStates == {"idle", "gate", "dir_freed", "global_freed"}
NoCall == [at |-> "idle", req |-> CHOOSE r \in Request : TRUE]

Offer(p, req) ==
  /\ port[p].at = "idle"
  /\ PortOf[req.dir] = p
  /\ Len(task) + Cardinality({q \in Ports : port[q].at # "idle"}) < MaxTasks
  /\ port' = [port EXCEPT ![p] = [at |-> "gate", req |-> req]]
  /\ UNCHANGED <<task, global_outstanding, outstanding, inputVars, xlateVars,
                 reorderVars, outputVars>>

DirMax(dir) == IF dir = "WRITE" THEN WRITE_MAX ELSE READ_MAX
DirFull_OffByOne(dir) == outstanding[dir] > DirMax(dir)      \* variant: > for >=
DirFull(dir) == outstanding[dir] >= DirMax(dir)
GlobalFull == global_outstanding >= GLOBAL_MAX

\* The gate waits for the direction's event when the direction is full, and
\* for the global one only when the direction has room.
Gate(p) ==
  /\ port[p].at = "gate"
  /\ DirFull(port[p].req.dir) \/ GlobalFull
  /\ port' = [port EXCEPT ![p].at =
                IF DirFull(port[p].req.dir) THEN "dir_freed" ELSE "global_freed"]
  /\ UNCHANGED <<task, global_outstanding, outstanding, inputVars, xlateVars,
                 reorderVars, outputVars>>

Admit(p) ==
  LET req == port[p].req
      id  == Len(task) + 1
  IN /\ port[p].at = "gate"
     /\ ~DirFull(req.dir) /\ ~GlobalFull
     /\ task' = Append(task, req)
     /\ global_outstanding' = global_outstanding + 1
     /\ outstanding' = [outstanding EXCEPT ![req.dir] = @ + 1]
     /\ input_delay_queue' = [input_delay_queue EXCEPT ![req.dir] = Append(@, id)]
     /\ port' = [port EXCEPT ![p] = NoCall]
     /\ UNCHANGED <<inbound_fifo, prefer_read, parser_task, xlateVars,
                    reorderVars, outputVars>>

\* The delay line holds the head until it is due and the FIFO has room.
InputDelayLine(dir) ==
  /\ input_delay_queue[dir] # << >>
  /\ Len(inbound_fifo[dir]) < FIFO_DEPTH_INBOUND
  /\ inbound_fifo' = [inbound_fifo EXCEPT ![dir] = Append(@, Head(input_delay_queue[dir]))]
  /\ input_delay_queue' = [input_delay_queue EXCEPT ![dir] = Tail(@)]
  /\ UNCHANGED <<portVars, prefer_read, parser_task, xlateVars, reorderVars, outputVars>>

-----------------------------------------------------------------------------
(* parser_thread                                                            *)

Opposite(dir) == IF dir = "READ" THEN "WRITE" ELSE "READ"

RegisterTask(id) ==
  /\ reorder_buf' = [i \in DOMAIN reorder_buf \union {id} |->
                        IF i = id THEN FALSE ELSE reorder_buf[i]]
  /\ reorder_write_order' =
       IF IsWrite(id) THEN [reorder_write_order EXCEPT ![WriteQueue(id)] = Append(@, id)]
                      ELSE reorder_write_order

\* Round robin: the preferred direction if it has a task, else the other.
ParserPop ==
  LET preferred == IF prefer_read THEN "READ" ELSE "WRITE"
      dir == IF inbound_fifo[preferred] # << >> THEN preferred ELSE Opposite(preferred)
  IN /\ parser_task = NoTask
     /\ inbound_fifo[dir] # << >>
     /\ parser_task' = Head(inbound_fifo[dir])
     /\ inbound_fifo' = [inbound_fifo EXCEPT ![dir] = Tail(@)]
     /\ prefer_read' = (dir = "WRITE")
     /\ RegisterTask(Head(inbound_fifo[dir]))
     /\ UNCHANGED <<portVars, input_delay_queue, xlateVars, sender, to_send, outputVars>>

Exits == {"pt", "msipt", "fault"}
ExitHasRoom(x) == x = "fault" => Len(out_fifo[x]) < FIFO_DEPTH_FAULT

\* The mode and DDI checks fault the task, Bare mode passes it through, and
\* every other task goes to the collector and the DC and PC caches.
ParserToExit(x) ==
  /\ parser_task # NoTask
  /\ x \in {"pt", "fault"} /\ ExitHasRoom(x)
  /\ out_fifo' = [out_fifo EXCEPT ![x] = Append(@, parser_task)]
  /\ parser_task' = NoTask
  /\ UNCHANGED <<portVars, input_delay_queue, inbound_fifo, prefer_read, translating,
                 reorderVars, outputVars>>

ParserToCollector ==
  /\ parser_task # NoTask
  /\ translating' = translating \union {parser_task}
  /\ parser_task' = NoTask
  /\ UNCHANGED <<portVars, input_delay_queue, inbound_fifo, prefer_read, out_fifo,
                 reorderVars, outputVars>>

\* Translation ends in any order, at any of the exits.
TranslationDone(id, x) ==
  /\ id \in translating /\ ExitHasRoom(x)
  /\ translating' = translating \ {id}
  /\ out_fifo' = [out_fifo EXCEPT ![x] = Append(@, id)]
  /\ UNCHANGED <<portVars, inputVars, reorderVars, outputVars>>

-----------------------------------------------------------------------------
(* Exit threads: pt_forwarder, msipt_forwarder and fault_cq_proc.           *)

\* Variant: the output thread is not notified.
MarkReady_Silent(id) ==
  /\ reorder_buf' = [reorder_buf EXCEPT ![id] = TRUE]
  /\ UNCHANGED <<sender, responses>>

\* A registered task becomes ready and wakes the output thread; an
\* unregistered one would be answered at once.
MarkReady(id) ==
  IF id \in DOMAIN reorder_buf
  THEN /\ reorder_buf' = [reorder_buf EXCEPT ![id] = TRUE]
       /\ sender' = IF sender = "asleep" THEN "collect" ELSE sender
       /\ UNCHANGED responses
  ELSE /\ responses' = Append(responses, id)
       /\ UNCHANGED <<reorder_buf, sender>>

ExitThread(x) ==
  /\ out_fifo[x] # << >>
  /\ out_fifo' = [out_fifo EXCEPT ![x] = Tail(@)]
  /\ MarkReady(Head(out_fifo[x]))
  /\ UNCHANGED <<portVars, inputVars, translating, reorder_write_order, to_send,
                 output_delay_queue>>

-----------------------------------------------------------------------------
(* reorder_output_thread                                                    *)

Ready(id) == id \in DOMAIN reorder_buf /\ reorder_buf[id]
\* Variant: a read waits for every earlier task, as a write does.
ReadyReads_InOrder ==
  {id \in DOMAIN reorder_buf : /\ Ready(id) /\ ~IsWrite(id)
                               /\ \A b \in DOMAIN reorder_buf : b < id => Ready(b)}
ReadyReads == {id \in DOMAIN reorder_buf : Ready(id) /\ ~IsWrite(id)}
\* The positions of a write queue before the first task that is not ready.
ReadyPrefix(q) == {i \in DOMAIN reorder_write_order[q] :
                     \A j \in 1 .. i : Ready(reorder_write_order[q][j])}
\* Variant: a ready write overtakes the head of its queue.
ReadyWrites_AnyReady(q) == {id \in ToSet(reorder_write_order[q]) : Ready(id)}
ReadyWrites(q) == {reorder_write_order[q][i] : i \in ReadyPrefix(q)}
Batch == ReadyReads \union UNION {ReadyWrites(q) : q \in Queues}

\* Reads in id order (the map's order), then the queues one after another.
SentBefore(a, b) ==
  IF IsWrite(a)
  THEN /\ IsWrite(b)
       /\ \/ WriteQueue(a) < WriteQueue(b)
          \/ /\ WriteQueue(a) = WriteQueue(b)
             /\ \E i, j \in DOMAIN reorder_write_order[WriteQueue(a)] :
                   /\ i < j
                   /\ reorder_write_order[WriteQueue(a)][i] = a
                   /\ reorder_write_order[WriteQueue(a)][j] = b
  ELSE IsWrite(b) \/ a < b

\* What the thread erases from the buffer; the variant forgets the reads.
Erased_WritesOnly == {id \in Batch : IsWrite(id)}
Erased == Batch

Collect ==
  /\ sender = "collect"
  /\ \E s \in [1 .. Cardinality(Batch) -> Batch] :
       /\ ToSet(s) = Batch
       /\ \A i, j \in DOMAIN s : i < j => SentBefore(s[i], s[j])
       /\ to_send' = s
  /\ reorder_buf' = [id \in DOMAIN reorder_buf \ Erased |-> reorder_buf[id]]
  /\ reorder_write_order' = [q \in Queues |->
       SubSeq(reorder_write_order[q], Cardinality(ReadyPrefix(q)) + 1,
              Len(reorder_write_order[q]))]
  /\ sender' = IF Batch = {} THEN "asleep" ELSE "send"
  /\ UNCHANGED <<portVars, inputVars, xlateVars, outputVars>>

\* Variant: the slot is given back at the launch too.
Launch_FreesSlot ==
  /\ sender = "send"
  /\ output_delay_queue' = Append(output_delay_queue, Head(to_send))
  /\ sender' = "bandwidth"
  /\ global_outstanding' = global_outstanding - 1
  /\ UNCHANGED <<task, port, outstanding, inputVars, xlateVars, reorder_buf,
                 reorder_write_order, to_send, responses>>

\* The task enters the output delay line, then the thread spends its
\* bandwidth delay.  It is the only user of the master_0 slots, of which it
\* holds one at a time.
Launch ==
  /\ sender = "send"
  /\ output_delay_queue' = Append(output_delay_queue, Head(to_send))
  /\ sender' = "bandwidth"
  /\ UNCHANGED <<portVars, inputVars, xlateVars, reorder_buf, reorder_write_order,
                 to_send, responses>>

\* The freed events of a release wake the gates that wait for them, which
\* then test the limits again.  Variant: only the direction's event.
Woken_DirectionOnly(p, dir) == port[p].at = "dir_freed" /\ port[p].req.dir = dir
Woken(p, dir) == \/ port[p].at = "global_freed"
                 \/ port[p].at = "dir_freed" /\ port[p].req.dir = dir

\* Both counters stop at zero.
Release ==
  LET dir == task[Head(to_send)].dir
  IN /\ sender = "bandwidth"
     /\ global_outstanding' = IF global_outstanding > 0 THEN global_outstanding - 1
                                                        ELSE global_outstanding
     /\ outstanding' = [outstanding EXCEPT ![dir] = IF @ > 0 THEN @ - 1 ELSE @]
     /\ port' = [p \in Ports |-> IF Woken(p, dir) THEN [at |-> "gate", req |-> port[p].req]
                                             ELSE port[p]]
     /\ to_send' = Tail(to_send)
     /\ sender' = IF Tail(to_send) = << >> THEN "collect" ELSE "send"
     /\ UNCHANGED <<task, inputVars, xlateVars, reorder_buf, reorder_write_order,
                    outputVars>>

-----------------------------------------------------------------------------
\* output_delay_thread: the pipeline delay (400 ns) outlasts the bandwidth
\* delay of a packet (tens of ns), so a task is released before it is due.
SendResponse ==
  /\ output_delay_queue # << >>
  /\ ~(sender = "bandwidth" /\ Head(to_send) = Head(output_delay_queue))
  /\ responses' = Append(responses, Head(output_delay_queue))
  /\ output_delay_queue' = Tail(output_delay_queue)
  /\ UNCHANGED <<portVars, inputVars, xlateVars, reorderVars>>

-----------------------------------------------------------------------------
Init ==
  /\ task = << >>
  /\ port = [p \in Ports |-> NoCall]
  /\ global_outstanding = 0 /\ outstanding = [dir \in Direction |-> 0]
  /\ input_delay_queue = [dir \in Direction |-> << >>]
  /\ inbound_fifo = [dir \in Direction |-> << >>]
  /\ prefer_read = TRUE /\ parser_task = NoTask
  /\ translating = {} /\ out_fifo = [x \in Exits |-> << >>]
  /\ reorder_buf = << >>
  /\ reorder_write_order = [q \in Queues |-> << >>]
  /\ sender = "collect" /\ to_send = << >>
  /\ output_delay_queue = << >> /\ responses = << >>

PortNext == \E p \in Ports : Gate(p) \/ Admit(p) \/ \E req \in Request : Offer(p, req)
InputNext == \/ \E dir \in Direction : InputDelayLine(dir)
             \/ ParserPop \/ ParserToCollector \/ \E x \in Exits : ParserToExit(x)
TranslateNext == \E id \in translating, x \in Exits : TranslationDone(id, x)
OutputNext == \/ \E x \in Exits : ExitThread(x)
              \/ Collect \/ Launch \/ Release \/ SendResponse

Next == PortNext \/ InputNext \/ TranslateNext \/ OutputNext

\* A request is offered only if the initiator has one; every other thread
\* runs again whenever it is runnable.  That a translation ends is assumed
\* here: it is the business of the collector, the walkers and the DDR path.
ParserRoutes == ParserToCollector \/ \E x \in Exits : ParserToExit(x)
TranslationEnds(id) == \E x \in Exits : TranslationDone(id, x)
ThreadFairness ==
  /\ \A p \in Ports : WF_vars(Gate(p) \/ Admit(p))
  /\ \A dir \in Direction : WF_vars(InputDelayLine(dir))
  /\ WF_vars(ParserPop) /\ WF_vars(ParserRoutes)
  /\ \A x \in Exits : WF_vars(ExitThread(x))
  /\ WF_vars(Collect) /\ WF_vars(Launch) /\ WF_vars(Release) /\ WF_vars(SendResponse)
TranslationFairness == \A id \in 1 .. MaxTasks : WF_vars(TranslationEnds(id))

Spec == Init /\ [][Next]_vars
FairSpec == Spec /\ ThreadFairness /\ TranslationFairness
\* The threads run, but translations may never end.
StuckSpec == Spec /\ ThreadFairness

-----------------------------------------------------------------------------
(* Properties                                                               *)

Ids == DOMAIN task
Unlaunched == IF sender = "bandwidth" THEN ToSet(Tail(to_send)) ELSE ToSet(to_send)

\* Types of the variables; the output thread sends as long as it has a batch.
TypeOK ==
  /\ task \in Seq(Request)
  /\ port \in [Ports -> [at : GateStates, req : Request]]
  /\ global_outstanding \in Nat /\ outstanding \in [Direction -> Nat]
  /\ input_delay_queue \in [Direction -> Seq(Ids)]
  /\ inbound_fifo \in [Direction -> Seq(Ids)]
  /\ prefer_read \in BOOLEAN /\ parser_task \in Ids \union {NoTask}
  /\ translating \subseteq Ids
  /\ out_fifo \in [Exits -> Seq(Ids)]
  /\ reorder_buf \in [DOMAIN reorder_buf -> BOOLEAN] /\ DOMAIN reorder_buf \subseteq Ids
  /\ reorder_write_order \in [Queues -> Seq(Ids)]
  /\ sender \in {"collect", "asleep", "send", "bandwidth"}
  /\ to_send \in Seq(Ids)
  /\ sender \in {"send", "bandwidth"} <=> to_send # << >>
  /\ output_delay_queue \in Seq(Ids) /\ responses \in Seq(Ids)

\* The tasks a direction's counter stands for: admitted at the port and not
\* yet released by the output thread.
AtInput(dir) == ToSet(input_delay_queue[dir]) \union ToSet(inbound_fifo[dir])
AtReorder == DOMAIN reorder_buf \union ToSet(to_send)
InFlight(dir) == {id \in AtInput(dir) \union AtReorder : task[id].dir = dir}

\* The three counters are kept in two places, the port and the output thread,
\* and nothing but their pairing keeps them equal to the tasks in flight; the
\* limits hold because of it (iommu_top.cc:777-813, iommu_perf_reorder.cc:297-309).
CountersMatchTasks ==
  /\ \A dir \in Direction : outstanding[dir] = Cardinality(InFlight(dir))
  /\ global_outstanding = Cardinality(InFlight("READ") \union InFlight("WRITE"))
  /\ global_outstanding <= GLOBAL_MAX
  /\ \A dir \in Direction : outstanding[dir] <= DirMax(dir)

\* Each admitted task is in one place of the path, once: a task that was in
\* two would be answered and freed twice, a task in none would hold its
\* outstanding slot for ever.
Places(id) ==
  LET In(s) == {i \in DOMAIN s : s[i] = id}
  IN    Cardinality(In(input_delay_queue["READ"])) + Cardinality(In(input_delay_queue["WRITE"]))
      + Cardinality(In(inbound_fifo["READ"])) + Cardinality(In(inbound_fifo["WRITE"]))
      + (IF id = parser_task \/ id \in translating THEN 1 ELSE 0)
      + Cardinality(In(out_fifo["pt"])) + Cardinality(In(out_fifo["msipt"]))
      + Cardinality(In(out_fifo["fault"]))
      + (IF Ready(id) THEN 1 ELSE 0)
      + (IF id \in Unlaunched THEN 1 ELSE 0)
      + Cardinality(In(output_delay_queue)) + Cardinality(In(responses))
OnePlaceEach == \A id \in Ids : Places(id) = 1

\* The path keeps the promise of OrderedResponses.
Abstract == INSTANCE OrderedResponses WITH accepted <- task, answered <- ToSet(responses)
Refines == Abstract!Spec

\* A ready read is answered even if no other translation ever ends, the head
\* of the write queue's included (iommu_perf_reorder.cc:7-8).
ReadsNeverWait ==
  \A id \in 1 .. MaxTasks :
    (id \in Ids /\ ~IsWrite(id) /\ Ready(id)) ~> (id \in ToSet(responses))

\* A write at the head of its queue is answered once it is ready, whatever the
\* writes of the other queues do (iommu_perf_reorder.cc:148-170).
HeadWriteAnswered ==
  \A id \in 1 .. MaxTasks :
    (id \in Ids /\ Ready(id) /\ IsWrite(id) /\ Head(reorder_write_order[WriteQueue(id)]) = id)
       ~> (id \in ToSet(responses))

\* Whoever waits at a port gets in: the freed events wake every gate whose
\* condition may have become true.
PortsGetIn == \A p \in Ports : (port[p].at # "idle") ~> (port[p].at = "idle")
=============================================================================
