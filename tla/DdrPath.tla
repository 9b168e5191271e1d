------------------------------ MODULE DdrPath ------------------------------
(* The way of the IOMMU to memory: the request FIFOs of the walkers, the    *)
(* control path and the MRIF writes, ddr_arbiter_thread, the DDR module     *)
(* (src/ddr/test_ddr.cc) and ddr_nb_transport_bw, which hands each answer   *)
(* to the module at the head of ddr_pending_queue.                          *)
(*                                                                          *)
(* A walk makes Steps[c] reads, each one after the answer of the last       *)
(* (xdtw_rsp_thread, ptw_rsp_process_thread, msiptw_rsp_thread); the thread *)
(* that takes the answers also writes the next request.  A control-path     *)
(* call (read_memory_test, write_memory_test) writes its request and waits  *)
(* for one event shared by all of them.  Data are names: an access carries  *)
(* the caller and the number of the access.                                 *)
EXTENDS Integers, Sequences, FiniteSetsExt

CONSTANTS
  Walkers,     \* "xdtw", "ptw", "msiptw": each with a request and an answer FIFO
  Walks,       \* walker -> its walks
  Steps,       \* walk -> number of reads
  Callers,     \* threads that use the control path
  CallKind,    \* caller -> "read" or "write"
  MrifWrites,  \* MRIF notices: written, their answer dropped
  ReqDepth, RspDepth,          \* depths of the FIFOs of each walker
  CtrlDepth,                   \* FIFO_DEPTH_CTRL_PATH_REQ_DDR
  DDR_MAX_OUTSTANDING,         \* limit on ddr_pending_queue
  AXI_MASTER_1_MAX,            \* AXI_MASTER_1_TO_CMN_RND_MAX_OUTSTANDING
  DdrFifo,                     \* depth of ddr_req_fifo
  DDR_READ_MAX, DDR_WRITE_MAX, \* accesses inside the DDR, by kind
  MaxCalls                     \* bound: calls of each caller

ASSUME DdrAssumption ==
  /\ {ReqDepth, RspDepth, CtrlDepth, DdrFifo, DDR_MAX_OUTSTANDING,
      AXI_MASTER_1_MAX, DDR_READ_MAX, DDR_WRITE_MAX} \subseteq Nat \ {0}
  /\ Walkers \subseteq {"xdtw", "ptw", "msiptw"}
  /\ \A c, d \in Walkers : c # d => Walks[c] \cap Walks[d] = {}
  /\ Steps \in [UNION {Walks[c] : c \in Walkers} -> Nat \ {0}]
  /\ Callers # {} /\ CallKind \in [Callers -> {"read", "write"}]
  /\ MaxCalls \in Nat

\* The port's limit is the smallest of the three (iommu_perf_params.hh:97 and
\* :103, test_ddr.cc:9: 256 against 512 and 512).
ASSUME DepthsAssumption == /\ AXI_MASTER_1_MAX <= DDR_MAX_OUTSTANDING
                           /\ AXI_MASTER_1_MAX <= DdrFifo

AllWalks == UNION {Walks[c] : c \in Walkers}
Sources == Walkers \cup {"mrif"}   \* what the round robin goes over, and "ctrl"
Access == [source : Sources \cup {"ctrl"}, who : AllWalks \cup Callers \cup MrifWrites,
           n : Nat, kind : {"read", "write"}]

VARIABLES
  req,          \* request FIFOs: of each walker, "mrif" and "ctrl"
  rsp,          \* answer FIFOs of the walkers
  left,         \* walk -> reads still to be answered, 0 before it starts and at its end
  started,      \* walks that have written their first request
  pending,      \* ddr_pending_queue
  axi,          \* axi_master_1_to_cmn_rnd_outstanding
  arbiter,      \* where ddr_arbiter_thread is
  last,         \* the source the round robin served last
  fifo,         \* ddr_req_fifo
  peq,          \* accesses scheduled in ddr_peq, in order of their time
  inside,       \* read_outstanding and write_outstanding of the DDR
  reply,        \* the answer ddr_response_thread is delivering
  word,         \* the pending word of an MRIF in memory: the bits that are set
  dropped,      \* accesses nb_write did not take
  call,         \* caller -> "idle", "wait" or "woken"
  calls,        \* calls made so far by each caller
  buf,          \* ctrl_path_rsp_buf: the access whose data it holds
  got,          \* caller -> the access whose data its last call returned
  overlapped    \* history: callers whose last call overlapped another use of "ctrl"

fifos == <<req, rsp>>
walks == <<left, started>>
ddr == <<fifo, peq, inside>>
control == <<call, calls, buf, got, overlapped>>
vars == <<req, rsp, left, started, pending, axi, arbiter, last, fifo, peq,
          inside, reply, word, dropped, call, calls, buf, got, overlapped>>

Nothing == [source |-> "ctrl", who |-> CHOOSE u \in Callers : TRUE, n |-> 0, kind |-> "read"]
Depth(s) == IF s = "ctrl" THEN CtrlDepth ELSE ReqDepth
\* The order of the round robin: xDTW, PTW, MSIPTW, MRIF.
Order == SelectSeq(<<"xdtw", "ptw", "msiptw", "mrif">>, LAMBDA s : s \in Sources)
Place(s) == CHOOSE i \in DOMAIN Order : Order[i] = s

Init ==
  /\ req = [s \in Sources \cup {"ctrl"} |-> <<>>] /\ rsp = [c \in Walkers |-> <<>>]
  /\ left = [w \in AllWalks |-> 0] /\ started = {}
  /\ pending = <<>> /\ axi = 0 /\ arbiter = "look"
  /\ last = "mrif"
  /\ fifo = <<>> /\ peq = <<>> /\ inside = [k \in {"read", "write"} |-> 0]
  /\ reply = <<>> /\ word = {} /\ dropped = {}
  /\ call = [u \in Callers |-> "idle"] /\ calls = [u \in Callers |-> 0]
  /\ buf = Nothing /\ got = [u \in Callers |-> Nothing] /\ overlapped = {}

\* A blocking write to a request FIFO.
Put(s, a) == /\ Len(req[s]) < Depth(s)
             /\ req' = [req EXCEPT ![s] = Append(@, a)]

-----------------------------------------------------------------------------
(* The users of the path.                                                   *)

\* A walk's thread of requests writes the first one.
StartWalk(c, w) ==
  /\ w \in Walks[c] \ started
  /\ started' = started \cup {w}
  /\ left' = [left EXCEPT ![w] = Steps[w]]
  /\ Put(c, [source |-> c, who |-> w, n |-> 1, kind |-> "read"])
  /\ UNCHANGED <<rsp, pending, axi, arbiter, last, ddr, reply, word, dropped, control>>

\* The thread of answers takes one and writes the next request of the walk; it
\* takes no other answer before that write is done (an answer it holds while
\* it waits to write counts as one of RspDepth).
WalkAnswer(c) ==
  /\ rsp[c] # <<>>
  /\ LET w == Head(rsp[c]).who
     IN /\ left' = [left EXCEPT ![w] = @ - 1]
        /\ IF left[w] = 1 THEN UNCHANGED req
           ELSE Put(c, [source |-> c, who |-> w, n |-> Steps[w] - left[w] + 2, kind |-> "read"])
  /\ rsp' = [rsp EXCEPT ![c] = Tail(@)]
  /\ UNCHANGED <<started, pending, axi, arbiter, last, ddr, reply, word, dropped, control>>

\* The MSI forwarder writes an MRIF notice.
WriteMrif(m) ==
  /\ m \in MrifWrites \ started
  /\ started' = started \cup {m}
  /\ Put("mrif", [source |-> "mrif", who |-> m, n |-> 1, kind |-> "write"])
  /\ UNCHANGED <<rsp, left, pending, axi, arbiter, last, ddr, reply, word, dropped, control>>

\* Another call is not over, or its access is still on its way: a caller woken
\* by the answer to another goes on while its own access is in flight.
Active == {u \in Callers : call[u] # "idle"}
CtrlBusy == \/ Active # {} \/ req["ctrl"] # <<>>
            \/ \E i \in DOMAIN pending : pending[i].source = "ctrl"
            \/ reply # <<>> /\ reply[1].to.source = "ctrl"

\* read_memory_test, write_memory_test: up to the wait for ctrl_path_rsp_event.
\* Nothing in them looks whether the path is in use; overlapped records it.
Call(u) ==
  /\ call[u] = "idle" /\ calls[u] < MaxCalls
  /\ overlapped' = IF CtrlBusy THEN overlapped \cup Active \cup {u} ELSE overlapped \ {u}
  /\ calls' = [calls EXCEPT ![u] = @ + 1]
  /\ call' = [call EXCEPT ![u] = "wait"]
  /\ Put("ctrl", [source |-> "ctrl", who |-> u, n |-> calls[u] + 1, kind |-> CallKind[u]])
  /\ UNCHANGED <<rsp, walks, pending, axi, arbiter, last, ddr, reply, word, dropped,
                 buf, got>>

\* The caller goes on; a read copies ctrl_path_rsp_buf.
Return(u) ==
  /\ call[u] = "woken"
  /\ call' = [call EXCEPT ![u] = "idle"]
  /\ got' = [got EXCEPT ![u] = buf]
  /\ UNCHANGED <<fifos, walks, pending, axi, arbiter, last, ddr, reply, word, dropped,
                 calls, buf, overlapped>>

-----------------------------------------------------------------------------
(* ddr_arbiter_thread.                                                      *)

\* Both limits are tested with "if" and a wait: after the wait the limit is
\* not tested again.  For the slots that is right, as only this thread sends.
\* The pending queue shrinks before the event of its answer comes, so a test
\* in between and a wait that ends at that event would let it pass its limit;
\* the limit of the slots keeps it below (DepthsAssumption).
AtPendingLimit == Len(pending) >= DDR_MAX_OUTSTANDING
AtSlotLimit == axi >= AXI_MASTER_1_MAX

\* After an access the tests come again before the look into the FIFOs, with
\* nothing to send as well.
TestPending ==
  /\ \/ arbiter = "look" /\ \E s \in DOMAIN req : req[s] # <<>>
     \/ arbiter = "again"
  /\ arbiter' = IF AtPendingLimit THEN "wait_pending" ELSE "test_slot"
TestSlot ==
  /\ arbiter = "test_slot"
  /\ arbiter' = IF AtSlotLimit THEN "wait_slot" ELSE "pick"
FindNothing ==
  /\ arbiter = "pick" /\ \A s \in DOMAIN req : req[s] = <<>>
  /\ arbiter' = "look"

\* How many places after the last one served s comes.
After(s) == (Place(s) - Place(last) - 1) % Len(Order)
Chosen(s) ==
  IF req["ctrl"] # <<>> THEN s = "ctrl"
  ELSE /\ s \in Sources /\ req[s] # <<>>
       /\ \A r \in Sources : req[r] # <<>> => After(s) <= After(r)

\* The access enters ddr_pending_queue and is offered to the DDR, whose
\* nb_write drops it when its FIFO is full; then the thread waits for the
\* bandwidth before it counts the access.
Send(s) ==
  /\ arbiter = "pick" /\ Chosen(s)
  /\ LET a == Head(req[s])
     IN /\ req' = [req EXCEPT ![s] = Tail(@)]
        /\ pending' = Append(pending, a)
        /\ IF Len(fifo) < DdrFifo THEN fifo' = Append(fifo, a) /\ UNCHANGED dropped
                                  ELSE dropped' = dropped \cup {a} /\ UNCHANGED fifo
        /\ last' = IF s = "ctrl" THEN last ELSE s
  /\ arbiter' = "bandwidth"
  /\ UNCHANGED <<rsp, walks, axi, peq, inside, reply, word, control>>

Count ==
  /\ arbiter = "bandwidth"
  /\ axi' = axi + 1
  /\ arbiter' = "again"
  /\ UNCHANGED <<fifos, walks, pending, last, ddr, reply, word, dropped, control>>

ArbiterTests == /\ TestPending \/ TestSlot \/ FindNothing
                /\ UNCHANGED <<fifos, walks, pending, axi, last, ddr, reply,
                               word, dropped, control>>

-----------------------------------------------------------------------------
(* The DDR module.                                                          *)

DdrLimit(kind) == IF kind = "read" THEN DDR_READ_MAX ELSE DDR_WRITE_MAX

\* ddr_dispatch_thread takes accesses in order; one at its limit holds up all.
MayDispatch_Overtakes(i) == inside[fifo[i].kind] < DdrLimit(fifo[i].kind)
MayDispatch(i) == i = 1 /\ inside[fifo[i].kind] < DdrLimit(fifo[i].kind)
Dispatch ==
  \E i \in DOMAIN fifo :
    /\ MayDispatch(i)
    /\ peq' = Append(peq, fifo[i])
    /\ fifo' = SubSeq(fifo, 1, i - 1) \o SubSeq(fifo, i + 1, Len(fifo))
    /\ inside' = [inside EXCEPT ![fifo[i].kind] = @ + 1]
    /\ UNCHANGED <<fifos, walks, pending, axi, arbiter, last, reply, word, dropped, control>>

\* process_memory_access: an MRIF notice is a plain write of the word.
Stored(a) == IF a.source = "mrif" THEN {a.who} ELSE word

\* ddr_response_thread: the latency is over, memory is accessed, and the
\* callback takes the head of ddr_pending_queue for the owner of the answer.
Respond ==
  /\ peq # <<>> /\ reply = <<>>
  /\ peq' = Tail(peq)
  /\ pending' = Tail(pending)
  /\ reply' = <<[data |-> Head(peq), to |-> Head(pending)]>>
  /\ word' = Stored(Head(peq))
  /\ UNCHANGED <<fifos, walks, axi, arbiter, last, fifo, inside, dropped, control>>

\* What a woken arbiter does next.
Woken_SlotOnly(place) == IF place = "wait_slot" THEN "pick" ELSE place
Woken(place) == CASE place = "wait_pending" -> "test_slot"
                  [] place = "wait_slot" -> "pick"
                  [] OTHER -> place

\* Which answers wake the control path.
ToControl_FallThrough(to) == to.source \in {"ctrl", "xdtw"}
ToControl(to) == to.source = "ctrl"

\* The counter of the port after an answer for `to`.
Freed_NotMrif(to) == IF to.source = "mrif" THEN axi ELSE axi - 1
Freed(to) == axi - 1

\* The rest of the callback: the answer is delivered (a blocking write into the
\* FIFO of a walker), the counters go down, the arbiter is woken and the place
\* inside the DDR is given back.
Deliver ==
  /\ reply # <<>>
  /\ LET to == reply[1].to
         data == reply[1].data
     IN /\ IF to.source \in Walkers
           THEN /\ Len(rsp[to.source]) < RspDepth
                /\ rsp' = [rsp EXCEPT ![to.source] = Append(@, [who |-> to.who, data |-> data])]
           ELSE UNCHANGED rsp
        /\ IF ToControl(to)
           THEN /\ buf' = data
                /\ call' = [u \in Callers |-> IF call[u] = "wait" THEN "woken" ELSE call[u]]
           ELSE UNCHANGED <<buf, call>>
        /\ axi' = Freed(to)
        /\ inside' = [inside EXCEPT ![data.kind] = @ - 1]
  /\ arbiter' = Woken(arbiter)
  /\ reply' = <<>>
  /\ UNCHANGED <<req, walks, pending, last, fifo, peq, word, dropped, calls, got,
                 overlapped>>

-----------------------------------------------------------------------------
Walk(c) == \/ \E w \in Walks[c] : StartWalk(c, w)
           \/ WalkAnswer(c)
Arbiter == ArbiterTests \/ (\E s \in DOMAIN req : Send(s)) \/ Count
Ddr == Dispatch \/ Respond \/ Deliver
Next == \/ \E c \in Walkers : Walk(c)
        \/ \E m \in MrifWrites : WriteMrif(m)
        \/ \E u \in Callers : Call(u) \/ Return(u)
        \/ Arbiter
        \/ Ddr

\* The SystemC scheduler runs every thread that can go on; nothing makes a walk
\* start, a device write or the driver call.
Spec == Init /\ [][Next]_vars
Fairness == /\ WF_vars(Arbiter) /\ WF_vars(Dispatch) /\ WF_vars(Respond) /\ WF_vars(Deliver)
            /\ \A c \in Walkers : WF_vars(WalkAnswer(c))
            /\ \A u \in Callers : WF_vars(Return(u))
FairSpec == Spec /\ Fairness

-----------------------------------------------------------------------------
(* Properties.                                                              *)

\* Every variable has its type, and no FIFO, list or counter passes its limit.
TypeOK ==
  /\ \A s \in DOMAIN req : req[s] \in Seq(Access) /\ Len(req[s]) <= Depth(s)
  /\ \A c \in Walkers : Len(rsp[c]) <= RspDepth
  /\ left \in [AllWalks -> Nat] /\ started \subseteq AllWalks \cup MrifWrites
  /\ pending \in Seq(Access) /\ Len(pending) <= DDR_MAX_OUTSTANDING
  /\ axi \in -1..AXI_MASTER_1_MAX
  /\ arbiter \in {"look", "again", "wait_pending", "test_slot", "wait_slot", "pick", "bandwidth"}
  /\ last \in Sources
  /\ fifo \in Seq(Access) /\ peq \in Seq(Access) /\ Len(reply) <= 1
  /\ \A k \in DOMAIN inside : inside[k] \in 0..DdrLimit(k)
  /\ dropped \subseteq Access /\ word \subseteq MrifWrites
  /\ call \in [Callers -> {"idle", "wait", "woken"}] /\ calls \in [Callers -> 0..MaxCalls]
  /\ buf \in Access /\ got \in [Callers -> Access] /\ overlapped \subseteq Callers

\* The callback gives every answer to the module that asked, whatever is in
\* flight: it takes the front of ddr_pending_queue on trust (iommu_top.cc:1281),
\* which is right only as long as nothing overtakes inside the DDR and nothing
\* is dropped on the way in (test_ddr.cc:38 ignores the result of nb_write).
RightOwner ==
  /\ reply # <<>> => reply[1].data = reply[1].to
  /\ \A c \in Walkers : \A i \in DOMAIN rsp[c] : rsp[c][i].data.who = rsp[c][i].who
  /\ dropped = {}

\* The counters equal the accesses on their way: the port's one, raised after
\* the bandwidth delay and lowered in the callback of another thread, and the
\* two of the DDR; one that drifts closes the arbiter for ever.  The limits of
\* TypeOK hold although each is tested once, before a wait.
CountersMatch ==
  /\ TypeOK
  /\ axi = Len(pending) + Len(reply) - (IF arbiter = "bandwidth" THEN 1 ELSE 0)
  /\ \A k \in DOMAIN inside :
       inside[k] = Cardinality({i \in DOMAIN peq : peq[i].kind = k})
                   + Cardinality({i \in DOMAIN reply : reply[i].data.kind = k})

\* A control-path read returns the data of that read, as the comment of the
\* copy says (iommu_ref_api.cc:62); with two users of the path it need not.
HasOwnData(u) == got[u] = [source |-> "ctrl", who |-> u, n |-> calls[u], kind |-> "read"]
Returned(u) == call[u] = "idle" /\ calls[u] > 0 /\ CallKind[u] = "read"
OwnData == \A u \in Callers : Returned(u) => HasOwnData(u)

\* What remains true with any number of users: a read that overlapped no other
\* call, and no access another call left behind, returns the data of that read,
\* never that of an earlier access left in ctrl_path_rsp_buf and never because
\* of the notification for another (iommu_ref_api.cc:59-63, iommu_top.cc:1319).
OwnDataAlone == \A u \in Callers : Returned(u) /\ u \notin overlapped => HasOwnData(u)

\* A bit of the MRIF, once pending, stays so: the IOMMU only ever sets bits.
MrifAccumulates == [][word \subseteq word']_word

\* Every walk that has started ends and every call returns: the ring of request
\* FIFO, arbiter, pending queue, answer FIFO and the thread that reads answers
\* and writes requests never closes, and no wake-up of the arbiter is lost.  As
\* walks and calls are finite in number, none is left behind if again and
\* again there is a moment when none is open.
EveryAccessEnds == []<>((\A w \in AllWalks : left[w] = 0) /\ Active = {})
=============================================================================
