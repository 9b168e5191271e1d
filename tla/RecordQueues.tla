---------------------------- MODULE RecordQueues ----------------------------
(* The fault queue, the page request queue and the interrupts of the IOMMU: *)
(* report_fault, handle_page_request, generate_interrupt,                   *)
(* release_pending_interrupt and the registers FQB, FQH, FQCSR, PQB, PQH,   *)
(* PQCSR, IPSR and MSI_VEC_CTRL.                                            *)
(*                                                                          *)
(* The thread "fault_cq" reports the faults of the data path, "msg" handles *)
(* the page requests of devices (and reports their faults), the CPUs of the *)
(* driver write registers.  A record and an MSI are writes to memory that   *)
(* suspend the thread; the answer to one wakes every thread that waits on   *)
(* the control path (ctrl_path_rsp_event is one event).  Interrupts are     *)
(* MSIs: fctl.wsi is 0.  The memory-fault bits fqmf and pqmf are left out:  *)
(* write_memory of this build never fails and the bases of the queues are   *)
(* masked to the physical address width.                                    *)
EXTENDS Integers, Sequences, FiniteSetsExt

CONSTANTS
  QUEUE_SIZE,    \* entries of a queue, 2^(log2szm1 + 1)
  Cpus,          \* CPUs of the driver
  Vectors, Icvec,\* icvec: queue -> vector
  RequestKinds,  \* page requests: "last" of a group, "more" to come, "disallowed"
  MaxRecords,    \* bound: faults, and page requests
  MaxMasks,      \* bound: times a vector is masked
  MaxRestarts,   \* bound: times a queue is disabled
  Alone,         \* one thread at a time uses the control path
  Quiet          \* a queue is disabled only when no record is on its way

Queues == {"fault", "page"}
Reporters == {"fault_cq", "msg"}
Threads == Reporters \cup Cpus

ASSUME RecordQueuesAssumption ==
  /\ QUEUE_SIZE \in Nat \ {0, 1}
  /\ Cpus \cap Reporters = {}
  /\ Icvec \in [Queues -> Vectors]
  /\ RequestKinds \subseteq {"last", "more", "disallowed"}
  /\ {MaxRecords, MaxMasks, MaxRestarts} \subseteq Nat
  /\ {Alone, Quiet} \subseteq BOOLEAN

VARIABLES
  on,        \* fqcsr.fqon, pqcsr.pqon (equal to fqen, pqen between writes)
  of,        \* fqof, pqof
  head, tail,\* fqh, fqt, pqh, pqt
  ring,      \* the queues in memory: the number of the record in a slot, or 0
  ip,        \* ipsr.fip, ipsr.pip
  masked,    \* msi_vec_ctrl.m
  msi_pending,
  irq,       \* vectors whose MSI has reached the interrupt controller
  at,        \* what each thread waits for
  job,       \* the locals it goes on with
  woken,     \* threads whose wait is over
  sent,      \* control-path writes on their way to memory, in order
  duty,      \* CPU -> what its interrupt handler has still to do
  made,      \* queue -> faults or page requests so far; their records' numbers
  kind,      \* page request -> its kind
  answers,   \* the IOMMU's own responses to page requests
  accepted,  \* history: records the tail has moved over since the last start
  taken,     \* history: records the driver has read since the last start
  past,      \* history: records accepted before the last start
  masks, restarts

registers == <<on, of, head, tail>>
interrupts == <<ip, masked, msi_pending>>
threads == <<at, job, woken>>
history == <<accepted, taken, past>>
vars == <<registers, ring, interrupts, irq, threads, sent, duty, made, kind, answers,
          history, masks, restarts>>

Slots == 0..QUEUE_SIZE - 1
After(i) == (i + 1) % QUEUE_SIZE
NoReply == [pr |-> 0, code |-> "none"]
NoJob == [q |-> "fault", rec |-> 0, slot |-> 0, reply |-> NoReply,
          unmask |-> FALSE, vec |-> CHOOSE v \in Vectors : TRUE]

Init ==
  /\ on = [q \in Queues |-> TRUE] /\ of = [q \in Queues |-> FALSE]
  /\ head = [q \in Queues |-> 0] /\ tail = [q \in Queues |-> 0]
  /\ ring = [q \in Queues |-> [i \in Slots |-> 0]]
  /\ ip = [q \in Queues |-> FALSE]
  /\ masked = [v \in Vectors |-> FALSE] /\ msi_pending = [v \in Vectors |-> FALSE]
  /\ irq = {}
  /\ at = [t \in Threads |-> "idle"] /\ job = [t \in Threads |-> NoJob] /\ woken = {}
  /\ sent = <<>> /\ duty = [c \in Cpus |-> {}]
  /\ made = [q \in Queues |-> 0] /\ kind = <<>> /\ answers = <<>>
  /\ accepted = [q \in Queues |-> <<>>] /\ taken = [q \in Queues |-> <<>>]
  /\ past = [q \in Queues |-> {}]
  /\ masks = 0 /\ restarts = 0

-----------------------------------------------------------------------------
(* Pieces of the handlers.                                                  *)

\* Thread t may enter a handler.
Free(t) == at[t] = "idle" /\ (Alone => \A u \in Threads : at[u] = "idle")

Full_Wrapped(q) == tail[q] + 1 = head[q]
Full(q) == After(tail[q]) = head[q]

\* The end of a handler; handle_page_request sends its own response, if any.
Finish(t, reply) ==
  /\ at' = [at EXCEPT ![t] = "idle"] /\ job' = [job EXCEPT ![t] = NoJob]
  /\ answers' = IF reply = NoReply THEN answers ELSE Append(answers, reply)

\* generate_interrupt for q, the last call of the handler of t.
Pended_Drops(v) == msi_pending
Pended(v) == [msi_pending EXCEPT ![v] = TRUE]
Raise(t, q, reply) ==
  \/ /\ ip[q]
     /\ Finish(t, reply) /\ UNCHANGED <<ip, msi_pending, sent>>
  \/ /\ ~ip[q] /\ masked[Icvec[q]]
     /\ ip' = [ip EXCEPT ![q] = TRUE] /\ msi_pending' = Pended(Icvec[q])
     /\ Finish(t, reply) /\ UNCHANGED sent
  \/ /\ ~ip[q] /\ ~masked[Icvec[q]]
     /\ ip' = [ip EXCEPT ![q] = TRUE]
     /\ sent' = Append(sent, [what |-> "msi", v |-> Icvec[q]])
     /\ at' = [at EXCEPT ![t] = "msi"]
     /\ job' = [job EXCEPT ![t] = [NoJob EXCEPT !.reply = reply]]
     /\ UNCHANGED <<msi_pending, answers>>

\* The response to a record that is dropped at once.
Refusal_Silent(q, whenOff, whenFull) == IF on[q] THEN NoReply ELSE whenOff
Refusal(q, whenOff, whenFull) == IF on[q] THEN whenFull ELSE whenOff

\* Record number n goes to queue q: report_fault, or handle_page_request from its
\* test of pqon.  The response depends on what becomes of the record.
Record(t, q, n, whenOff, whenFull, whenQueued) ==
  \/ /\ ~on[q] \/ of[q]
     /\ Finish(t, Refusal(q, whenOff, whenFull))
     /\ UNCHANGED <<of, ip, msi_pending, sent>>
  \/ /\ on[q] /\ ~of[q] /\ Full(q)
     /\ of' = [of EXCEPT ![q] = TRUE]
     /\ Raise(t, q, Refusal(q, whenOff, whenFull))
  \/ /\ on[q] /\ ~of[q] /\ ~Full(q)
     /\ sent' = Append(sent, [what |-> "record", q |-> q, slot |-> tail[q], rec |-> n])
     /\ at' = [at EXCEPT ![t] = "record"]
     /\ job' = [job EXCEPT ![t] = [NoJob EXCEPT !.q = q, !.rec = n, !.slot = tail[q],
                                                !.reply = whenQueued]]
     /\ UNCHANGED <<of, ip, msi_pending, answers>>

-----------------------------------------------------------------------------
(* The IOMMU.                                                               *)

\* fault_cq_proc_thread takes a task that faulted.
Fault ==
  LET n == made["fault"] + 1
  IN  /\ Free("fault_cq") /\ n <= MaxRecords
      /\ made' = [made EXCEPT !["fault"] = n]
      /\ Record("fault_cq", "fault", n, NoReply, NoReply, NoReply)
      /\ UNCHANGED <<on, head, tail, ring, masked, irq, woken, duty, kind, history,
                     masks, restarts>>

\* handle_page_request: a request that is not allowed is a fault and "invalid",
\* any other goes to the page request queue.
PageRequest(k) ==
  LET n == Len(kind) + 1
      f == made["fault"] + 1
      Reply(code) == IF k = "more" THEN NoReply ELSE [pr |-> n, code |-> code]
  IN  /\ Free("msg") /\ n <= MaxRecords
      /\ kind' = Append(kind, k)
      /\ IF k = "disallowed"
         THEN /\ f <= MaxRecords
              /\ made' = [made EXCEPT !["page"] = n, !["fault"] = f]
              /\ Record("msg", "fault", f, Reply("invalid"), Reply("invalid"), Reply("invalid"))
         ELSE /\ made' = [made EXCEPT !["page"] = n]
              /\ Record("msg", "page", n, Reply("failure"), Reply("success"), NoReply)
      /\ UNCHANGED <<on, head, tail, ring, masked, irq, woken, duty, history, masks, restarts>>

\* Memory takes the next write; its response wakes every thread that waits on
\* ctrl_path_rsp_event.
Memory ==
  /\ sent # <<>> /\ sent' = Tail(sent)
  /\ LET w == Head(sent)
     IN  IF w.what = "record"
         THEN ring' = [ring EXCEPT ![w.q][w.slot] = w.rec] /\ UNCHANGED irq
         ELSE irq' = irq \cup {w.v} /\ UNCHANGED ring
  /\ woken' = woken \cup {t \in Threads : at[t] # "idle"}
  /\ UNCHANGED <<registers, interrupts, at, job, duty, made, kind, answers, history,
                 masks, restarts>>

\* Thread t goes on after its record was written: the tail moves, and the queue
\* interrupts.
Recorded(t, q) ==
  /\ tail' = [tail EXCEPT ![q] = After(job[t].slot)]
  /\ accepted' = [accepted EXCEPT ![q] = Append(@, job[t].rec)]
  /\ Raise(t, q, job[t].reply)

Continue(t) ==
  /\ t \in woken /\ woken' = woken \ {t}
  /\ \/ /\ at[t] = "record"
        /\ Recorded(t, job[t].q)
        /\ UNCHANGED <<on, of, head, masked>>
     \/ /\ at[t] = "msi" /\ ~job[t].unmask
        /\ Finish(t, job[t].reply)
        /\ UNCHANGED <<registers, interrupts, sent, accepted>>
     \/ /\ at[t] = "msi" /\ job[t].unmask      \* the end of release_pending_interrupt
        /\ msi_pending' = [msi_pending EXCEPT ![job[t].vec] = FALSE]
        /\ masked' = [masked EXCEPT ![job[t].vec] = FALSE]
        /\ Finish(t, NoReply)
        /\ UNCHANGED <<registers, ip, sent, accepted>>
  /\ UNCHANGED <<ring, irq, duty, made, kind, taken, past, masks, restarts>>

-----------------------------------------------------------------------------
(* The driver: its interrupt handler, and its writes to the registers.      *)

\* A CPU takes an interrupt and reads ipsr.
TakeInterrupt(c, v) ==
  /\ v \in irq /\ irq' = irq \ {v}
  /\ at[c] = "idle" /\ duty[c] = {}
  /\ duty' = [duty EXCEPT ![c] = {<<"ack", q>> : q \in {p \in Queues : ip[p] /\ Icvec[p] = v}}]
  /\ UNCHANGED <<registers, ring, interrupts, threads, sent, made, kind, answers, history,
                 masks, restarts>>

\* Write 1 to the bit of q in ipsr.
Reraises(q) == of[q]
Acknowledge(c, q) ==
  /\ <<"ack", q>> \in duty[c] /\ Free(c)
  /\ duty' = [duty EXCEPT ![c] = (@ \ {<<"ack", q>>}) \cup {<<"drain", q>>}]
  /\ IF Reraises(q) /\ ~masked[Icvec[q]]
     THEN /\ ip' = [ip EXCEPT ![q] = TRUE]
          /\ sent' = Append(sent, [what |-> "msi", v |-> Icvec[q]])
          /\ at' = [at EXCEPT ![c] = "msi"] /\ UNCHANGED msi_pending
     ELSE /\ ip' = [ip EXCEPT ![q] = Reraises(q)]
          /\ msi_pending' = IF Reraises(q) THEN Pended(Icvec[q]) ELSE msi_pending
          /\ UNCHANGED <<sent, at>>
  /\ UNCHANGED <<registers, ring, masked, irq, job, woken, made, kind, answers, history,
                 masks, restarts>>

\* Read the records up to the tail and write the head.
InRing(q) == [i \in 1..((tail[q] - head[q]) % QUEUE_SIZE) |->
                ring[q][(head[q] + i - 1) % QUEUE_SIZE]]
Drain(c, q) ==
  /\ <<"drain", q>> \in duty[c] /\ at[c] = "idle"
  /\ duty' = [duty EXCEPT ![c] = (@ \ {<<"drain", q>>}) \cup {<<"clear", q>>}]
  /\ taken' = [taken EXCEPT ![q] = @ \o InRing(q)]
  /\ head' = [head EXCEPT ![q] = tail[q]]
  /\ UNCHANGED <<on, of, tail, ring, interrupts, irq, threads, sent, made, kind, answers,
                 accepted, past, masks, restarts>>

\* Write 1 to fqof or pqof.
Clear(c, q) ==
  /\ <<"clear", q>> \in duty[c] /\ at[c] = "idle"
  /\ duty' = [duty EXCEPT ![c] = @ \ {<<"clear", q>>}]
  /\ of' = [of EXCEPT ![q] = FALSE]
  /\ UNCHANGED <<on, head, tail, ring, interrupts, irq, threads, sent, made, kind, answers,
                 history, masks, restarts>>

Mask(v) ==
  /\ ~masked[v] /\ masks < MaxMasks
  /\ masked' = [masked EXCEPT ![v] = TRUE] /\ masks' = masks + 1
  /\ UNCHANGED <<registers, ring, ip, msi_pending, irq, threads, sent, duty, made, kind,
                 answers, history, restarts>>

Released_Never(v) == FALSE
Released(v) == msi_pending[v]

\* Clearing m first sends the message that is pending: release_pending_interrupt.
Unmask(c, v) ==
  /\ masked[v] /\ Free(c) /\ duty[c] = {}
  /\ IF Released(v)
     THEN /\ sent' = Append(sent, [what |-> "msi", v |-> v])
          /\ at' = [at EXCEPT ![c] = "msi"]
          /\ job' = [job EXCEPT ![c] = [NoJob EXCEPT !.unmask = TRUE, !.vec = v]]
          /\ UNCHANGED masked
     ELSE masked' = [masked EXCEPT ![v] = FALSE] /\ UNCHANGED <<sent, at, job>>
  /\ UNCHANGED <<registers, ring, ip, msi_pending, irq, woken, duty, made, kind, answers,
                 history, masks, restarts>>

\* fqen := 0.  The queue is off at once.
Recording(q) == \E t \in Threads : at[t] = "record" /\ job[t].q = q
Handling(q) == \E c \in Cpus : \E d \in duty[c] : d[2] = q
Disable(q) ==
  /\ on[q] /\ restarts < MaxRestarts /\ ~Handling(q) /\ (Quiet => ~Recording(q))
  /\ on' = [on EXCEPT ![q] = FALSE] /\ restarts' = restarts + 1
  /\ UNCHANGED <<of, head, tail, ring, interrupts, irq, threads, sent, duty, made, kind,
                 answers, history, masks>>

\* A write of fqb clears the head, then fqen := 1 clears the tail and fqof.
Enable(q) ==
  /\ ~on[q] /\ ~Handling(q)
  /\ on' = [on EXCEPT ![q] = TRUE] /\ of' = [of EXCEPT ![q] = FALSE]
  /\ head' = [head EXCEPT ![q] = 0] /\ tail' = [tail EXCEPT ![q] = 0]
  /\ past' = [past EXCEPT ![q] = @ \cup Range(accepted[q])]
  /\ accepted' = [accepted EXCEPT ![q] = <<>>] /\ taken' = [taken EXCEPT ![q] = <<>>]
  /\ UNCHANGED <<ring, interrupts, irq, threads, sent, duty, made, kind, answers,
                 masks, restarts>>

Iommu == Fault \/ (\E k \in RequestKinds : PageRequest(k)) \/ Memory
         \/ \E t \in Threads : Continue(t)
Driver == \/ \E c \in Cpus, v \in Vectors : TakeInterrupt(c, v) \/ Unmask(c, v)
          \/ \E c \in Cpus, q \in Queues : Acknowledge(c, q) \/ Drain(c, q) \/ Clear(c, q)
          \/ \E v \in Vectors : Mask(v)
          \/ \E q \in Queues : Disable(q) \/ Enable(q)
Next == Iommu \/ Driver
Spec == Init /\ [][Next]_vars

\* Memory and the threads go on; every CPU takes its interrupts, finishes its
\* handler, unmasks what it masked and enables what it disabled.
FairSpec ==
  /\ Spec /\ WF_vars(Memory)
  /\ \A t \in Threads : WF_vars(Continue(t))
  /\ WF_vars(Driver)

-----------------------------------------------------------------------------
\* Every variable has its type.
TypeOK ==
  /\ {on, of, ip} \subseteq [Queues -> BOOLEAN]
  /\ {head, tail} \subseteq [Queues -> Slots]
  /\ ring \in [Queues -> [Slots -> 0..MaxRecords]]
  /\ {masked, msi_pending} \subseteq [Vectors -> BOOLEAN] /\ irq \subseteq Vectors
  /\ at \in [Threads -> {"idle", "record", "msi"}]
  /\ woken \subseteq {t \in Threads : at[t] # "idle"}
  /\ made \in [Queues -> 0..MaxRecords] /\ Len(answers) <= Len(kind)
  /\ \A q \in Queues : Len(accepted[q]) <= made[q]

\* What the driver has read and what lies between head and tail is what the IOMMU
\* moved the tail over, in that order: a record is written before it can be read,
\* is read once, and is not overwritten before that.
RecordsIntact == TypeOK /\
  \A q \in Queues : on[q] => taken[q] \o InRing(q) = accepted[q]

\* While ipsr says that an interrupt of q is pending, the driver has yet to
\* acknowledge it: the message is on its way, has arrived, waits behind the mask,
\* or a handler is about to write ipsr.  Otherwise the queue would stay silent for
\* ever, because generate_interrupt returns while the bit is set.
NoLostInterrupt ==
  \A q \in Queues : ip[q] =>
    \/ Icvec[q] \in irq
    \/ [what |-> "msi", v |-> Icvec[q]] \in Range(sent)
    \/ masked[Icvec[q]] /\ msi_pending[Icvec[q]]
    \/ \E c \in Cpus : <<"ack", q>> \in duty[c]

\* A page request is answered by the IOMMU or put before the driver, never both and
\* never twice; one that needs an answer gets one of them.
EachPageRequestOnce ==
  \A n \in DOMAIN kind :
    LET reported == n \in past["page"] \cup Range(accepted["page"])
        own == {i \in DOMAIN answers : answers[i].pr = n}
        underway == n = Len(kind) /\ at["msg"] # "idle"
    IN  /\ Cardinality(own) <= 1 /\ (reported => own = {})
        /\ kind[n] # "more" /\ ~underway => reported \/ own # {}

\* Every record the tail moved over is read by the driver, unless it disables the
\* queue first; and a queue that overflowed takes records again.
RecordsReachDriver ==
  \A q \in Queues :
    /\ \A n \in 1..MaxRecords :
         n \in Range(accepted[q]) ~> n \in Range(taken[q]) \cup past[q]
    /\ of[q] ~> ~of[q]
=============================================================================
