---------------------------- MODULE CommandQueue ----------------------------
(* The command queue of the IOMMU: iommu_command_queue.cc, the ITAG tracker *)
(* of iommu_ats.cc and the registers CQB, CQT, CQCSR and IPSR of            *)
(* iommu_reg.cc.                                                            *)
(*                                                                          *)
(* Two threads call into it.  "sw" is the driver: it writes the registers   *)
(* and calls process_commands, which handles one command per call.  "msg"   *)
(* delivers invalidation completions and time-outs of the ATS protocol.     *)
(* Every access to memory suspends its caller until the DDR answers         *)
(* (iommu_ref_api.cc:50), so a call is split where it fetches the command,  *)
(* waits for the cache invalidation pipeline, writes the data of an         *)
(* IOFENCE.C or an MSI; the other thread may run there.                     *)
EXTENDS Integers, Sequences, FiniteSetsExt

CONSTANTS
  QUEUE_SIZE,   \* entries of the ring, 2^(cqb.log2szm1 + 1)
  MAX_ITAGS,    \* RVI_IOMMU_MAX_ITAGS
  CC,           \* completions a device sends for one invalidation request
  Programs,     \* sequences of commands the driver may post
  MaxRestarts,  \* bound: times the queue is enabled
  MaxExpiries,  \* bound: time-outs of the ATS timer
  Batched,      \* a completion may name several ITAGs
  LateAnswers,  \* a device may answer a request that has timed out
  Patient       \* the driver leaves the queue alone while "msg" is inside it

ASSUME QueueAssumption == /\ QUEUE_SIZE \in Nat \ {0, 1}
                          /\ MAX_ITAGS \in Nat \ {0}
                          /\ CC \in 1..8
                          /\ MaxRestarts \in Nat
                          /\ MaxExpiries \in Nat
                          /\ {Batched, LateAnswers, Patient} \subseteq BOOLEAN

\* "cache" stands for the IOTINVAL and IODIR commands, "bad" for an address
\* beyond the physical address width; rid and av matter to one op each.
Command == [op : {"cache", "illegal", "prgr", "inval", "fence"},
            rid : Nat, av : {"none", "good", "bad"}]

ASSUME ProgramsAssumption ==
  Programs # {} /\ IsFiniteSet(Programs) /\ Programs \subseteq Seq(Command)

Ids == 1..Max({Len(p) : p \in Programs})
Tags == 0..MAX_ITAGS - 1
Threads == {"sw", "msg"}

VARIABLES
  posted,    \* commands posted so far; a command is named by its position
  ring,      \* the queue in memory: index -> name, 0 when never written
  cqh, cqt,  \* head (of the IOMMU) and tail (of the driver)
  csr,       \* cqcsr
  cip,       \* ipsr.cip
  itag,      \* itag_tracker
  stalled,   \* command_queue_stall_for_itag and pending_inval_req_*: 0 or a name
  wait,      \* iofence_wait_pending_inv
  fence,     \* iofence_pending_*: the name of the waiting IOFENCE.C
  timeout,   \* ats_inv_req_timeout
  at,        \* where each thread is
  run,       \* the command each thread works on
  owes,      \* devices: requests received and not answered completely
  executed,  \* history: names in the order their execution ended
  dropped,   \* history: commands the driver gave up by setting up the ring anew
  unreported,\* history: requests that timed out, until cmd_to told the driver
  restarts, expiries

queue == <<posted, ring, cqt>>
tracker == <<itag, stalled, owes>>
pending == <<wait, fence, timeout>>
history == <<executed, dropped, unreported>>
vars == <<posted, ring, cqh, cqt, csr, cip, itag, stalled, wait, fence, timeout,
          at, run, owes, executed, dropped, unreported, restarts, expiries>>

Free == [busy |-> FALSE, cmd |-> 0, rcvd |-> 0]
Next1(i) == (i + 1) % QUEUE_SIZE
Op(n) == posted[n].op
Rid(n) == posted[n].rid
Err(c) == c.cqmf \/ c.cmd_ill \/ c.cmd_to
CsrOff == [cqen |-> FALSE, cqon |-> FALSE, busy |-> FALSE, cie |-> FALSE,
           cqmf |-> FALSE, cmd_ill |-> FALSE, cmd_to |-> FALSE]
Done == {executed[i] : i \in DOMAIN executed}
\* Names still to be fetched.
InRing == {ring[(cqh + k) % QUEUE_SIZE] : k \in 0..((cqt - cqh) % QUEUE_SIZE) - 1}

Init ==
  /\ posted = <<>> /\ ring = [i \in 0..QUEUE_SIZE - 1 |-> 0]
  /\ cqh = 0 /\ cqt = 0 /\ csr = CsrOff /\ cip = FALSE
  /\ itag = [i \in Tags |-> Free] /\ stalled = 0
  /\ wait = FALSE /\ fence = 0 /\ timeout = FALSE
  /\ at = [t \in Threads |-> "idle"] /\ run = [t \in Threads |-> 0]
  /\ owes = {} /\ executed = <<>> /\ dropped = {} /\ unreported = {}
  /\ restarts = 0 /\ expiries = 0

-----------------------------------------------------------------------------
(* Pieces of the handlers.                                                  *)

\* generate_interrupt(COMMAND_QUEUE) with csr = c: whether an MSI is written.
Interrupts(c) == c.cie /\ ~cip

Goto(t, place) == at' = [at EXCEPT ![t] = place]

\* The end of a command: the head moves on.
Retire_HeadStays(n) == executed' = Append(executed, n) /\ UNCHANGED cqh
Retire(n) == /\ cqh' = Next1(cqh)
             /\ executed' = Append(executed, n)

\* any_ats_invalidation_requests_pending.
AnyBusy_First(tags) == tags[0].busy
AnyBusy(tags) == \E i \in Tags : tags[i].busy

\* Whether one more completion makes an ITAG complete: num_rsp_rcvd and cc have
\* three bits, and cc = 0 stands for eight.
Complete_Before(rcvd) == rcvd = CC
Complete(rcvd) == (rcvd + 1) % 8 = CC % 8

\* allocate_itag takes the first free tag of tags.
FreeTag(tags) == {i \in Tags : ~tags[i].busy /\ \A j \in Tags : j < i => tags[j].busy}
Allocated(tags, n) == [i \in Tags |->
   IF i \in FreeTag(tags) THEN [busy |-> TRUE, cmd |-> n, rcvd |-> 0] ELSE tags[i]]
Sent(tags, n) == {[cmd |-> n, tag |-> i, left |-> CC] : i \in FreeTag(tags)}

\* The end of do_pending_iofence: a queue disabled meanwhile goes off.
Resumed(c) == [c EXCEPT !.cqon = c.cqen, !.busy = FALSE]

\* queue_any_blocked_ats_inval_req, with the tracker and the devices so far.
UnblockInval_Never(tags, dev) == itag' = tags /\ owes' = dev /\ UNCHANGED stalled
UnblockInval(tags, dev) ==
  IF stalled # 0 /\ FreeTag(tags) # {}
  THEN /\ itag' = Allocated(tags, stalled)
       /\ owes' = dev \cup Sent(tags, stalled)
       /\ stalled' = 0
  ELSE itag' = tags /\ owes' = dev /\ UNCHANGED stalled

\* What follows do_iofence_c, with the result ok and cqcsr so far: nothing more
\* in process_commands; the rest of do_pending_iofence and of
\* do_pending_iofence_inval_reqs in "msg".
AfterFence(t, n, ok, c, tags, dev) ==
  /\ IF ok THEN Retire(n) ELSE UNCHANGED <<cqh, executed>>
  /\ Goto(t, "idle")
  /\ CASE t = "sw" -> csr' = c /\ itag' = tags /\ owes' = dev /\ UNCHANGED stalled
       [] t = "msg" /\ ~wait' -> /\ csr' = Resumed(c)
                                 /\ UnblockInval(tags, dev)
       [] OTHER -> csr' = c /\ itag' = tags /\ owes' = dev /\ UNCHANGED stalled

\* The fence n stops with error bit `bit`, after the MSI when one is due.
FenceFails(t, n, bit, msi, tags, dev) ==
  LET c == [csr EXCEPT ![bit] = TRUE]
  IN IF ~csr[bit] /\ Interrupts(csr)
     THEN /\ csr' = c /\ cip' = TRUE
          /\ Goto(t, msi)
          /\ itag' = tags /\ owes' = dev
          /\ UNCHANGED <<cqh, executed, stalled>>
     ELSE AfterFence(t, n, FALSE, c, tags, dev) /\ UNCHANGED cip

\* do_iofence_c for the IOFENCE.C n in thread t; tags, dev, late and lost are the
\* tracker, the devices, ats_inv_req_timeout and `unreported` so far.
Fence(t, n, tags, dev, late, lost) ==
  /\ run' = [run EXCEPT ![t] = n]
  /\ \/ \* an invalidation is outstanding: the fence waits
        /\ AnyBusy(tags)
        /\ wait' = TRUE /\ fence' = n
        /\ AfterFence(t, n, FALSE, csr, tags, dev)
        /\ timeout' = late /\ unreported' = lost /\ UNCHANGED cip
     \/ /\ ~AnyBusy(tags)
        /\ wait' = FALSE /\ UNCHANGED fence
        /\ \/ \* one timed out: cmd_to, and the fence does not complete
              /\ late
              /\ unreported' = {}
              /\ FenceFails(t, n, "cmd_to", "msi_to", tags, dev)
              /\ timeout' = (at'[t] = "msi_to")
           \/ \* the data is on its way to memory
              /\ ~late /\ posted[n].av = "good"
              /\ Goto(t, "fence_write")
              /\ itag' = tags /\ owes' = dev
              /\ timeout' = late /\ unreported' = lost
              /\ UNCHANGED <<cqh, executed, csr, stalled, cip>>
           \/ \* the address is beyond the physical address width
              /\ ~late /\ posted[n].av = "bad"
              /\ FenceFails(t, n, "cqmf", "msi_mf", tags, dev)
              /\ timeout' = late /\ unreported' = lost
           \/ /\ ~late /\ posted[n].av = "none"
              /\ AfterFence(t, n, TRUE, csr, tags, dev)
              /\ timeout' = late /\ unreported' = lost /\ UNCHANGED cip

-----------------------------------------------------------------------------
(* The driver.                                                              *)

SoftwareMay == at["sw"] = "idle" /\ (Patient => at["msg"] = "idle")

\* The command is written to memory and cqt moved, unless the ring is full.
Post(p) ==
  /\ SoftwareMay /\ csr.cqen
  /\ Len(posted) < Len(p) /\ posted = SubSeq(p, 1, Len(posted))
  /\ Next1(cqt) # cqh
  /\ posted' = SubSeq(p, 1, Len(posted) + 1)
  /\ ring' = [ring EXCEPT ![cqt] = Len(posted) + 1]
  /\ cqt' = Next1(cqt)
  /\ UNCHANGED <<cqh, csr, cip, at, run, tracker, pending, history, restarts, expiries>>

\* process_commands up to the fetch; when a gate is closed or the queue is
\* empty it returns without effect.
Fetch ==
  /\ SoftwareMay
  /\ csr.cqon /\ csr.cqen /\ ~Err(csr)
  /\ stalled = 0 /\ ~wait
  /\ cqh # cqt
  /\ Goto("sw", "fetch")
  /\ run' = [run EXCEPT !["sw"] = ring[cqh]]
  /\ UNCHANGED <<queue, cqh, csr, cip, tracker, pending, history, restarts, expiries>>

\* process_commands from the fetched command on.
Execute ==
  /\ at["sw"] = "fetch"
  /\ LET n == run["sw"] IN
     \/ /\ n # 0 /\ Op(n) = "fence"
        /\ Fence("sw", n, itag, owes, timeout, unreported)
        /\ UNCHANGED dropped
     \/ /\ n # 0 /\ Op(n) = "inval"
        /\ Retire(n)
        /\ IF FreeTag(itag) = {}
           THEN stalled' = n /\ UNCHANGED <<itag, owes>>
           ELSE /\ itag' = Allocated(itag, n) /\ owes' = owes \cup Sent(itag, n)
                /\ UNCHANGED stalled
        /\ Goto("sw", "idle")
        /\ UNCHANGED <<csr, cip, pending, run, dropped, unreported>>
     \/ /\ n # 0 /\ Op(n) = "prgr"
        /\ Retire(n)
        /\ Goto("sw", "idle")
        /\ UNCHANGED <<csr, cip, tracker, pending, run, dropped, unreported>>
     \/ /\ n # 0 /\ Op(n) = "cache"
        /\ Goto("sw", "pipeline")
        /\ UNCHANGED <<cqh, csr, cip, tracker, pending, run, history>>
     \/ /\ n # 0 => Op(n) = "illegal"
        /\ csr' = [csr EXCEPT !.cmd_ill = TRUE]
        /\ IF Interrupts(csr) THEN cip' = TRUE /\ Goto("sw", "msi")
                              ELSE Goto("sw", "idle") /\ UNCHANGED cip
        /\ UNCHANGED <<cqh, tracker, pending, run, history>>
  /\ UNCHANGED <<queue, restarts, expiries>>

\* The invalidation pipeline has answered: perf_enqueue_cache_invalidation returns.
PipelineDone ==
  /\ at["sw"] = "pipeline"
  /\ Retire(run["sw"])
  /\ Goto("sw", "idle")
  /\ UNCHANGED <<queue, csr, cip, tracker, pending, run, dropped, unreported,
                 restarts, expiries>>

\* A memory write of thread t is answered.
Written(t) ==
  \/ /\ at[t] = "fence_write"
     /\ AfterFence(t, run[t], TRUE, csr, itag, owes)
     /\ UNCHANGED timeout
  \/ /\ at[t] = "msi_to"
     /\ timeout' = FALSE
     /\ AfterFence(t, run[t], FALSE, csr, itag, owes)
  \/ /\ at[t] = "msi_mf"
     /\ AfterFence(t, run[t], FALSE, csr, itag, owes)
     /\ UNCHANGED timeout
  \/ /\ at[t] = "msi"
     /\ Goto(t, "idle")
     /\ UNCHANGED <<cqh, csr, executed, tracker, timeout>>
WriteAnswered(t) ==
  /\ UNCHANGED wait
  /\ Written(t)
  /\ UNCHANGED <<queue, cip, fence, run, dropped, unreported, restarts, expiries>>

\* CQCSR: dropped while busy; cqen 0 -> 1 starts the queue, 1 -> 0 stops it, the
\* error bits are cleared by writing ones.  busy is set for the write and
\* stays set when a waiting fence keeps the queue on.  With a new start the
\* driver gives up what it had posted and was not executed.
WriteCqcsr(cqen, clear) ==
  /\ SoftwareMay /\ ~csr.busy
  /\ cqen /\ ~csr.cqen => restarts < MaxRestarts /\ cqt = 0
  /\ LET on == cqen /\ ~csr.cqen
         off == ~cqen /\ csr.cqen
         cqon == IF on THEN TRUE ELSE IF off /\ ~wait THEN FALSE ELSE csr.cqon
         erase == on \/ clear
     IN /\ csr' = [cqen |-> cqen, cqon |-> cqon, busy |-> cqen # cqon, cie |-> TRUE,
                   cqmf |-> csr.cqmf /\ ~erase, cmd_ill |-> csr.cmd_ill /\ ~erase,
                   cmd_to |-> csr.cmd_to /\ ~erase]
        /\ cqh' = IF on THEN 0 ELSE cqh
        /\ restarts' = IF on THEN restarts + 1 ELSE restarts
        /\ dropped' = IF on THEN 1..Len(posted) \ Done ELSE dropped
  /\ csr' # csr
  /\ UNCHANGED <<queue, cip, tracker, pending, at, run, executed, unreported, expiries>>

\* CQB: dropped unless the queue is off; the tail restarts at 0.
WriteCqb ==
  /\ SoftwareMay /\ ~csr.busy /\ ~csr.cqon
  /\ cqt # 0
  /\ cqt' = 0
  /\ UNCHANGED <<posted, ring, cqh, csr, cip, tracker, pending, at, run, history,
                 restarts, expiries>>

\* IPSR with cip = 1: cleared, and raised again when an error bit is still set.
WriteIpsr_Once ==
  /\ SoftwareMay /\ cip
  /\ cip' = FALSE
  /\ UNCHANGED <<queue, cqh, csr, tracker, pending, at, run, history, restarts, expiries>>
WriteIpsr ==
  /\ SoftwareMay /\ cip
  /\ IF Err(csr) /\ csr.cie
     THEN Goto("sw", "msi") /\ UNCHANGED cip
     ELSE cip' = FALSE /\ UNCHANGED at
  /\ UNCHANGED <<queue, cqh, csr, tracker, pending, run, history, restarts, expiries>>

-----------------------------------------------------------------------------
(* Completions and time-outs.                                               *)

\* do_pending_iofence_inval_reqs.
Resume(tags, dev, late, lost) ==
  IF wait /\ ~AnyBusy(tags)
  THEN Fence("msg", fence, tags, dev, late, lost)
  ELSE /\ IF ~wait THEN UnblockInval(tags, dev)
                   ELSE itag' = tags /\ owes' = dev /\ UNCHANGED stalled
       /\ timeout' = late /\ unreported' = lost
       /\ UNCHANGED <<cqh, csr, cip, wait, fence, at, run, executed>>

\* handle_invalidation_completion for a message that answers the requests S:
\* the tags are taken in order up to the first that is not expected.
Completion(S) ==
  LET named == {s.tag : s \in S}
      rid == Rid((CHOOSE s \in S : TRUE).cmd)
      Unexpected(i) == ~itag[i].busy \/ Rid(itag[i].cmd) # rid
      counted == {i \in named : \A j \in named : j <= i => ~Unexpected(j)}
      tags == [i \in Tags |->
                IF i \notin counted THEN itag[i]
                ELSE IF Complete(itag[i].rcvd) THEN Free
                ELSE [itag[i] EXCEPT !.rcvd = (@ + 1) % 8]]
      dev == (owes \ S) \cup {[s EXCEPT !.left = @ - 1] : s \in {r \in S : r.left > 1}}
  IN /\ at["msg"] = "idle"
     /\ \A s, r \in S : Rid(s.cmd) = Rid(r.cmd)
     /\ Cardinality(named) = Cardinality(S)
     /\ IF counted = named
        THEN Resume(tags, dev, timeout, unreported)
        ELSE /\ itag' = tags /\ owes' = dev
             /\ UNCHANGED <<stalled, cqh, csr, cip, pending, at, run, executed, unreported>>
     /\ UNCHANGED <<queue, dropped, restarts, expiries>>
Answer == \E S \in SUBSET owes : /\ S # {} /\ (~Batched => Cardinality(S) = 1)
                                 /\ Completion(S)

\* do_ats_timer_expiry.
Expire ==
  \E V \in SUBSET {i \in Tags : itag[i].busy} :
    LET gone == {itag[i].cmd : i \in V}
        tags == [i \in Tags |-> IF i \in V THEN Free ELSE itag[i]]
        dev == IF LateAnswers THEN owes ELSE {o \in owes : o.cmd \notin gone}
    IN /\ at["msg"] = "idle" /\ V # {}
       /\ expiries < MaxExpiries /\ expiries' = expiries + 1
       /\ Resume(tags, dev, TRUE, unreported \cup gone)
       /\ UNCHANGED <<queue, dropped, restarts>>

-----------------------------------------------------------------------------
Software == \/ \E p \in Programs : Post(p)
            \/ Fetch
            \/ \E cqen, clear \in BOOLEAN : WriteCqcsr(cqen, clear)
            \/ WriteCqb
            \/ WriteIpsr
Continue == Execute \/ PipelineDone \/ \E t \in Threads : WriteAnswered(t)
Next == Software \/ Continue \/ Answer \/ Expire

Spec == Init /\ [][Next]_vars
\* The threads are scheduled, and a device answers what it has received (or the
\* protocol's time-out takes the request away).
FairSpec == Spec /\ WF_vars(Continue) /\ WF_vars(Answer)

-----------------------------------------------------------------------------
(* Properties.                                                              *)

\* Every variable has its type.
TypeOK ==
  /\ posted \in Seq(Command) /\ Len(posted) \in Ids \cup {0}
  /\ ring \in [0..QUEUE_SIZE - 1 -> Ids \cup {0}]
  /\ {cqh, cqt} \subseteq 0..QUEUE_SIZE - 1
  /\ csr \in [DOMAIN CsrOff -> BOOLEAN] /\ {cip, wait, timeout} \subseteq BOOLEAN
  /\ itag \in [Tags -> [busy : BOOLEAN, cmd : Ids \cup {0}, rcvd : 0..7]]
  /\ {stalled, fence} \subseteq Ids \cup {0}
  /\ at \in [Threads -> {"idle", "fetch", "pipeline", "fence_write",
                         "msi", "msi_to", "msi_mf"}]
  /\ run \in [Threads -> Ids \cup {0}]
  /\ owes \subseteq [cmd : Ids, tag : Tags, left : 1..8]
  /\ executed \in Seq(Ids) /\ dropped \subseteq Ids /\ unreported \subseteq Ids

\* A command is executed exactly once and in the order of posting: as long as
\* the queue is on, every command posted and not given up is either executed
\* or still in the ring, never both, and none is skipped or run again when a
\* fence is finished by the thread of a completion (cqh is moved in two places,
\* iommu_command_queue.cc:255 and :660).
EachCommandOnce ==
  /\ TypeOK
  /\ \A i, j \in DOMAIN executed : i < j => executed[i] < executed[j]
  /\ csr.cqon => InRing = (1..Len(posted)) \ (Done \cup dropped)

\* IOFENCE.C "guarantees that all previous commands fetched from the CQ have
\* been completed" (iommu_command_queue.cc:595): once a fence has been executed
\* no device still owes an answer to an earlier ATS.INVAL, none waits for an
\* ITAG, and none timed out without the driver having been told by cmd_to.
FenceMeansDone ==
  \A i \in DOMAIN executed : Op(executed[i]) = "fence" =>
    /\ \A o \in owes : o.cmd > executed[i]
    /\ stalled # 0 => stalled > executed[i]
    /\ \A n \in unreported : n > executed[i]

\* The queue stands still only while something is under way that will let it
\* go on: a waiting fence or a request waiting for an ITAG implies a busy ITAG
\* (iommu_ats.cc:66: a completion that is partly unexpected returns without
\* do_pending_iofence_inval_reqs).
WaitHasReason ==
  at["msg"] = "idle" /\ (wait \/ stalled # 0) => \E i \in Tags : itag[i].busy

\* A queue stopped by an error has an interrupt pending until the driver clears
\* the error: clearing cip alone raises it again (iommu_reg.cc:578).
StopIsSignalled == csr.cqon /\ Err(csr) /\ csr.cie => cip

\* Every wait for invalidations and every busy period of cqcsr ends: busy stays
\* set only while a fence keeps a disabled queue on, so the driver may wait.
QueueResumes == (wait \/ stalled # 0 \/ csr.busy) ~> ~(wait \/ stalled # 0 \/ csr.busy)
=============================================================================
