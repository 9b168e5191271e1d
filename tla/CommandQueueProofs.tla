------------------------- MODULE CommandQueueProofs -------------------------
(***************************************************************************)
(* Theorems about CommandQueue, for any size of the ring, number of ITAGs, *)
(* completions per invalidation and programs of the driver.                *)
(***************************************************************************)
EXTENDS CommandQueue, SequencesExt, FiniteSetTheorems, WellFoundedInduction, TLAPS

-----------------------------------------------------------------------------
(* Lemmas about numbers.                                                    *)

\* A set of natural numbers has a least element: < is well founded on Nat.
LEMMA NaturalsHaveMin ==
  ASSUME NEW S \in SUBSET Nat, S # {}
  PROVE  \E m \in S : \A n \in S : m <= n
<1> DEFINE R == OpToRel(<, Nat)
<1>1. IsWellFoundedOn(R, Nat)  BY NatLessThanWellFounded
<1>2. PICK m \in S : \A n \in S : <<n, m>> \notin R
  <2> HIDE DEF R
  <2> QED BY <1>1, WFMin
<1>3. ASSUME NEW n \in S PROVE m <= n
  <2>1. ~(n < m)  BY <1>2 DEF OpToRel
  <2> QED BY <2>1
<1> QED BY <1>3

\* A finite set of integers has a greatest element: strict inclusion of finite
\* sets is well founded, so that a set without one would have a smallest such
\* subset.
LEMMA FiniteHasMax ==
  ASSUME NEW S \in SUBSET Int, IsFiniteSet(S), S # {}
  PROVE  \E m \in S : \A n \in S : n <= m
<1> DEFINE Bad == {T \in SUBSET S : T # {} /\ ~\E m \in T : \A n \in T : n <= m}
<1>1. SUFFICES ASSUME Bad # {} PROVE FALSE
  BY <1>1
<1>2. IsWellFoundedOn(StrictSubsetOrdering(S), FiniteSubsetsOf(S))
  BY FS_StrictSubsetOrderingWellFounded
<1>3. Bad \subseteq FiniteSubsetsOf(S)
  BY FS_Subset DEF FiniteSubsetsOf
<1>4. PICK T \in Bad : \A U \in Bad : <<U, T>> \notin StrictSubsetOrdering(S)
  BY <1>1, <1>2, <1>3, WFMin
<1>5. PICK x \in T : TRUE
  BY <1>4
<1>6. T \ {x} \notin Bad
  BY <1>4, <1>5 DEF StrictSubsetOrdering
<1>7. T \ {x} # {}
  BY <1>4, <1>5
<1>8. PICK m \in T \ {x} : \A n \in T \ {x} : n <= m
  BY <1>4, <1>6, <1>7
<1> QED BY <1>4, <1>5, <1>8

-----------------------------------------------------------------------------
(* Types.                                                                  *)

Csr == [cqen : BOOLEAN, cqon : BOOLEAN, busy : BOOLEAN, cie : BOOLEAN,
        cqmf : BOOLEAN, cmd_ill : BOOLEAN, cmd_to : BOOLEAN]
Entry == [busy : BOOLEAN, cmd : Ids \cup {0}, rcvd : 0 .. 7]
Request == [cmd : Ids, tag : Tags, left : 1 .. 8]
Named(tags) == \A i \in Tags : tags[i].busy => tags[i].cmd # 0
TagTable == {tags \in [Tags -> Entry] : Named(tags)}
Indices == 0 .. QUEUE_SIZE - 1
Places == {"idle", "fetch", "pipeline", "fence_write", "msi", "msi_to", "msi_mf"}

QueueTyped == /\ posted \in Seq(Command) /\ Len(posted) \in Ids \cup {0}
              /\ ring \in [Indices -> Ids \cup {0}]
              /\ cqh \in Indices /\ cqt \in Indices
RegistersTyped == csr \in Csr /\ cip \in BOOLEAN /\ wait \in BOOLEAN /\ timeout \in BOOLEAN
TagsTyped == itag \in TagTable /\ owes \subseteq Request /\ stalled \in Ids \cup {0}
ThreadsTyped ==
  /\ at \in [Threads -> Places] /\ run \in [Threads -> Ids \cup {0}]
  /\ at["msg"] \in {"idle", "fence_write", "msi_to", "msi_mf"}
  /\ \A t \in Threads : at[t] \in {"pipeline", "fence_write", "msi_to", "msi_mf"} => run[t] # 0
  /\ fence \in Ids \cup {0} /\ (wait => fence # 0)
HistoryTyped == executed \in Seq(Ids) /\ dropped \subseteq Ids /\ unreported \subseteq Ids

Types == QueueTyped /\ RegistersTyped /\ TagsTyped /\ ThreadsTyped /\ HistoryTyped

\* The names of the commands: Ids is an interval that holds the length of every
\* program.
LEMMA IdsBound ==
  \E m \in Nat : Ids = 1 .. m /\ \A p \in Programs : Len(p) \in Nat /\ Len(p) <= m
<1> DEFINE L == {Len(p) : p \in Programs}
<1>1. \A p \in Programs : Len(p) \in Nat
  BY ProgramsAssumption
<1>2. IsFiniteSet(L) /\ L # {} /\ L \subseteq Nat
  <2>1. L # {} /\ L \subseteq Nat
    BY <1>1, ProgramsAssumption
  <2>2. IsFiniteSet(L)
    <3> DEFINE f == [p \in Programs |-> Len(p)]
    <3>1. f \in Surjection(Programs, L)
      BY DEF Surjection
    <3> QED BY <3>1, ProgramsAssumption, FS_Surjection
  <2> QED BY <2>1, <2>2
<1> HIDE DEF L
<1>3. \E m \in L : \A n \in L : n <= m
  BY <1>2, FiniteHasMax
<1>4. Max(L) \in L /\ \A n \in L : Max(L) >= n
  BY <1>2, <1>3 DEF Max
<1>5. \A p \in Programs : Len(p) \in L
  BY DEF L
<1> QED BY <1>1, <1>2, <1>4, <1>5 DEF Ids, L

LEMMA IdsNatural == Ids \subseteq Nat \ {0}
  BY IdsBound

LEMMA TagsAssumed == MAX_ITAGS \in Nat \ {0} /\ Tags = 0 .. MAX_ITAGS - 1 /\ 0 \in Tags
  BY QueueAssumption DEF Tags

\* allocate_itag takes at most one tag, a free one, and one if there is any.
LEMMA FreeTagOne ==
  ASSUME NEW tags \in TagTable
  PROVE  /\ \A i \in FreeTag(tags) : i \in Tags /\ ~tags[i].busy
         /\ \A i, j \in FreeTag(tags) : i = j
         /\ FreeTag(tags) = {} => \A i \in Tags : tags[i].busy
<1>1. \A i \in FreeTag(tags) : i \in Tags /\ ~tags[i].busy
  BY DEF FreeTag
<1>2. \A i, j \in FreeTag(tags) : i = j
  BY TagsAssumed DEF FreeTag
<1>3. ASSUME NEW i \in Tags, ~tags[i].busy PROVE FreeTag(tags) # {}
  <2> DEFINE F == {j \in Tags : ~tags[j].busy}
  <2>1. F \subseteq Nat /\ F # {}
    BY <1>3, TagsAssumed
  <2>2. PICK m \in F : \A n \in F : m <= n
    BY <2>1, NaturalsHaveMin
  <2>3. m \in FreeTag(tags)
    BY <2>1, <2>2, TagsAssumed DEF FreeTag
  <2> QED BY <2>3
<1> QED BY <1>1, <1>2, <1>3

LEMMA SentTyped ==
  ASSUME NEW tags \in TagTable, NEW n \in Ids
  PROVE  Allocated(tags, n) \in TagTable /\ Sent(tags, n) \subseteq Request
<1>1. \A i \in Tags : tags[i] \in Entry /\ (tags[i].busy => tags[i].cmd # 0)
  BY DEF TagTable, Named
<1>2. [busy |-> TRUE, cmd |-> n, rcvd |-> 0] \in Entry /\ n # 0
  BY IdsNatural DEF Entry
<1>3. Allocated(tags, n) \in TagTable
  BY <1>1, <1>2 DEF Allocated, TagTable, Named
<1>4. CC \in 1 .. 8
  BY QueueAssumption
<1> QED BY <1>3, <1>4, FreeTagOne DEF Sent, Request

-----------------------------------------------------------------------------
(* What the pieces of the handlers do.                                     *)

\* The tracker and the devices are as they were so far.
Kept(tags, dev) == itag' = tags /\ owes' = dev /\ stalled' = stalled

LEMMA UnblockTyped ==
  ASSUME NEW tags \in TagTable, NEW dev \in SUBSET Request, stalled \in Ids \cup {0},
         Kept(tags, dev) \/ UnblockInval(tags, dev)
  PROVE  TagsTyped'
  BY SentTyped DEF Kept, UnblockInval, TagsTyped

LEMMA AfterFenceOutcome ==
  ASSUME NEW t \in Threads, NEW n, NEW ok \in BOOLEAN, NEW c, NEW tags, NEW dev,
         AfterFence(t, n, ok, c, tags, dev)
  PROVE  /\ IF ok THEN Retire(n) ELSE UNCHANGED <<cqh, executed>>
         /\ Goto(t, "idle")
         /\ IF t = "msg" /\ ~wait' THEN csr' = Resumed(c) /\ UnblockInval(tags, dev)
                                   ELSE csr' = c /\ Kept(tags, dev)
  BY DEF AfterFence, Threads, Kept

\* The four ways do_iofence_c may end.
FenceWaits(t, n, tags, dev) ==
  /\ AnyBusy(tags) /\ wait' = TRUE /\ fence' = n /\ Goto(t, "idle") /\ Kept(tags, dev)
  /\ UNCHANGED <<cqh, executed, csr, cip>>
FenceWrites(t, n, tags, dev) ==
  /\ Goto(t, "fence_write") /\ Kept(tags, dev) /\ UNCHANGED <<cqh, executed, csr, cip>>
FencePasses(t, n, tags, dev) ==
  /\ Retire(n) /\ Goto(t, "idle") /\ UNCHANGED cip
  /\ IF t = "msg" THEN csr' = Resumed(csr) /\ UnblockInval(tags, dev)
                  ELSE csr' = csr /\ Kept(tags, dev)
FenceStops(t, bit, tags, dev) ==
  /\ UNCHANGED <<cqh, executed>>
  /\ \/ /\ csr' = [csr EXCEPT ![bit] = TRUE] /\ cip' = TRUE /\ Kept(tags, dev)
        /\ Goto(t, IF bit = "cmd_to" THEN "msi_to" ELSE "msi_mf")
     \/ /\ csr[bit] \/ ~Interrupts(csr)
        /\ Goto(t, "idle") /\ UNCHANGED cip
        /\ IF t = "msg" THEN csr' = Resumed([csr EXCEPT ![bit] = TRUE]) /\ UnblockInval(tags, dev)
                        ELSE csr' = [csr EXCEPT ![bit] = TRUE] /\ Kept(tags, dev)

LEMMA FenceOutcome ==
  ASSUME NEW t \in Threads, NEW n, NEW tags, NEW dev, NEW late, NEW lost,
         Fence(t, n, tags, dev, late, lost)
  PROVE  /\ run' = [run EXCEPT ![t] = n]
         /\ \/ FenceWaits(t, n, tags, dev) /\ timeout' = late /\ unreported' = lost
            \/ /\ ~AnyBusy(tags) /\ wait' = FALSE /\ UNCHANGED fence
               /\ \/ /\ ~late /\ timeout' = late /\ unreported' = lost
                     /\ \/ FenceWrites(t, n, tags, dev)
                        \/ FencePasses(t, n, tags, dev)
                        \/ FenceStops(t, "cqmf", tags, dev)
                  \/ /\ late /\ timeout' \in BOOLEAN /\ unreported' = {}
                     /\ FenceStops(t, "cmd_to", tags, dev)
<1>1. run' = [run EXCEPT ![t] = n]
  BY DEF Fence
<1>2. CASE AnyBusy(tags) /\ wait' = TRUE
  BY <1>2, AfterFenceOutcome DEF Fence, FenceWaits
<1>3. CASE ~AnyBusy(tags) /\ wait' = FALSE
  <2>1. UNCHANGED fence
    BY <1>3 DEF Fence
  <2>2. ASSUME NEW bit \in {"cqmf", "cmd_to"},
               FenceFails(t, n, bit, IF bit = "cmd_to" THEN "msi_to" ELSE "msi_mf", tags, dev)
        PROVE  FenceStops(t, bit, tags, dev)
    <3>1. CASE ~csr[bit] /\ Interrupts(csr)
      BY <2>2, <3>1 DEF FenceFails, FenceStops, Kept
    <3>2. CASE ~(~csr[bit] /\ Interrupts(csr))
      <4>1. AfterFence(t, n, FALSE, [csr EXCEPT ![bit] = TRUE], tags, dev) /\ UNCHANGED cip
        BY <2>2, <3>2 DEF FenceFails
      <4> QED BY <1>3, <3>2, <4>1, AfterFenceOutcome DEF FenceStops
    <3> QED BY <3>1, <3>2
  <2>3. CASE late /\ unreported' = {} /\ FenceFails(t, n, "cmd_to", "msi_to", tags, dev)
             /\ timeout' = (at'[t] = "msi_to")
    BY <1>3, <1>1, <2>1, <2>2, <2>3
  <2>4. CASE ~late /\ FenceFails(t, n, "cqmf", "msi_mf", tags, dev)
             /\ timeout' = late /\ unreported' = lost
    BY <1>3, <1>1, <2>1, <2>2, <2>4
  <2>5. CASE /\ ~late /\ Goto(t, "fence_write") /\ itag' = tags /\ owes' = dev
             /\ timeout' = late /\ unreported' = lost
             /\ UNCHANGED <<cqh, executed, csr, stalled, cip>>
    BY <1>3, <1>1, <2>1, <2>5 DEF FenceWrites, Kept
  <2>6. CASE ~late /\ AfterFence(t, n, TRUE, csr, tags, dev)
             /\ timeout' = late /\ unreported' = lost /\ UNCHANGED cip
    <3>1. FencePasses(t, n, tags, dev)
      BY <1>3, <2>6, AfterFenceOutcome DEF FencePasses
    <3> QED BY <1>3, <1>1, <2>1, <2>6, <3>1
  <2> QED BY <1>3, <2>3, <2>4, <2>5, <2>6 DEF Fence
<1> QED BY <1>2, <1>3 DEF Fence

-----------------------------------------------------------------------------
(* Every step keeps the types.                                             *)

LEMMA CsrTyped ==
  ASSUME csr \in Csr, NEW bit \in {"cqmf", "cmd_ill", "cmd_to"}
  PROVE  [csr EXCEPT ![bit] = TRUE] \in Csr
  BY DEF Csr

LEMMA ResumedTyped ==
  ASSUME NEW c \in Csr
  PROVE  Resumed(c) \in Csr
  BY DEF Csr, Resumed

LEMMA NextTyped == \A i \in Indices : Next1(i) \in Indices
  BY QueueAssumption DEF Indices, Next1

LEMMA RetireTyped ==
  ASSUME QueueTyped, HistoryTyped, NEW n \in Ids, Retire(n)
  PROVE  cqh' \in Indices /\ executed' \in Seq(Ids)
  BY NextTyped DEF Retire, QueueTyped, HistoryTyped

LEMMA GotoTyped ==
  ASSUME ThreadsTyped, NEW t \in Threads, NEW n \in Ids, run' = [run EXCEPT ![t] = n],
         NEW place \in Places, Goto(t, place),
         t = "msg" => place \in {"idle", "fence_write", "msi_to", "msi_mf"},
         fence' \in Ids \cup {0}, wait' => fence' # 0
  PROVE  ThreadsTyped'
<1>1. n # 0
  BY IdsNatural
<1>2. at' = [at EXCEPT ![t] = place]
  BY DEF Goto
<1>3. at' \in [Threads -> Places] /\ run' \in [Threads -> Ids \cup {0}]
  BY <1>2 DEF ThreadsTyped
<1>4. at'["msg"] \in {"idle", "fence_write", "msi_to", "msi_mf"}
  BY <1>2 DEF ThreadsTyped, Threads
<1>5. \A u \in Threads : at'[u] \in {"pipeline", "fence_write", "msi_to", "msi_mf"} => run'[u] # 0
  BY <1>1, <1>2 DEF ThreadsTyped
<1> QED BY <1>3, <1>4, <1>5 DEF ThreadsTyped

LEMMA FenceStopsTyped ==
  ASSUME Types, NEW t \in Threads, NEW n \in Ids, NEW tags \in TagTable,
         NEW dev \in SUBSET Request, NEW bit \in {"cqmf", "cmd_to"},
         FenceStops(t, bit, tags, dev), run' = [run EXCEPT ![t] = n],
         wait' = FALSE, UNCHANGED fence
  PROVE  TagsTyped' /\ ThreadsTyped' /\ csr' \in Csr /\ cip' \in BOOLEAN
<1>1. csr \in Csr /\ cip \in BOOLEAN /\ stalled \in Ids \cup {0} /\ fence \in Ids \cup {0}
  BY DEF Types, RegistersTyped, TagsTyped, ThreadsTyped
<1>2. [csr EXCEPT ![bit] = TRUE] \in Csr
  BY <1>1, CsrTyped
<1>3. TagsTyped'
  BY <1>1, UnblockTyped DEF FenceStops
<1>4. csr' \in Csr /\ cip' \in BOOLEAN
  BY <1>1, <1>2, ResumedTyped DEF FenceStops
<1>5. PICK place \in {"idle", "msi_to", "msi_mf"} : Goto(t, place)
  BY DEF FenceStops
<1>6. ThreadsTyped'
  BY <1>1, <1>5, GotoTyped DEF Places, Types
<1> QED BY <1>3, <1>4, <1>6

LEMMA FenceTyped ==
  ASSUME Types, NEW t \in Threads, NEW n \in Ids, NEW tags \in TagTable,
         NEW dev \in SUBSET Request, NEW late \in {TRUE, FALSE}, NEW lost \in SUBSET Ids,
         Fence(t, n, tags, dev, late, lost), UNCHANGED <<queue, dropped>>
  PROVE  Types'
<1>1. /\ csr \in Csr /\ cip \in BOOLEAN /\ stalled \in Ids \cup {0} /\ fence \in Ids \cup {0}
      /\ cqh \in Indices /\ executed \in Seq(Ids)
  BY DEF Types, RegistersTyped, TagsTyped, ThreadsTyped, QueueTyped, HistoryTyped
<1>2. run' = [run EXCEPT ![t] = n]
  BY FenceOutcome
<1>3. timeout' \in BOOLEAN /\ unreported' \subseteq Ids /\ wait' \in BOOLEAN
  <2>1. wait' \in {TRUE, FALSE} /\ unreported' \in {lost, {}} /\ timeout' \in BOOLEAN
    BY FenceOutcome DEF FenceWaits
  <2> QED BY <2>1
<1>4. /\ TagsTyped' /\ ThreadsTyped' /\ csr' \in Csr /\ cip' \in BOOLEAN
      /\ cqh' \in Indices /\ executed' \in Seq(Ids)
  <2>1. CASE FenceWaits(t, n, tags, dev)
    <3>1. TagsTyped'
      BY <1>1, <2>1, UnblockTyped DEF FenceWaits
    <3>2. ThreadsTyped'
      BY <1>1, <1>2, <2>1, GotoTyped, IdsNatural DEF FenceWaits, Places, Types
    <3> QED BY <1>1, <2>1, <3>1, <3>2 DEF FenceWaits
  <2>2. CASE FenceWrites(t, n, tags, dev) /\ wait' = FALSE /\ UNCHANGED fence
    <3>1. TagsTyped'
      BY <1>1, <2>2, UnblockTyped DEF FenceWrites
    <3>2. ThreadsTyped'
      BY <1>1, <1>2, <2>2, GotoTyped DEF FenceWrites, Places, Types
    <3> QED BY <1>1, <2>2, <3>1, <3>2 DEF FenceWrites
  <2>3. CASE FencePasses(t, n, tags, dev) /\ wait' = FALSE /\ UNCHANGED fence
    <3>1. TagsTyped'
      BY <1>1, <2>3, UnblockTyped DEF FencePasses
    <3>2. ThreadsTyped'
      BY <1>1, <1>2, <2>3, GotoTyped DEF FencePasses, Places, Types
    <3>3. cqh' \in Indices /\ executed' \in Seq(Ids)
      BY <2>3, RetireTyped DEF FencePasses, Types
    <3> QED BY <1>1, <2>3, <3>1, <3>2, <3>3, ResumedTyped DEF FencePasses
  <2>4. ASSUME NEW bit \in {"cqmf", "cmd_to"}, FenceStops(t, bit, tags, dev),
               wait' = FALSE, UNCHANGED fence
        PROVE  /\ TagsTyped' /\ ThreadsTyped' /\ csr' \in Csr /\ cip' \in BOOLEAN
               /\ cqh' \in Indices /\ executed' \in Seq(Ids)
    BY <1>1, <1>2, <2>4, FenceStopsTyped DEF FenceStops
  <2> QED BY <2>1, <2>2, <2>3, <2>4, FenceOutcome
<1>5. QueueTyped'
  BY <1>4 DEF Types, QueueTyped, queue
<1> QED BY <1>3, <1>4, <1>5 DEF Types, RegistersTyped, HistoryTyped

LEMMA TypesPost ==
  ASSUME Types, NEW p \in Programs, Post(p)
  PROVE  Types'
<1>1. /\ Len(posted) < Len(p) /\ posted' = SubSeq(p, 1, Len(posted) + 1)
      /\ ring' = [ring EXCEPT ![cqt] = Len(posted) + 1] /\ cqt' = Next1(cqt)
      /\ UNCHANGED <<cqh, csr, cip, at, run, itag, stalled, owes, wait, fence, timeout,
                     executed, dropped, unreported>>
  BY DEF Post, tracker, pending, history
<1>2. p \in Seq(Command) /\ Len(posted) \in Nat
  BY ProgramsAssumption DEF Types, QueueTyped
<1>3. posted' \in Seq(Command) /\ Len(posted') = Len(posted) + 1
  BY <1>1, <1>2
<1>4. Len(posted) + 1 \in Ids
  BY <1>1, <1>2, IdsBound
<1>5. QueueTyped'
  BY <1>1, <1>3, <1>4, NextTyped DEF Types, QueueTyped
<1> QED BY <1>1, <1>5 DEF Types, RegistersTyped, TagsTyped, ThreadsTyped, HistoryTyped

LEMMA TypesFetch ==
  ASSUME Types, Fetch
  PROVE  Types'
<1>1. /\ at' = [at EXCEPT !["sw"] = "fetch"] /\ run' = [run EXCEPT !["sw"] = ring[cqh]]
      /\ UNCHANGED <<posted, ring, cqt, cqh, csr, cip, itag, stalled, owes, wait, fence, timeout,
                     executed, dropped, unreported>>
  BY DEF Fetch, Goto, queue, tracker, pending, history
<1>2. ring[cqh] \in Ids \cup {0}
  BY DEF Types, QueueTyped
<1>3. ThreadsTyped'
  BY <1>1, <1>2 DEF Types, ThreadsTyped, Threads, Places
<1> QED BY <1>1, <1>3 DEF Types, QueueTyped, RegistersTyped, TagsTyped, HistoryTyped

\* The steps of Execute other than an IOFENCE.C, as actions of their own.
ExecuteInval(n) ==
  /\ n # 0 /\ Op(n) = "inval" /\ Retire(n) /\ Goto("sw", "idle")
  /\ IF FreeTag(itag) = {}
     THEN stalled' = n /\ UNCHANGED <<itag, owes>>
     ELSE /\ itag' = Allocated(itag, n) /\ owes' = owes \cup Sent(itag, n)
          /\ UNCHANGED stalled
  /\ UNCHANGED <<csr, cip, wait, fence, timeout, run, dropped, unreported>>
ExecutePrgr(n) ==
  /\ n # 0 /\ Op(n) = "prgr" /\ Retire(n) /\ Goto("sw", "idle")
  /\ UNCHANGED <<csr, cip, itag, stalled, owes, wait, fence, timeout, run, dropped, unreported>>
ExecuteCache(n) ==
  /\ n # 0 /\ Op(n) = "cache" /\ Goto("sw", "pipeline")
  /\ UNCHANGED <<cqh, csr, cip, itag, stalled, owes, wait, fence, timeout, run,
                 executed, dropped, unreported>>
ExecuteIllegal(n) ==
  /\ csr' = [csr EXCEPT !.cmd_ill = TRUE]
  /\ IF Interrupts(csr) THEN cip' = TRUE /\ Goto("sw", "msi")
                        ELSE Goto("sw", "idle") /\ UNCHANGED cip
  /\ UNCHANGED <<cqh, itag, stalled, owes, wait, fence, timeout, run,
                 executed, dropped, unreported>>

LEMMA ExecuteCases ==
  ASSUME Execute
  PROVE  /\ at["sw"] = "fetch" /\ UNCHANGED <<posted, ring, cqt>>
         /\ \/ /\ run["sw"] # 0 /\ Op(run["sw"]) = "fence" /\ UNCHANGED dropped
               /\ Fence("sw", run["sw"], itag, owes, timeout, unreported)
            \/ ExecuteInval(run["sw"]) \/ ExecutePrgr(run["sw"])
            \/ ExecuteCache(run["sw"]) \/ ExecuteIllegal(run["sw"])
  BY DEF Execute, ExecuteInval, ExecutePrgr, ExecuteCache, ExecuteIllegal, queue, tracker,
         pending, history

LEMMA TypesExecute ==
  ASSUME Types, Execute
  PROVE  Types'
<1> DEFINE n == run["sw"]
<1>1. n \in Ids \cup {0} /\ "sw" \in Threads
  BY DEF Types, ThreadsTyped, Threads
<1>2. at["sw"] = "fetch" /\ UNCHANGED <<posted, ring, cqt>>
  BY ExecuteCases
<1>3. CASE n # 0 /\ Op(n) = "fence" /\ UNCHANGED dropped
           /\ Fence("sw", n, itag, owes, timeout, unreported)
  <2>1. /\ itag \in TagTable /\ owes \in SUBSET Request /\ timeout \in {TRUE, FALSE}
        /\ unreported \in SUBSET Ids /\ n \in Ids
    BY <1>1, <1>3 DEF Types, TagsTyped, RegistersTyped, HistoryTyped
  <2> QED BY <1>1, <1>2, <1>3, <2>1, FenceTyped DEF queue
<1>4. CASE ExecuteInval(n)
  <2>1. n \in Ids /\ itag \in TagTable /\ owes \subseteq Request
    BY <1>1, <1>4 DEF ExecuteInval, Types, TagsTyped
  <2>2. Allocated(itag, n) \in TagTable /\ Sent(itag, n) \subseteq Request
    BY <2>1, SentTyped
  <2>3. TagsTyped'
    BY <1>4, <2>1, <2>2 DEF ExecuteInval, Types, TagsTyped
  <2>4. cqh' \in Indices /\ executed' \in Seq(Ids)
    BY <1>4, <2>1, RetireTyped DEF ExecuteInval, Types
  <2>5. ThreadsTyped'
    BY <1>4 DEF ExecuteInval, Types, ThreadsTyped, Goto, Threads, Places
  <2> QED BY <1>2, <1>4, <2>3, <2>4, <2>5
          DEF ExecuteInval, Types, QueueTyped, RegistersTyped, HistoryTyped
<1>5. CASE ExecutePrgr(n)
  <2>1. n \in Ids
    BY <1>1, <1>5 DEF ExecutePrgr
  <2>2. cqh' \in Indices /\ executed' \in Seq(Ids)
    BY <1>5, <2>1, RetireTyped DEF ExecutePrgr, Types
  <2>3. ThreadsTyped'
    BY <1>5 DEF ExecutePrgr, Types, ThreadsTyped, Goto, Threads, Places
  <2> QED BY <1>2, <1>5, <2>2, <2>3
          DEF ExecutePrgr, Types, QueueTyped, RegistersTyped, TagsTyped, HistoryTyped
<1>6. CASE ExecuteCache(n)
  <2>1. ThreadsTyped'
    BY <1>6 DEF ExecuteCache, Types, ThreadsTyped, Goto, Threads, Places
  <2> QED BY <1>2, <1>6, <2>1
          DEF ExecuteCache, Types, QueueTyped, RegistersTyped, TagsTyped, HistoryTyped
<1>7. CASE ExecuteIllegal(n)
  <2>1. ThreadsTyped'
    BY <1>7 DEF ExecuteIllegal, Types, ThreadsTyped, Goto, Threads, Places
  <2>2. csr' \in Csr /\ cip' \in BOOLEAN
    BY <1>7, CsrTyped DEF ExecuteIllegal, Types, RegistersTyped
  <2> QED BY <1>2, <1>7, <2>1, <2>2
          DEF ExecuteIllegal, Types, QueueTyped, RegistersTyped, TagsTyped, HistoryTyped
<1> QED BY <1>3, <1>4, <1>5, <1>6, <1>7, ExecuteCases

LEMMA TypesPipelineDone ==
  ASSUME Types, PipelineDone
  PROVE  Types'
<1>1. run["sw"] \in Ids
  BY DEF PipelineDone, Types, ThreadsTyped, Threads
<1>2. cqh' \in Indices /\ executed' \in Seq(Ids)
  BY <1>1, RetireTyped DEF PipelineDone, Types
<1>3. ThreadsTyped'
  BY DEF PipelineDone, Types, ThreadsTyped, Goto, Threads, Places, pending
<1> QED BY <1>2, <1>3 DEF PipelineDone, Types, QueueTyped, RegistersTyped, TagsTyped,
           HistoryTyped, queue, tracker, pending

\* The end of a memory write of thread t.
FenceWritten(t) ==
  /\ at[t] = "fence_write" /\ Retire(run[t]) /\ UNCHANGED timeout
StopSignalled(t) ==
  /\ at[t] \in {"msi_to", "msi_mf"} /\ UNCHANGED <<cqh, executed>>
  /\ IF at[t] = "msi_to" THEN timeout' = FALSE ELSE UNCHANGED timeout

LEMMA WriteAnsweredCases ==
  ASSUME NEW t \in Threads, WriteAnswered(t)
  PROVE  /\ UNCHANGED <<posted, ring, cqt, cip, wait, fence, run, dropped, unreported>>
         /\ Goto(t, "idle")
         /\ \/ /\ at[t] = "msi" /\ UNCHANGED <<cqh, csr, executed, timeout>> /\ Kept(itag, owes)
            \/ /\ FenceWritten(t) \/ StopSignalled(t)
               /\ IF t = "msg" /\ ~wait' THEN csr' = Resumed(csr) /\ UnblockInval(itag, owes)
                                         ELSE csr' = csr /\ Kept(itag, owes)
<1>1. UNCHANGED <<posted, ring, cqt, cip, wait, fence, run, dropped, unreported>> /\ Written(t)
  BY DEF WriteAnswered, queue
<1>2. CASE at[t] = "fence_write" /\ AfterFence(t, run[t], TRUE, csr, itag, owes) /\ UNCHANGED timeout
  BY <1>1, <1>2, AfterFenceOutcome DEF FenceWritten
<1>3. CASE at[t] = "msi_to" /\ timeout' = FALSE /\ AfterFence(t, run[t], FALSE, csr, itag, owes)
  BY <1>1, <1>3, AfterFenceOutcome DEF StopSignalled
<1>4. CASE at[t] = "msi_mf" /\ AfterFence(t, run[t], FALSE, csr, itag, owes) /\ UNCHANGED timeout
  BY <1>1, <1>4, AfterFenceOutcome DEF StopSignalled
<1>5. CASE at[t] = "msi" /\ Goto(t, "idle") /\ UNCHANGED <<cqh, csr, executed, tracker, timeout>>
  BY <1>1, <1>5 DEF Kept, tracker
<1> QED BY <1>1, <1>2, <1>3, <1>4, <1>5 DEF Written

LEMMA TypesWriteAnswered ==
  ASSUME Types, NEW t \in Threads, WriteAnswered(t)
  PROVE  Types'
<1>1. /\ UNCHANGED <<posted, ring, cqt, cip, wait, fence, run, dropped, unreported>>
      /\ Goto(t, "idle")
  BY WriteAnsweredCases
<1>2. ThreadsTyped'
  BY <1>1 DEF Types, ThreadsTyped, Goto, Threads, Places
<1>3. TagsTyped'
  BY WriteAnsweredCases, UnblockTyped DEF Types, TagsTyped
<1>4. csr' \in Csr /\ timeout' \in BOOLEAN
  BY WriteAnsweredCases, ResumedTyped DEF Types, RegistersTyped, FenceWritten, StopSignalled
<1>5. cqh' \in Indices /\ executed' \in Seq(Ids)
  <2>1. CASE FenceWritten(t)
    <3>1. run[t] \in Ids
      BY <2>1 DEF FenceWritten, Types, ThreadsTyped
    <3> QED BY <2>1, <3>1, RetireTyped DEF FenceWritten, Types
  <2>2. CASE UNCHANGED <<cqh, executed>>
    BY <2>2 DEF Types, QueueTyped, HistoryTyped
  <2> QED BY <2>1, <2>2, WriteAnsweredCases DEF StopSignalled
<1> QED BY <1>1, <1>2, <1>3, <1>4, <1>5 DEF Types, QueueTyped, RegistersTyped, HistoryTyped

\* A write of cqcsr, with its locals spelt out.
TurnedOn == [cqen |-> TRUE, cqon |-> TRUE, busy |-> FALSE, cie |-> TRUE,
             cqmf |-> FALSE, cmd_ill |-> FALSE, cmd_to |-> FALSE]
StaysOn(cqen) == IF ~cqen /\ csr.cqen /\ ~wait THEN FALSE ELSE csr.cqon
Rewritten(cqen, clear) ==
  [cqen |-> cqen, cqon |-> StaysOn(cqen), busy |-> cqen # StaysOn(cqen), cie |-> TRUE,
   cqmf |-> csr.cqmf /\ ~clear, cmd_ill |-> csr.cmd_ill /\ ~clear,
   cmd_to |-> csr.cmd_to /\ ~clear]

LEMMA CqcsrCases ==
  ASSUME NEW cqen, NEW clear, cqen \in {TRUE, FALSE}, WriteCqcsr(cqen, clear)
  PROVE  /\ SoftwareMay /\ ~csr.busy
         /\ UNCHANGED <<posted, ring, cqt, cip, itag, stalled, owes, wait, fence, timeout,
                        at, run, executed, unreported>>
         /\ \/ /\ cqen /\ ~csr.cqen /\ cqt = 0 /\ cqh' = 0 /\ csr' = TurnedOn
               /\ dropped' = 1 .. Len(posted) \ Done
            \/ /\ ~(cqen /\ ~csr.cqen) /\ UNCHANGED <<cqh, dropped>>
               /\ csr' = Rewritten(cqen, clear)
<1>1. /\ SoftwareMay /\ ~csr.busy
      /\ UNCHANGED <<posted, ring, cqt, cip, itag, stalled, owes, wait, fence, timeout,
                     at, run, executed, unreported>>
  BY DEF WriteCqcsr, queue, tracker, pending
<1>2. CASE cqen /\ ~csr.cqen
  <2>1. cqt = 0 /\ cqh' = 0 /\ dropped' = 1 .. Len(posted) \ Done
    BY <1>2 DEF WriteCqcsr
  <2>2. csr' = TurnedOn
    BY <1>2 DEF WriteCqcsr, TurnedOn
  <2> QED BY <1>1, <1>2, <2>1, <2>2
<1>3. CASE ~(cqen /\ ~csr.cqen)
  <2>1. UNCHANGED <<cqh, dropped>>
    BY <1>3 DEF WriteCqcsr
  <2>2. csr' = Rewritten(cqen, clear)
    BY <1>3 DEF WriteCqcsr, Rewritten, StaysOn
  <2> QED BY <1>1, <1>3, <2>1, <2>2
<1> QED BY <1>2, <1>3

LEMMA TypesWriteCqcsr ==
  ASSUME Types, NEW cqen, NEW clear, cqen \in {TRUE, FALSE}, clear \in {TRUE, FALSE},
         WriteCqcsr(cqen, clear)
  PROVE  Types'
<1>1. /\ UNCHANGED <<posted, ring, cqt, cip, itag, stalled, owes, wait, fence, timeout,
                     at, run, executed, unreported>>
  BY CqcsrCases
<1>2. csr' \in Csr
  <2>1. Rewritten(cqen, clear) \in Csr
    BY DEF Types, RegistersTyped, Rewritten, StaysOn, Csr
  <2>2. TurnedOn \in Csr
    BY DEF TurnedOn, Csr
  <2> QED BY <2>1, <2>2, CqcsrCases
<1>3. 0 \in Indices
  BY QueueAssumption DEF Indices
<1>4. cqh' \in Indices
  BY <1>3, CqcsrCases DEF Types, QueueTyped
<1>5. 1 .. Len(posted) \subseteq Ids
  BY IdsBound DEF Types, QueueTyped
<1>6. dropped' \subseteq Ids
  BY <1>5, CqcsrCases DEF Types, HistoryTyped
<1> QED BY <1>1, <1>2, <1>4, <1>6 DEF Types, QueueTyped, RegistersTyped, TagsTyped, ThreadsTyped,
           HistoryTyped

LEMMA TypesWriteCqbIpsr ==
  ASSUME Types, WriteCqb \/ WriteIpsr
  PROVE  Types'
<1>1. CASE WriteCqb
  <2>1. 0 \in Indices
    BY QueueAssumption DEF Indices
  <2> QED BY <1>1, <2>1 DEF WriteCqb, tracker, pending, history, Types, QueueTyped,
             RegistersTyped, TagsTyped, ThreadsTyped, HistoryTyped
<1>2. CASE WriteIpsr
  BY <1>2 DEF WriteIpsr, queue, tracker, pending, history, Types, QueueTyped,
     RegistersTyped, TagsTyped, ThreadsTyped, HistoryTyped, Goto, Threads, Places
<1> QED BY <1>1, <1>2

-----------------------------------------------------------------------------
(* Completions and time-outs.                                              *)

\* do_pending_iofence_inval_reqs, with what it leaves alone spelt out.
ResumeRest(tags, dev, late, lost) ==
  /\ Kept(tags, dev) \/ (~wait /\ UnblockInval(tags, dev))
  /\ (wait => AnyBusy(tags) /\ Kept(tags, dev)) /\ (~wait => UnblockInval(tags, dev))
  /\ timeout' = late /\ unreported' = lost
  /\ UNCHANGED <<cqh, csr, cip, wait, fence, at, run, executed>>

LEMMA ResumeCases ==
  ASSUME NEW tags, NEW dev, NEW late, NEW lost, Resume(tags, dev, late, lost)
  PROVE  \/ wait /\ ~AnyBusy(tags) /\ Fence("msg", fence, tags, dev, late, lost)
         \/ ResumeRest(tags, dev, late, lost)
  BY DEF Resume, ResumeRest, Kept

LEMMA TypesResume ==
  ASSUME Types, NEW tags \in TagTable, NEW dev \in SUBSET Request, NEW late \in {TRUE, FALSE},
         NEW lost \in SUBSET Ids, Resume(tags, dev, late, lost), UNCHANGED <<queue, dropped>>
  PROVE  Types'
<1>1. CASE wait /\ Fence("msg", fence, tags, dev, late, lost)
  <2>1. fence \in Ids /\ "msg" \in Threads
    BY <1>1 DEF Types, ThreadsTyped, Threads
  <2> QED BY <1>1, <2>1, FenceTyped
<1>2. CASE ResumeRest(tags, dev, late, lost)
  <2>1. TagsTyped'
    BY <1>2, UnblockTyped DEF ResumeRest, Types, TagsTyped
  <2> QED BY <1>2, <2>1 DEF ResumeRest, Types, QueueTyped, RegistersTyped, ThreadsTyped,
             HistoryTyped, queue
<1> QED BY <1>1, <1>2, ResumeCases

\* The locals of handle_invalidation_completion.
TagsOf(S) == {s.tag : s \in S}
RidOf(S) == Rid((CHOOSE s \in S : TRUE).cmd)
Unexpected(S, i) == ~itag[i].busy \/ Rid(itag[i].cmd) # RidOf(S)
Counted(S) == {i \in TagsOf(S) : \A j \in TagsOf(S) : j <= i => ~Unexpected(S, j)}
Answered(S) == [i \in Tags |->
                 IF i \notin Counted(S) THEN itag[i]
                 ELSE IF Complete(itag[i].rcvd) THEN Free
                 ELSE [itag[i] EXCEPT !.rcvd = (@ + 1) % 8]]
StillOwed(S) == (owes \ S) \cup {[s EXCEPT !.left = @ - 1] : s \in {r \in S : r.left > 1}}

LEMMA CompletionCases ==
  ASSUME NEW S, Completion(S)
  PROVE  /\ at["msg"] = "idle" /\ \A s, r \in S : Rid(s.cmd) = Rid(r.cmd)
         /\ UNCHANGED <<queue, dropped>>
         /\ IF Counted(S) = TagsOf(S)
            THEN Resume(Answered(S), StillOwed(S), timeout, unreported)
            ELSE /\ Kept(Answered(S), StillOwed(S))
                 /\ UNCHANGED <<cqh, csr, cip, pending, at, run, executed, unreported>>
  BY DEF Completion, TagsOf, RidOf, Unexpected, Counted, Answered, StillOwed, Kept

LEMMA AnsweredTyped ==
  ASSUME Types, NEW S \in SUBSET owes
  PROVE  Answered(S) \in TagTable /\ StillOwed(S) \in SUBSET Request
<1>1. \A i \in Tags : itag[i] \in Entry /\ (itag[i].busy => itag[i].cmd # 0)
  BY DEF Types, TagsTyped, TagTable, Named
<1>2. Free \in Entry /\ ~Free.busy
  BY DEF Free, Entry
<1>3. \A e \in Entry : /\ [e EXCEPT !.rcvd = (@ + 1) % 8] \in Entry
                       /\ [e EXCEPT !.rcvd = (@ + 1) % 8].cmd = e.cmd
                       /\ [e EXCEPT !.rcvd = (@ + 1) % 8].busy = e.busy
  BY DEF Entry
<1>4. \A i \in Tags : /\ Answered(S)[i] \in Entry
                      /\ Answered(S)[i].busy => Answered(S)[i].cmd # 0
  BY <1>1, <1>2, <1>3 DEF Answered
<1>5. Answered(S) \in TagTable
  BY <1>4 DEF Answered, TagTable, Named
<1>6. \A s \in Request : s.left > 1 => [s EXCEPT !.left = @ - 1] \in Request
  BY DEF Request
<1>7. StillOwed(S) \in SUBSET Request
  BY <1>6 DEF StillOwed, Types, TagsTyped
<1> QED BY <1>5, <1>7

LEMMA TypesCompletion ==
  ASSUME Types, NEW S \in SUBSET owes, Completion(S)
  PROVE  Types'
<1>1. Answered(S) \in TagTable /\ StillOwed(S) \in SUBSET Request
  BY AnsweredTyped
<1>2. timeout \in {TRUE, FALSE} /\ unreported \in SUBSET Ids /\ stalled \in Ids \cup {0}
  BY DEF Types, RegistersTyped, HistoryTyped, TagsTyped
<1>3. CASE Resume(Answered(S), StillOwed(S), timeout, unreported) /\ UNCHANGED <<queue, dropped>>
  BY <1>1, <1>2, <1>3, TypesResume
<1>4. CASE /\ Kept(Answered(S), StillOwed(S)) /\ UNCHANGED <<queue, dropped>>
           /\ UNCHANGED <<cqh, csr, cip, pending, at, run, executed, unreported>>
  <2>1. TagsTyped'
    BY <1>1, <1>2, <1>4, UnblockTyped
  <2> QED BY <1>4, <2>1 DEF queue, pending, Types, QueueTyped, RegistersTyped, ThreadsTyped,
             HistoryTyped
<1> QED BY <1>3, <1>4, CompletionCases

\* The locals of do_ats_timer_expiry.
Gone(V) == {itag[i].cmd : i \in V}
Expired(V) == [i \in Tags |-> IF i \in V THEN Free ELSE itag[i]]
NotAnswered(V) == IF LateAnswers THEN owes ELSE {o \in owes : o.cmd \notin Gone(V)}

LEMMA ExpireCases ==
  ASSUME Expire
  PROVE  \E V \in SUBSET Tags :
           /\ V # {} /\ \A i \in V : itag[i].busy
           /\ at["msg"] = "idle" /\ UNCHANGED <<queue, dropped>>
           /\ Resume(Expired(V), NotAnswered(V), TRUE, unreported \cup Gone(V))
  BY DEF Expire, Gone, Expired, NotAnswered

LEMMA ExpiredTyped ==
  ASSUME Types, NEW V \in SUBSET Tags, \A i \in V : itag[i].busy
  PROVE  /\ Expired(V) \in TagTable /\ NotAnswered(V) \in SUBSET Request
         /\ Gone(V) \in SUBSET Ids
<1>1. \A i \in Tags : itag[i] \in Entry /\ (itag[i].busy => itag[i].cmd # 0)
  BY DEF Types, TagsTyped, TagTable, Named
<1>2. Free \in Entry /\ ~Free.busy
  BY DEF Free, Entry
<1>3. Expired(V) \in TagTable
  BY <1>1, <1>2 DEF Expired, TagTable, Named
<1>4. Gone(V) \in SUBSET Ids
  BY <1>1 DEF Gone, Entry
<1> QED BY <1>3, <1>4 DEF NotAnswered, Types, TagsTyped

LEMMA TypesExpire ==
  ASSUME Types, Expire
  PROVE  Types'
<1>1. PICK V \in SUBSET Tags :
           /\ V # {} /\ \A i \in V : itag[i].busy
           /\ at["msg"] = "idle" /\ UNCHANGED <<queue, dropped>>
           /\ Resume(Expired(V), NotAnswered(V), TRUE, unreported \cup Gone(V))
  BY ExpireCases
<1>2. unreported \cup Gone(V) \in SUBSET Ids
  BY <1>1, ExpiredTyped DEF Types, HistoryTyped
<1> QED BY <1>1, <1>2, ExpiredTyped, TypesResume

-----------------------------------------------------------------------------
LEMMA InitTypes == Init => Types
<1> SUFFICES ASSUME Init PROVE Types
  OBVIOUS
<1>1. QueueTyped
  BY QueueAssumption DEF Init, QueueTyped, Indices
<1>2. RegistersTyped
  BY DEF Init, RegistersTyped, CsrOff, Csr
<1>3. TagsTyped
  BY DEF Init, TagsTyped, TagTable, Named, Free, Entry
<1>4. ThreadsTyped
  BY DEF Init, ThreadsTyped, Threads, Places
<1>5. HistoryTyped
  BY DEF Init, HistoryTyped
<1> QED BY <1>1, <1>2, <1>3, <1>4, <1>5 DEF Types

LEMMA TypesStep == Types /\ [Next]_vars => Types'
<1> SUFFICES ASSUME Types, [Next]_vars PROVE Types'
  OBVIOUS
<1>1. CASE Software
  BY <1>1, TypesPost, TypesFetch, TypesWriteCqcsr, TypesWriteCqbIpsr DEF Software
<1>2. CASE Continue
  BY <1>2, TypesExecute, TypesPipelineDone, TypesWriteAnswered DEF Continue
<1>3. CASE Answer
  BY <1>3, TypesCompletion DEF Answer
<1>4. CASE Expire
  BY <1>4, TypesExpire
<1>5. CASE UNCHANGED vars
  BY <1>5 DEF vars, Types, QueueTyped, RegistersTyped, TagsTyped, ThreadsTyped, HistoryTyped
<1> QED BY <1>1, <1>2, <1>3, <1>4, <1>5 DEF Next

LEMMA TypesAlways == Spec => []Types
  BY InitTypes, TypesStep, PTL DEF Spec

LEMMA TypesMeanTypeOK == Types => TypeOK
  BY DEF Types, QueueTyped, RegistersTyped, TagsTyped, ThreadsTyped, HistoryTyped, TypeOK, Csr,
         CsrOff, Indices, TagTable, Entry, Request, Places

-----------------------------------------------------------------------------
(* A stop is signalled.                                                    *)

\* Once the queue was ever enabled its interrupt stays enabled (cqcsr.cie is
\* written as 1 with cqen), and an error bit goes with a pending interrupt.
Enabled == \/ csr.cqon \/ csr.cqen \/ Err(csr) \/ wait
           \/ at["sw"] \in {"fetch", "pipeline", "fence_write", "msi_to", "msi_mf"}
           \/ at["msg"] # "idle"
Signalled == (Enabled => csr.cie) /\ (Err(csr) => cip)
SignalInv == Types /\ Signalled

LEMMA CsrFacts ==
  ASSUME csr \in Csr
  PROVE  /\ \A bit \in {"cqmf", "cmd_ill", "cmd_to"} :
              LET c == [csr EXCEPT ![bit] = TRUE]
              IN  c.cie = csr.cie /\ Err(c) /\ (csr[bit] => Err(csr))
         /\ \A c \in Csr : Resumed(c).cie = c.cie /\ Err(Resumed(c)) = Err(c)
  BY DEF Csr, Err, Resumed

LEMMA SignalledFence ==
  ASSUME SignalInv, NEW t \in Threads, NEW n, NEW tags, NEW dev, NEW late, NEW lost,
         Fence(t, n, tags, dev, late, lost), Enabled
  PROVE  Signalled'
<1>1. csr \in Csr /\ csr.cie /\ (Err(csr) => cip)
  BY DEF SignalInv, Signalled, Types, RegistersTyped
<1>2. ASSUME NEW bit \in {"cqmf", "cmd_to"}, FenceStops(t, bit, tags, dev)
      PROVE  csr'.cie /\ cip'
  <2> DEFINE c == [csr EXCEPT ![bit] = TRUE]
  <2>1. c \in Csr /\ c.cie /\ (csr[bit] => Err(csr)) /\ Resumed(c).cie
    BY <1>1, CsrFacts, CsrTyped
  <2> HIDE DEF c
  <2>2. csr' = c \/ csr' = Resumed(c)
    BY <1>2 DEF FenceStops, c
  <2>3. cip'
    BY <1>1, <1>2, <2>1 DEF FenceStops, Interrupts
  <2> QED BY <2>1, <2>2, <2>3
<1>3. CASE csr' = csr /\ UNCHANGED cip
  BY <1>1, <1>3 DEF Signalled
<1>4. CASE csr' = Resumed(csr) /\ UNCHANGED cip
  BY <1>1, <1>4, CsrFacts DEF Signalled
<1> QED BY <1>2, <1>3, <1>4, FenceOutcome DEF FenceWaits, FenceWrites, FencePasses, Signalled

LEMMA SignalledExecute ==
  ASSUME SignalInv, Execute
  PROVE  Signalled'
<1> DEFINE n == run["sw"]
<1>1. Enabled /\ csr \in Csr /\ csr.cie /\ "sw" \in Threads
  BY ExecuteCases DEF SignalInv, Signalled, Enabled, Types, RegistersTyped, Threads
<1>2. CASE Fence("sw", n, itag, owes, timeout, unreported)
  BY <1>1, <1>2, SignalledFence
<1>3. CASE ExecuteInval(n) \/ ExecutePrgr(n) \/ ExecuteCache(n)
  BY <1>1, <1>3 DEF ExecuteInval, ExecutePrgr, ExecuteCache, SignalInv, Signalled
<1>4. CASE ExecuteIllegal(n)
  BY <1>1, <1>4, CsrFacts DEF ExecuteIllegal, Interrupts, SignalInv, Signalled
<1> QED BY <1>2, <1>3, <1>4, ExecuteCases

LEMMA SignalledWriteAnswered ==
  ASSUME SignalInv, NEW t \in Threads, WriteAnswered(t)
  PROVE  Signalled'
<1>1. csr \in Csr /\ UNCHANGED <<cip, wait>> /\ Goto(t, "idle")
  BY WriteAnsweredCases DEF SignalInv, Types, RegistersTyped
<1>2. csr' = csr \/ csr' = Resumed(csr)
  BY WriteAnsweredCases
<1>3. csr'.cie = csr.cie /\ Err(csr') = Err(csr)
  BY <1>1, <1>2, CsrFacts
<1>4. Enabled' => Enabled
  <2>1. CASE csr' = csr
    BY <1>1, <2>1 DEF Enabled, Goto, SignalInv, Types, ThreadsTyped
  <2>2. CASE csr' # csr
    <3>1. t = "msg" /\ at[t] # "idle"
      BY <2>2, WriteAnsweredCases DEF FenceWritten, StopSignalled
    <3> QED BY <3>1 DEF Enabled
  <2> QED BY <2>1, <2>2
<1> QED BY <1>1, <1>3, <1>4 DEF SignalInv, Signalled

LEMMA SignalledResume ==
  ASSUME SignalInv, NEW tags, NEW dev, NEW late, NEW lost, Resume(tags, dev, late, lost)
  PROVE  Signalled'
<1>1. CASE wait /\ Fence("msg", fence, tags, dev, late, lost)
  BY <1>1, SignalledFence DEF Enabled, Threads
<1>2. CASE ResumeRest(tags, dev, late, lost)
  BY <1>2 DEF ResumeRest, SignalInv, Signalled, Enabled
<1> QED BY <1>1, <1>2, ResumeCases

LEMMA SignalledWriteCqcsr ==
  ASSUME SignalInv, NEW cqen, NEW clear, cqen \in {TRUE, FALSE}, clear \in {TRUE, FALSE},
         WriteCqcsr(cqen, clear)
  PROVE  Signalled'
<1>1. UNCHANGED cip
  BY DEF WriteCqcsr
<1>2. csr' = TurnedOn \/ csr' = Rewritten(cqen, clear)
  BY CqcsrCases
<1>3. TurnedOn.cie /\ ~Err(TurnedOn)
  BY DEF TurnedOn, Err
<1>4. Rewritten(cqen, clear).cie /\ (Err(Rewritten(cqen, clear)) => Err(csr))
  BY DEF Rewritten, Err, Csr, SignalInv, Types, RegistersTyped
<1> QED BY <1>1, <1>2, <1>3, <1>4 DEF SignalInv, Signalled

LEMMA SignalledStep == SignalInv /\ [Next]_vars => SignalInv'
<1> SUFFICES ASSUME SignalInv, [Next]_vars PROVE Signalled'
  BY TypesStep DEF SignalInv
<1>1. csr \in Csr
  BY DEF SignalInv, Types, RegistersTyped
<1>2. ASSUME NEW p \in Programs, Post(p) PROVE Signalled'
  BY <1>2 DEF Post, pending, SignalInv, Signalled, Enabled
<1>3. CASE Fetch
  BY <1>3 DEF Fetch, pending, Goto, SignalInv, Types, ThreadsTyped, Signalled, Enabled
<1>4. CASE WriteCqb
  BY <1>4 DEF WriteCqb, pending, SignalInv, Signalled, Enabled
<1>5. CASE WriteIpsr
  <2>1. UNCHANGED <<csr, wait>> /\ (at' = at \/ Goto("sw", "msi"))
    BY <1>5 DEF WriteIpsr, pending
  <2>2. Enabled' => Enabled
    BY <2>1 DEF Enabled, Goto, SignalInv, Types, ThreadsTyped, Threads
  <2>3. Err(csr) => cip'
    BY <1>5 DEF WriteIpsr, SignalInv, Signalled, Enabled
  <2> QED BY <2>1, <2>2, <2>3 DEF SignalInv, Signalled
<1>6. CASE PipelineDone
  BY <1>6 DEF PipelineDone, pending, Goto, SignalInv, Types, ThreadsTyped, Signalled, Enabled
<1>7. ASSUME NEW S, Completion(S) PROVE Signalled'
  <2>1. CASE UNCHANGED <<cqh, csr, cip, pending, at, run, executed, unreported>>
    BY <2>1 DEF pending, SignalInv, Signalled, Enabled
  <2> QED BY <1>7, <2>1, CompletionCases, SignalledResume
<1>8. CASE Expire
  BY <1>8, ExpireCases, SignalledResume
<1>9. CASE UNCHANGED vars
  BY <1>9 DEF vars, SignalInv, Signalled, Enabled
<1>10. CASE Software
  BY <1>10, <1>2, <1>3, <1>4, <1>5, SignalledWriteCqcsr DEF Software
<1>11. CASE Continue
  BY <1>11, <1>6, SignalledExecute, SignalledWriteAnswered DEF Continue
<1> QED BY <1>7, <1>8, <1>9, <1>10, <1>11 DEF Next, Answer

\* A queue stopped by an error has an interrupt pending until the driver clears the
\* error: clearing cip alone raises it again (iommu_reg.cc:578).
THEOREM StopAlwaysSignalled == Spec => []StopIsSignalled
<1>1. Init => SignalInv
  BY InitTypes DEF Init, SignalInv, Signalled, Enabled, Err, CsrOff, Threads
<1>2. SignalInv => StopIsSignalled
  BY DEF SignalInv, Signalled, StopIsSignalled
<1> QED BY <1>1, <1>2, SignalledStep, PTL DEF Spec

-----------------------------------------------------------------------------
(* Each command once.                                                      *)
(*                                                                         *)
(* The driver is patient: it leaves the queue alone while a completion is  *)
(* handled.  Without that a fence that "msg" is finishing may be fetched   *)
(* and executed again (README section 6).                                  *)

\* Commands between head and tail, and the slot of the k-th of them.
Waiting == IF cqt >= cqh THEN cqt - cqh ELSE cqt - cqh + QUEUE_SIZE
Slot(k) == IF cqh + k < QUEUE_SIZE THEN cqh + k ELSE cqh + k - QUEUE_SIZE

\* The ring holds the names posted last, in order.
InOrder == /\ Waiting <= Len(posted)
           /\ \A k \in 0 .. Waiting - 1 : ring[Slot(k)] = Len(posted) - Waiting + 1 + k

\* What is not in the ring was executed or given up.
Settled == Done \cup dropped = 1 .. Len(posted) - Waiting
Rings == csr.cqon => InOrder /\ Settled

History == /\ Done \subseteq 1 .. Len(posted)
           /\ \A i, j \in DOMAIN executed : i < j => executed[i] < executed[j]

\* cqen and cqon differ only while the queue is busy; a thread that has a command
\* in hand is alone with it, on a queue that is on, and so is a fence that waits.
Handling(t) == at[t] \in {"fetch", "pipeline", "fence_write", "msi_to", "msi_mf"}
Gates ==
  /\ csr.cqen => csr.cqon
  /\ ~csr.busy => csr.cqen = csr.cqon
  /\ at["msg"] # "idle" => at["sw"] \in {"idle", "msi"}
  /\ \A t \in Threads : Handling(t) => csr.cqon /\ ~wait
  /\ wait => csr.cqon /\ at["sw"] \in {"idle", "msi"} /\ at["msg"] = "idle"

\* That command is the one at the head.
Heads ==
  /\ \A t \in Threads :
        at[t] \in {"fetch", "pipeline", "fence_write"} => cqh # cqt /\ run[t] = ring[cqh]
  /\ wait => cqh # cqt /\ fence = ring[cqh]

Order == Gates /\ Heads /\ Rings /\ History
OrderInv == Types /\ Order

LEMMA NextIs ==
  ASSUME NEW i \in Indices
  PROVE  Next1(i) = IF i + 1 = QUEUE_SIZE THEN 0 ELSE i + 1
  BY QueueAssumption DEF Indices, Next1

LEMMA WaitingRange ==
  ASSUME QueueTyped
  PROVE  /\ Waiting \in 0 .. QUEUE_SIZE - 1 /\ (Waiting = 0 <=> cqh = cqt)
         /\ (cqt - cqh) % QUEUE_SIZE = Waiting /\ Len(posted) \in Nat
         /\ \A k \in Indices : Slot(k) \in Indices /\ (cqh + k) % QUEUE_SIZE = Slot(k)
<1>1. QUEUE_SIZE \in Nat \ {0, 1} /\ cqh \in Indices /\ cqt \in Indices /\ Len(posted) \in Nat
  BY QueueAssumption DEF QueueTyped
<1>2. Waiting \in 0 .. QUEUE_SIZE - 1 /\ (Waiting = 0 <=> cqh = cqt)
  BY <1>1 DEF Waiting, Indices
<1>3. (cqt - cqh) % QUEUE_SIZE = Waiting
  BY <1>1 DEF Waiting, Indices
<1>4. ASSUME NEW k \in Indices
      PROVE  Slot(k) \in Indices /\ (cqh + k) % QUEUE_SIZE = Slot(k)
  BY <1>1 DEF Slot, Indices
<1> QED BY <1>1, <1>2, <1>3, <1>4

\* The names in the ring are the last ones posted.
LEMMA InRingIs ==
  ASSUME QueueTyped, InOrder
  PROVE  InRing = (Len(posted) - Waiting + 1) .. Len(posted)
<1>1. /\ Waiting \in 0 .. QUEUE_SIZE - 1 /\ QUEUE_SIZE \in Nat /\ Len(posted) \in Nat
      /\ Waiting <= Len(posted)
  BY WaitingRange, QueueAssumption DEF InOrder
<1>2. InRing = {ring[Slot(k)] : k \in 0 .. Waiting - 1}
  <2>1. \A k \in 0 .. Waiting - 1 : (cqh + k) % QUEUE_SIZE = Slot(k)
    BY <1>1, WaitingRange DEF Indices
  <2>2. InRing = {ring[(cqh + k) % QUEUE_SIZE] : k \in 0 .. Waiting - 1}
    BY WaitingRange DEF InRing
  <2> QED BY <2>1, <2>2
<1>3. InRing = {Len(posted) - Waiting + 1 + k : k \in 0 .. Waiting - 1}
  BY <1>2 DEF InOrder
<1>4. ASSUME NEW n \in (Len(posted) - Waiting + 1) .. Len(posted)
      PROVE  n \in InRing
  <2>1. n - (Len(posted) - Waiting + 1) \in 0 .. Waiting - 1
    BY <1>1
  <2>2. n = Len(posted) - Waiting + 1 + (n - (Len(posted) - Waiting + 1))
    BY <1>1
  <2> QED BY <1>3, <2>1, <2>2
<1>5. ASSUME NEW n \in InRing PROVE n \in (Len(posted) - Waiting + 1) .. Len(posted)
  BY <1>1, <1>3
<1> QED BY <1>4, <1>5

LEMMA InOrderPost ==
  ASSUME QueueTyped, InOrder, Next1(cqt) # cqh, Len(posted') = Len(posted) + 1,
         ring' = [ring EXCEPT ![cqt] = Len(posted) + 1], cqt' = Next1(cqt), cqh' = cqh
  PROVE  InOrder' /\ Waiting' = Waiting + 1
<1>1. /\ QUEUE_SIZE \in Nat \ {0, 1} /\ cqh \in Indices /\ cqt \in Indices /\ Len(posted) \in Nat
      /\ ring \in [Indices -> Ids \cup {0}]
  BY QueueAssumption DEF QueueTyped
<1>2. Waiting' = Waiting + 1
  <2>1. cqt' = IF cqt + 1 = QUEUE_SIZE THEN 0 ELSE cqt + 1
    BY <1>1, NextIs
  <2>2. CASE cqt + 1 = QUEUE_SIZE
    BY <1>1, <2>1, <2>2 DEF Waiting, Indices
  <2>3. CASE cqt + 1 # QUEUE_SIZE
    BY <1>1, <2>1, <2>3 DEF Waiting, Indices
  <2> QED BY <2>2, <2>3
<1>3. Waiting \in Nat /\ Waiting + 1 < QUEUE_SIZE
  BY <1>1, NextIs DEF Waiting, Indices
<1>4. \A k \in 0 .. Waiting - 1 : Slot(k) \in Indices /\ Slot(k) # cqt
  BY <1>1, <1>3 DEF Waiting, Slot, Indices
<1>5. Slot(Waiting) = cqt
  BY <1>1 DEF Waiting, Slot, Indices
<1>6. \A k \in 0 .. Waiting : Slot(k)' = Slot(k)
  BY DEF Slot
<1>7. ASSUME NEW k \in 0 .. Waiting
      PROVE  ring'[Slot(k)'] = Len(posted') - Waiting' + 1 + k
  <2>1. CASE k = Waiting
    BY <1>1, <1>2, <1>3, <1>5, <1>6, <2>1
  <2>2. CASE k # Waiting
    <3>1. k \in 0 .. Waiting - 1
      BY <1>3, <2>2
    <3>2. ring'[Slot(k)'] = ring[Slot(k)]
      BY <1>1, <1>4, <1>6, <3>1
    <3> QED BY <1>1, <1>2, <1>3, <3>1, <3>2 DEF InOrder
  <2> QED BY <2>1, <2>2
<1>8. Waiting' <= Len(posted')
  BY <1>1, <1>2, <1>3 DEF InOrder
<1> QED BY <1>2, <1>3, <1>7, <1>8 DEF InOrder

\* Retiring the command at the head takes the oldest name out of the ring.
LEMMA InOrderRetire ==
  ASSUME QueueTyped, InOrder, cqh # cqt, cqh' = Next1(cqh), UNCHANGED <<posted, ring, cqt>>
  PROVE  /\ ring[cqh] = Len(posted) - Waiting + 1
         /\ InOrder' /\ Waiting' = Waiting - 1 /\ Waiting \in Nat \ {0}
<1>1. /\ QUEUE_SIZE \in Nat \ {0, 1} /\ cqh \in Indices /\ cqt \in Indices /\ Len(posted) \in Nat
  BY QueueAssumption DEF QueueTyped
<1>2. Waiting' = Waiting - 1 /\ Waiting \in Nat \ {0} /\ Waiting < QUEUE_SIZE
  <2>1. cqh' = IF cqh + 1 = QUEUE_SIZE THEN 0 ELSE cqh + 1
    BY <1>1, NextIs
  <2>2. CASE cqh + 1 = QUEUE_SIZE
    BY <1>1, <2>1, <2>2 DEF Waiting, Indices
  <2>3. CASE cqh + 1 # QUEUE_SIZE
    BY <1>1, <2>1, <2>3 DEF Waiting, Indices
  <2> QED BY <2>2, <2>3
<1>3. Slot(0) = cqh
  BY <1>1 DEF Slot, Indices
<1>4. ring[cqh] = Len(posted) - Waiting + 1
  <2>1. 0 \in 0 .. Waiting - 1
    BY <1>2
  <2>2. ring[Slot(0)] = Len(posted) - Waiting + 1 + 0
    BY <2>1 DEF InOrder
  <2> QED BY <1>1, <1>2, <1>3, <2>2
<1>5. \A k \in 0 .. Waiting - 2 : Slot(k)' = Slot(k + 1) /\ k + 1 \in 0 .. Waiting - 1
  BY <1>1, <1>2, NextIs DEF Slot, Indices
<1>6. ASSUME NEW k \in 0 .. Waiting - 2
      PROVE  ring'[Slot(k)'] = Len(posted') - Waiting' + 1 + k
  <2>1. ring[Slot(k + 1)] = Len(posted) - Waiting + 1 + (k + 1)
    BY <1>5 DEF InOrder
  <2> QED BY <1>1, <1>2, <1>5, <2>1
<1> QED BY <1>1, <1>2, <1>4, <1>6 DEF InOrder

\* Done gains the command that is retired.
LEMMA RetireDone ==
  ASSUME NEW n, executed \in Seq(Ids), executed' = Append(executed, n)
  PROVE  Done' = Done \cup {n}
<1>1. /\ Len(executed) \in Nat /\ DOMAIN executed = 1 .. Len(executed)
      /\ DOMAIN executed' = 1 .. Len(executed) + 1
      /\ \A i \in 1 .. Len(executed) : executed'[i] = executed[i]
      /\ executed'[Len(executed) + 1] = n
  OBVIOUS
<1>2. Done' = {executed'[i] : i \in 1 .. Len(executed) + 1}
  BY <1>1 DEF Done
<1>3. 1 .. Len(executed) + 1 = 1 .. Len(executed) \cup {Len(executed) + 1}
  BY <1>1
<1>4. Done = {executed[i] : i \in 1 .. Len(executed)}
  BY <1>1 DEF Done
<1> QED BY <1>1, <1>2, <1>3, <1>4

\* Retire(ring[cqh]) keeps what is known of the ring and of the history.
LEMMA OrderRetire ==
  ASSUME Types, Rings, History, csr.cqon, cqh # cqt, Retire(ring[cqh]),
         UNCHANGED <<posted, ring, cqt, dropped>>
  PROVE  Rings' /\ History' /\ ring[cqh] > 0 /\ \A n \in Done : n < ring[cqh]
<1> DEFINE n == ring[cqh]
<1>1. QueueTyped /\ executed \in Seq(Ids) /\ InOrder /\ Settled
  BY DEF Types, HistoryTyped, Rings
<1>2. cqh' = Next1(cqh) /\ executed' = Append(executed, n)
  BY DEF Retire
<1>3. /\ n = Len(posted) - Waiting + 1 /\ InOrder' /\ Waiting' = Waiting - 1
      /\ Waiting \in Nat \ {0} /\ Waiting <= Len(posted) /\ Len(posted) \in Nat
  BY <1>1, <1>2, InOrderRetire, WaitingRange DEF InOrder
<1>4. Done' = Done \cup {n}
  BY <1>1, <1>2, RetireDone
<1>5. Done \subseteq 1 .. Len(posted) - Waiting
  BY <1>1 DEF Settled
<1>6. Settled'
  BY <1>1, <1>3, <1>4 DEF Settled
<1>7. \A m \in Done : m < n
  BY <1>3, <1>5
<1>8. History'
  <2>1. Done' \subseteq 1 .. Len(posted')
    <3>1. n \in 1 .. Len(posted)
      BY <1>3
    <3>2. 1 .. Len(posted) - Waiting \subseteq 1 .. Len(posted)
      BY <1>3
    <3> QED BY <1>4, <1>5, <3>1, <3>2
  <2>2. ASSUME NEW i \in DOMAIN executed', NEW j \in DOMAIN executed', i < j
        PROVE  executed'[i] < executed'[j]
    <3>1. /\ Len(executed) \in Nat /\ DOMAIN executed = 1 .. Len(executed)
          /\ DOMAIN executed' = 1 .. Len(executed) + 1
          /\ \A k \in 1 .. Len(executed) : executed'[k] = executed[k]
          /\ executed'[Len(executed) + 1] = n
      BY <1>1, <1>2
    <3>2. i \in 1 .. Len(executed) /\ executed[i] \in Done
      BY <2>2, <3>1 DEF Done
    <3>3. CASE j = Len(executed) + 1
      BY <1>7, <3>1, <3>2, <3>3
    <3>4. CASE j \in 1 .. Len(executed)
      BY <2>2, <3>1, <3>2, <3>4 DEF History
    <3> QED BY <2>2, <3>1, <3>3, <3>4
  <2> QED BY <2>1, <2>2 DEF History
<1> QED BY <1>3, <1>6, <1>7, <1>8 DEF Rings

\* Nothing that Rings and History speak of changes, and the queue is not turned on.
LEMMA OrderKept ==
  ASSUME Rings, History, csr'.cqon => csr.cqon,
         UNCHANGED <<posted, ring, cqt, cqh, executed, dropped>>
  PROVE  Rings' /\ History'
  BY DEF Rings, History, InOrder, Settled, Waiting, Slot, Done

LEMMA ResumedGates ==
  ASSUME NEW c \in Csr
  PROVE  Resumed(c).cqen = c.cqen /\ Resumed(c).cqon = c.cqen /\ ~Resumed(c).busy
  BY DEF Csr, Resumed

\* Thread t has the command n at the head in hand; nobody else has one.
InHand(t, n) ==
  /\ csr.cqon /\ cqh # cqt /\ n = ring[cqh]
  /\ at["sw"] # "msi" => \A u \in Threads : u # t => at[u] = "idle"
  /\ at["sw"] = "msi" => t = "msg"

LEMMA OrderFence ==
  ASSUME OrderInv, NEW t \in Threads, NEW n, NEW tags, NEW dev, NEW late, NEW lost,
         Fence(t, n, tags, dev, late, lost), InHand(t, n), UNCHANGED <<posted, ring, cqt, dropped>>
  PROVE  Order'
<1>1. Types /\ Gates /\ Heads /\ Rings /\ History /\ csr \in Csr
  BY DEF OrderInv, Order, Types, RegistersTyped
<1>2. \A bit \in {"cqmf", "cmd_to"} : /\ [csr EXCEPT ![bit] = TRUE] \in Csr
                                      /\ [csr EXCEPT ![bit] = TRUE].cqon = csr.cqon
                                      /\ [csr EXCEPT ![bit] = TRUE].cqen = csr.cqen
                                      /\ [csr EXCEPT ![bit] = TRUE].busy = csr.busy
  BY <1>1 DEF Csr
<1>3. /\ csr'.cqen => csr'.cqon
      /\ ~csr'.busy => csr'.cqen = csr'.cqon
      /\ csr'.cqon => csr.cqon
      /\ at'[t] # "idle" \/ wait' => csr'.cqon
  <2>1. ASSUME NEW bit \in {"cqmf", "cmd_to"}, FenceStops(t, bit, tags, dev), wait' = FALSE
        PROVE  /\ csr'.cqen => csr'.cqon
               /\ ~csr'.busy => csr'.cqen = csr'.cqon
               /\ csr'.cqon => csr.cqon
               /\ at'[t] # "idle" \/ wait' => csr'.cqon
    <3>1. CASE csr' = [csr EXCEPT ![bit] = TRUE]
      BY <1>1, <1>2, <3>1 DEF Gates, InHand
    <3>2. CASE csr' = Resumed([csr EXCEPT ![bit] = TRUE]) /\ Goto(t, "idle")
      <4>1. at'[t] = "idle"
        BY <1>1, <3>2 DEF Goto, Types, ThreadsTyped
      <4> QED BY <1>1, <1>2, <2>1, <3>2, <4>1, ResumedGates DEF Gates, InHand
    <3> QED BY <2>1, <3>1, <3>2 DEF FenceStops
  <2>2. CASE csr' = csr
    BY <1>1, <2>2 DEF Gates, InHand
  <2>3. CASE csr' = Resumed(csr) /\ Goto(t, "idle") /\ wait' = FALSE
    <3>1. at'[t] = "idle"
      BY <1>1, <2>3 DEF Goto, Types, ThreadsTyped
    <3> QED BY <1>1, <2>3, <3>1, ResumedGates DEF Gates, InHand
  <2> QED BY <2>1, <2>2, <2>3, FenceOutcome DEF FenceWaits, FenceWrites, FencePasses
<1>4. /\ \E place \in {"idle", "fence_write", "msi_to", "msi_mf"} : Goto(t, place)
      /\ wait' => wait' = TRUE /\ fence' = n /\ Goto(t, "idle") /\ UNCHANGED cqh
      /\ at'[t] = "fence_write" => UNCHANGED cqh
  BY <1>1, FenceOutcome DEF FenceWaits, FenceWrites, FencePasses, FenceStops, Goto, Types, ThreadsTyped
<1>5. run' = [run EXCEPT ![t] = n] /\ UNCHANGED <<posted, ring, cqt, dropped>>
  BY FenceOutcome
<1>6. PICK place \in {"idle", "fence_write", "msi_to", "msi_mf"} : at' = [at EXCEPT ![t] = place]
  BY <1>4 DEF Goto
<1>7. \A u \in Threads : u # t => at'[u] = at[u] /\ (at[u] = "idle" \/ (u = "sw" /\ at[u] = "msi"))
  BY <1>1, <1>6 DEF InHand, Types, ThreadsTyped, Threads
<1>8. at'[t] = place /\ run'[t] = n
  BY <1>1, <1>5, <1>6 DEF Types, ThreadsTyped
<1>9. wait' => at'[t] = "idle"
  BY <1>1, <1>4 DEF Goto, Types, ThreadsTyped
<1>10. Gates'
  BY <1>3, <1>7, <1>8, <1>9 DEF Gates, Handling, Threads
<1>11. Heads'
  BY <1>4, <1>5, <1>7, <1>8 DEF Heads, InHand
<1>12. Rings' /\ History'
  <2>1. CASE Retire(n)
    <3>1. Retire(ring[cqh]) /\ csr.cqon /\ cqh # cqt
      BY <2>1 DEF InHand
    <3> QED BY <1>1, <1>5, <3>1, OrderRetire
  <2>2. CASE UNCHANGED <<cqh, executed>>
    BY <1>1, <1>3, <1>5, <2>2, OrderKept
  <2> QED BY <2>1, <2>2, FenceOutcome DEF FenceWaits, FenceWrites, FencePasses, FenceStops
<1> QED BY <1>10, <1>11, <1>12 DEF Order

\* A thread other than those named stays where it is.
LEMMA OthersStay ==
  ASSUME Types, NEW t \in Threads, NEW place, Goto(t, place)
  PROVE  at'[t] = place /\ \A u \in Threads : u # t => at'[u] = at[u]
  BY DEF Goto, Types, ThreadsTyped

LEMMA OrderPost ==
  ASSUME OrderInv, NEW p \in Programs, Post(p)
  PROVE  Order'
<1>1. Types /\ Gates /\ Heads /\ Rings /\ History
  BY DEF OrderInv, Order
<1>2. /\ csr.cqen /\ Len(posted) < Len(p) /\ posted' = SubSeq(p, 1, Len(posted) + 1)
      /\ Next1(cqt) # cqh /\ at["sw"] = "idle"
      /\ ring' = [ring EXCEPT ![cqt] = Len(posted) + 1] /\ cqt' = Next1(cqt)
      /\ UNCHANGED <<cqh, csr, at, run, wait, fence, executed, dropped>>
  BY DEF Post, SoftwareMay, pending, history
<1>3. p \in Seq(Command) /\ Len(posted) \in Nat
  BY ProgramsAssumption DEF OrderInv, Types, QueueTyped
<1>4. Len(posted') = Len(posted) + 1
  BY <1>2, <1>3
<1>5. csr.cqon /\ InOrder /\ Settled /\ QueueTyped
  BY <1>1, <1>2 DEF Gates, Rings, Types
<1>6. InOrder' /\ Waiting' = Waiting + 1
  BY <1>2, <1>4, <1>5, InOrderPost
<1>7. Settled'
  BY <1>2, <1>3, <1>4, <1>5, <1>6, WaitingRange DEF Settled, Done
<1>8. History'
  BY <1>1, <1>2, <1>3, <1>4 DEF History, Done
<1>9. cqh # cqt => ring'[cqh] = ring[cqh] /\ cqh # cqt'
  BY <1>2, <1>5 DEF QueueTyped
<1>10. Heads'
  BY <1>1, <1>2, <1>9 DEF Heads
<1>11. Gates'
  BY <1>1, <1>2 DEF Gates, Handling
<1> QED BY <1>6, <1>7, <1>8, <1>10, <1>11 DEF Order, Rings

LEMMA OrderFetch ==
  ASSUME Patient, OrderInv, Fetch
  PROVE  Order'
<1>1. Types /\ Gates /\ Heads /\ Rings /\ History
  BY DEF OrderInv, Order
<1>2. /\ csr.cqon /\ ~wait /\ cqh # cqt /\ at["sw"] = "idle" /\ at["msg"] = "idle"
      /\ Goto("sw", "fetch") /\ run' = [run EXCEPT !["sw"] = ring[cqh]]
      /\ UNCHANGED <<posted, ring, cqt, cqh, csr, wait, fence, executed, dropped>>
  BY DEF Fetch, SoftwareMay, queue, pending, history
<1>3. at'["sw"] = "fetch" /\ at'["msg"] = "idle" /\ run'["sw"] = ring[cqh]
  BY <1>1, <1>2 DEF Goto, Types, ThreadsTyped, Threads
<1>4. Gates' /\ Heads'
  BY <1>1, <1>2, <1>3 DEF Gates, Heads, Handling, Threads
<1> QED BY <1>1, <1>2, <1>4, OrderKept DEF Order

LEMMA OrderExecute ==
  ASSUME OrderInv, Execute
  PROVE  Order'
<1> DEFINE n == run["sw"]
<1>1. Types /\ Gates /\ Heads /\ Rings /\ History /\ csr \in Csr
  BY DEF OrderInv, Order, Types, RegistersTyped
<1>2. at["sw"] = "fetch" /\ UNCHANGED <<posted, ring, cqt>> /\ "sw" \in Threads
  BY ExecuteCases DEF Threads
<1>3. /\ csr.cqon /\ ~wait /\ at["msg"] = "idle" /\ cqh # cqt /\ n = ring[cqh]
  BY <1>1, <1>2 DEF Gates, Heads, Handling, Types, ThreadsTyped, Threads
<1>4. CASE Fence("sw", n, itag, owes, timeout, unreported) /\ UNCHANGED dropped
  <2>1. InHand("sw", n)
    BY <1>2, <1>3 DEF InHand, Threads
  <2> QED BY <1>2, <1>4, <2>1, OrderFence
<1>5. CASE ExecuteInval(n) \/ ExecutePrgr(n)
  <2>1. /\ Retire(ring[cqh]) /\ Goto("sw", "idle")
        /\ UNCHANGED <<csr, wait, fence, run, dropped>>
    BY <1>3, <1>5 DEF ExecuteInval, ExecutePrgr
  <2>2. at'["sw"] = "idle" /\ at'["msg"] = "idle"
    BY <1>1, <1>3, <2>1 DEF Goto, Types, ThreadsTyped, Threads
  <2>3. Gates' /\ Heads'
    BY <1>1, <1>3, <2>1, <2>2 DEF Gates, Heads, Handling, Threads
  <2>4. Rings' /\ History'
    BY <1>1, <1>2, <1>3, <2>1, OrderRetire
  <2> QED BY <2>3, <2>4 DEF Order
<1>6. CASE ExecuteCache(n)
  <2>1. /\ Goto("sw", "pipeline") /\ UNCHANGED <<cqh, csr, wait, fence, run, executed, dropped>>
    BY <1>6 DEF ExecuteCache
  <2>2. at'["sw"] = "pipeline" /\ at'["msg"] = "idle"
    BY <1>1, <1>3, <2>1 DEF Goto, Types, ThreadsTyped, Threads
  <2>3. Gates' /\ Heads'
    BY <1>1, <1>2, <1>3, <2>1, <2>2 DEF Gates, Heads, Handling, Threads
  <2> QED BY <1>1, <1>2, <2>1, <2>3, OrderKept DEF Order
<1>7. CASE ExecuteIllegal(n)
  <2>1. /\ csr' = [csr EXCEPT !.cmd_ill = TRUE] /\ (Goto("sw", "msi") \/ Goto("sw", "idle"))
        /\ UNCHANGED <<cqh, wait, fence, run, executed, dropped>>
    BY <1>7 DEF ExecuteIllegal
  <2>2. csr'.cqen = csr.cqen /\ csr'.cqon = csr.cqon /\ csr'.busy = csr.busy
    BY <1>1, <2>1 DEF Csr
  <2>3. at'["sw"] \in {"idle", "msi"} /\ at'["msg"] = "idle"
    BY <1>1, <1>3, <2>1 DEF Goto, Types, ThreadsTyped, Threads
  <2>4. Gates' /\ Heads'
    BY <1>1, <1>3, <2>1, <2>2, <2>3 DEF Gates, Heads, Handling, Threads
  <2> QED BY <1>1, <1>2, <2>1, <2>2, <2>4, OrderKept DEF Order
<1> QED BY <1>4, <1>5, <1>6, <1>7, ExecuteCases

LEMMA OrderPipelineDone ==
  ASSUME OrderInv, PipelineDone
  PROVE  Order'
<1>1. Types /\ Gates /\ Heads /\ Rings /\ History
  BY DEF OrderInv, Order
<1>2. /\ at["sw"] = "pipeline" /\ Goto("sw", "idle") /\ Retire(run["sw"])
      /\ UNCHANGED <<posted, ring, cqt, csr, wait, fence, run, dropped>>
  BY DEF PipelineDone, queue, pending
<1>3. csr.cqon /\ ~wait /\ at["msg"] = "idle" /\ cqh # cqt /\ run["sw"] = ring[cqh]
  BY <1>1, <1>2 DEF Gates, Heads, Handling, Types, ThreadsTyped, Threads
<1>4. at'["sw"] = "idle" /\ at'["msg"] = "idle"
  BY <1>1, <1>2, <1>3 DEF Goto, Types, ThreadsTyped, Threads
<1>5. Gates' /\ Heads'
  BY <1>1, <1>2, <1>3, <1>4 DEF Gates, Heads, Handling, Threads
<1>6. Retire(ring[cqh])
  BY <1>2, <1>3
<1> QED BY <1>1, <1>2, <1>3, <1>5, <1>6, OrderRetire DEF Order

LEMMA OrderWriteAnswered ==
  ASSUME OrderInv, NEW t \in Threads, WriteAnswered(t)
  PROVE  Order'
<1>1. Types /\ Gates /\ Heads /\ Rings /\ History /\ csr \in Csr
  BY DEF OrderInv, Order, Types, RegistersTyped
<1>2. UNCHANGED <<posted, ring, cqt, wait, fence, run, dropped>> /\ Goto(t, "idle")
  BY WriteAnsweredCases
<1>3. at'[t] = "idle" /\ \A u \in Threads : u # t => at'[u] = at[u]
  BY <1>1, <1>2, OthersStay
<1>4. CASE at[t] = "msi" /\ UNCHANGED <<cqh, csr, executed>>
  <2>1. Gates' /\ Heads'
    BY <1>1, <1>2, <1>3, <1>4 DEF Gates, Heads, Handling, Threads
  <2> QED BY <1>1, <1>2, <1>4, <2>1, OrderKept DEF Order
<1>5. CASE FenceWritten(t) \/ StopSignalled(t)
  <2>1. Handling(t) /\ csr.cqon /\ ~wait
    BY <1>1, <1>5 DEF FenceWritten, StopSignalled, Gates, Handling
  <2>2. \A u \in Threads : u # t => at[u] = "idle" \/ at[u] = "msi"
    BY <1>1, <2>1 DEF Gates, Handling, Types, ThreadsTyped, Threads
  <2>3. csr' = csr \/ csr' = Resumed(csr)
    BY WriteAnsweredCases
  <2>4. /\ csr'.cqen => csr'.cqon
        /\ ~csr'.busy => csr'.cqen = csr'.cqon
        /\ csr'.cqon => csr.cqon
    BY <1>1, <2>1, <2>3, ResumedGates DEF Gates
  <2>5. Gates'
    BY <1>1, <1>2, <1>3, <2>1, <2>2, <2>4 DEF Gates, Handling, Threads
  <2>6. Heads'
    BY <1>1, <1>2, <1>3, <2>1, <2>2 DEF Heads
  <2>7. Rings' /\ History'
    <3>1. CASE FenceWritten(t)
      <4>1. cqh # cqt /\ Retire(ring[cqh])
        BY <1>1, <3>1 DEF FenceWritten, Heads
      <4> QED BY <1>1, <1>2, <2>1, <4>1, OrderRetire
    <3>2. CASE StopSignalled(t)
      BY <1>1, <1>2, <2>4, <3>2, OrderKept DEF StopSignalled
    <3> QED BY <1>5, <3>1, <3>2
  <2> QED BY <2>5, <2>6, <2>7 DEF Order
<1> QED BY <1>4, <1>5, WriteAnsweredCases

LEMMA OrderWriteCqcsr ==
  ASSUME Patient, OrderInv, NEW cqen, NEW clear, cqen \in {TRUE, FALSE}, clear \in {TRUE, FALSE},
         WriteCqcsr(cqen, clear)
  PROVE  Order'
<1>1. Types /\ Gates /\ Heads /\ Rings /\ History /\ csr \in Csr
  BY DEF OrderInv, Order, Types, RegistersTyped
<1>2. /\ SoftwareMay /\ ~csr.busy
      /\ UNCHANGED <<posted, ring, cqt, cip, itag, stalled, owes, wait, fence, timeout,
                     at, run, executed, unreported>>
  BY CqcsrCases
<1>3. at["sw"] = "idle" /\ at["msg"] = "idle" /\ csr.cqen = csr.cqon
  BY <1>1, <1>2 DEF SoftwareMay, Gates
<1>4. CASE cqen /\ ~csr.cqen /\ cqt = 0 /\ cqh' = 0 /\ csr' = TurnedOn
           /\ dropped' = 1 .. Len(posted) \ Done
  <2>1. ~wait
    BY <1>1, <1>3, <1>4 DEF Gates
  <2>2. Gates' /\ Heads'
    BY <1>2, <1>3, <1>4, <2>1 DEF Gates, Heads, Handling, TurnedOn, Threads
  <2>3. History'
    BY <1>1, <1>2 DEF History, Done
  <2>4. Waiting' = 0 /\ Len(posted) \in Nat
    BY <1>1, <1>2, <1>4, WaitingRange DEF Waiting, Types
  <2>5. InOrder'
    BY <1>2, <2>4 DEF InOrder
  <2>6. Settled'
    BY <1>1, <1>2, <1>4, <2>4 DEF Settled, Done, History
  <2> QED BY <2>2, <2>3, <2>5, <2>6 DEF Order, Rings
<1>5. CASE ~(cqen /\ ~csr.cqen) /\ UNCHANGED <<cqh, dropped>> /\ csr' = Rewritten(cqen, clear)
  <2>1. /\ csr'.cqen = cqen /\ csr'.cqon = StaysOn(cqen) /\ csr'.busy = (cqen # StaysOn(cqen))
    BY <1>5 DEF Rewritten
  <2>2. /\ cqen => StaysOn(cqen)
        /\ StaysOn(cqen) \in {TRUE, FALSE}
        /\ StaysOn(cqen) => csr.cqon
        /\ wait => StaysOn(cqen)
    BY <1>1, <1>3, <1>5 DEF StaysOn, Gates, Csr
  <2>3. Gates' /\ Heads'
    BY <1>1, <1>2, <1>3, <1>5, <2>1, <2>2 DEF Gates, Heads, Handling, Threads
  <2>4. csr'.cqon => csr.cqon
    BY <2>1, <2>2
  <2> QED BY <1>1, <1>2, <1>5, <2>3, <2>4, OrderKept DEF Order
<1> QED BY <1>4, <1>5, CqcsrCases

LEMMA OrderWriteCqbIpsr ==
  ASSUME Patient, OrderInv, WriteCqb \/ WriteIpsr
  PROVE  Order'
<1>1. Types /\ Gates /\ Heads /\ Rings /\ History
  BY DEF OrderInv, Order
<1>2. CASE WriteCqb
  <2>1. /\ ~csr.cqon /\ at["sw"] = "idle" /\ at["msg"] = "idle"
        /\ UNCHANGED <<posted, ring, cqh, csr, wait, fence, at, run, executed, dropped>>
    BY <1>2 DEF WriteCqb, SoftwareMay, pending, history
  <2>2. Gates' /\ Heads' /\ Rings' /\ History'
    BY <1>1, <2>1 DEF Gates, Heads, Rings, History, Done, Handling, Threads
  <2> QED BY <2>2 DEF Order
<1>3. CASE WriteIpsr
  <2>1. /\ at["sw"] = "idle" /\ at["msg"] = "idle" /\ (at' = at \/ Goto("sw", "msi"))
        /\ UNCHANGED <<posted, ring, cqt, cqh, csr, wait, fence, run, executed, dropped>>
    BY <1>3 DEF WriteIpsr, SoftwareMay, queue, pending, history
  <2>2. at'["sw"] \in {"idle", "msi"} /\ at'["msg"] = "idle"
    BY <1>1, <2>1 DEF Goto, Types, ThreadsTyped, Threads
  <2>3. Gates' /\ Heads'
    BY <1>1, <2>1, <2>2 DEF Gates, Heads, Handling, Threads
  <2> QED BY <1>1, <2>1, <2>3, OrderKept DEF Order
<1> QED BY <1>2, <1>3

LEMMA OrderResume ==
  ASSUME OrderInv, NEW tags, NEW dev, NEW late, NEW lost, Resume(tags, dev, late, lost),
         at["msg"] = "idle", UNCHANGED <<queue, dropped>>
  PROVE  Order'
<1>1. Types /\ Gates /\ Heads /\ Rings /\ History
  BY DEF OrderInv, Order
<1>2. CASE wait /\ Fence("msg", fence, tags, dev, late, lost)
  <2>1. InHand("msg", fence) /\ "msg" \in Threads
    BY <1>1, <1>2 DEF InHand, Gates, Heads, Threads
  <2> QED BY <1>2, <2>1, OrderFence DEF queue
<1>3. CASE ResumeRest(tags, dev, late, lost)
  BY <1>1, <1>3, OrderKept DEF ResumeRest, queue, Order, Gates, Heads, Handling
<1> QED BY <1>2, <1>3, ResumeCases

LEMMA OrderCompletion ==
  ASSUME OrderInv, NEW S, Completion(S)
  PROVE  Order'
<1>1. at["msg"] = "idle" /\ UNCHANGED <<queue, dropped>>
  BY CompletionCases
<1>2. CASE UNCHANGED <<cqh, csr, cip, pending, at, run, executed, unreported>>
  BY <1>1, <1>2, OrderKept DEF queue, pending, OrderInv, Order, Gates, Heads, Handling
<1> QED BY <1>1, <1>2, CompletionCases, OrderResume

LEMMA OrderStep ==
  ASSUME Patient
  PROVE  OrderInv /\ [Next]_vars => OrderInv'
<1> SUFFICES ASSUME OrderInv, [Next]_vars PROVE Order'
  BY TypesStep DEF OrderInv
<1>1. CASE Software
  BY <1>1, OrderPost, OrderFetch, OrderWriteCqcsr, OrderWriteCqbIpsr DEF Software
<1>2. CASE Continue
  BY <1>2, OrderExecute, OrderPipelineDone, OrderWriteAnswered DEF Continue
<1>3. CASE Answer
  BY <1>3, OrderCompletion DEF Answer
<1>4. CASE Expire
  BY <1>4, ExpireCases, OrderResume
<1>5. CASE UNCHANGED vars
  BY <1>5, OrderKept DEF vars, OrderInv, Order, Gates, Heads, Handling
<1> QED BY <1>1, <1>2, <1>3, <1>4, <1>5 DEF Next

LEMMA InitOrder == Init => OrderInv
<1> SUFFICES ASSUME Init PROVE Order
  BY InitTypes DEF OrderInv
<1>1. Gates /\ Heads /\ Rings
  BY DEF Init, CsrOff, Gates, Heads, Rings, Handling, Threads
<1>2. DOMAIN executed = {} /\ Done = {}
  BY DEF Init, Done
<1> QED BY <1>1, <1>2 DEF Order, History

\* A command is executed exactly once and in the order of posting: as long as the
\* queue is on, every command posted and not given up is either executed or still in
\* the ring, although cqh is moved in two places (iommu_command_queue.cc:255, :660).
THEOREM EachOnceInOrder ==
  ASSUME Patient
  PROVE  Spec => []EachCommandOnce
<1>1. OrderInv => EachCommandOnce
  <2> SUFFICES ASSUME OrderInv PROVE EachCommandOnce
    OBVIOUS
  <2>1. TypeOK /\ QueueTyped
    BY TypesMeanTypeOK DEF OrderInv, Types
  <2>2. csr.cqon => InRing = (1 .. Len(posted)) \ (Done \cup dropped)
    <3> SUFFICES ASSUME csr.cqon PROVE InRing = (1 .. Len(posted)) \ (Done \cup dropped)
      OBVIOUS
    <3>1. InOrder /\ Settled
      BY DEF OrderInv, Order, Rings
    <3>2. InRing = (Len(posted) - Waiting + 1) .. Len(posted)
      BY <2>1, <3>1, InRingIs
    <3>3. Waiting \in Nat /\ Len(posted) \in Nat /\ Waiting <= Len(posted)
      BY <2>1, <3>1, WaitingRange DEF InOrder
    <3>4. (1 .. Len(posted)) \ (1 .. Len(posted) - Waiting)
             = (Len(posted) - Waiting + 1) .. Len(posted)
      BY <3>3
    <3> QED BY <3>1, <3>2, <3>4 DEF Settled
  <2> QED BY <2>1, <2>2 DEF OrderInv, Order, History, EachCommandOnce
<1> QED BY <1>1, InitOrder, OrderStep, PTL DEF Spec

-----------------------------------------------------------------------------
(* A fence waits for what came before it.                                  *)

\* Every request a device has not answered is in the tracker under its tag, with
\* the answers that came so far.
Tracked(tags, dev) ==
  \A o \in dev : /\ tags[o.tag].busy /\ tags[o.tag].cmd = o.cmd
                 /\ o.left + tags[o.tag].rcvd = CC

\* Nothing of a command up to n is outstanding, waits for a tag, or was lost
\* without the driver having been told.
Clear(n, tags, waiting, lost) ==
  /\ \A i \in Tags : tags[i].busy => tags[i].cmd > n
  /\ waiting # 0 => waiting > n
  /\ \A m \in lost : m > n

\* A fence is written, or stops, when no invalidation is outstanding, and its time-out
\* is the one the driver hears of.
Ending(t) == at[t] \in {"fence_write", "msi_to", "msi_mf"}
Tracks ==
  /\ Tracked(itag, owes)
  /\ wait => stalled = 0
  /\ \A t \in Threads : Handling(t) => stalled = 0
  /\ \A t \in Threads : Ending(t) => ~AnyBusy(itag)
  /\ \A t \in Threads : at[t] \in {"fence_write", "msi_to"} => unreported = {}
  /\ unreported # {} => timeout
  /\ at["sw"] = "pipeline" => Op(run["sw"]) # "fence"
Fences == \A n \in Done : Op(n) = "fence" => Clear(n, itag, stalled, unreported)
FenceInv == OrderInv /\ Tracks /\ Fences

LEMMA AllocatedTracked ==
  ASSUME NEW tags \in TagTable, NEW dev \in SUBSET Request, NEW n \in Ids, Tracked(tags, dev)
  PROVE  /\ Tracked(Allocated(tags, n), dev \cup Sent(tags, n))
         /\ \A i \in Tags : Allocated(tags, n)[i].busy =>
              Allocated(tags, n)[i].cmd = n \/ (tags[i].busy /\ Allocated(tags, n)[i] = tags[i])
<1>1. CC \in Nat /\ \A i \in FreeTag(tags) : i \in Tags /\ ~tags[i].busy
  BY FreeTagOne, QueueAssumption
<1>2. \A i \in FreeTag(tags) : Allocated(tags, n)[i] = [busy |-> TRUE, cmd |-> n, rcvd |-> 0]
  BY <1>1 DEF Allocated
<1>3. \A i \in Tags : i \notin FreeTag(tags) => Allocated(tags, n)[i] = tags[i]
  BY DEF Allocated
<1>4. ASSUME NEW o \in dev
      PROVE  /\ Allocated(tags, n)[o.tag].busy /\ Allocated(tags, n)[o.tag].cmd = o.cmd
             /\ o.left + Allocated(tags, n)[o.tag].rcvd = CC
  BY <1>1, <1>3 DEF Tracked, Request
<1>5. ASSUME NEW o \in Sent(tags, n)
      PROVE  /\ Allocated(tags, n)[o.tag].busy /\ Allocated(tags, n)[o.tag].cmd = o.cmd
             /\ o.left + Allocated(tags, n)[o.tag].rcvd = CC
  BY <1>1, <1>2 DEF Sent
<1>6. Tracked(Allocated(tags, n), dev \cup Sent(tags, n))
  BY <1>4, <1>5 DEF Tracked
<1> QED BY <1>2, <1>3, <1>6

\* A request that waited for a tag gets one, or every tag is busy.
LEMMA UnblockTracked ==
  ASSUME NEW tags \in TagTable, NEW dev \in SUBSET Request, Tracked(tags, dev),
         stalled \in Ids \cup {0}, Kept(tags, dev) \/ UnblockInval(tags, dev)
  PROVE  /\ Tracked(itag', owes')
         /\ \A n, lost : Clear(n, tags, stalled, lost) => Clear(n, itag', stalled', lost)
         /\ stalled = 0 => Kept(tags, dev)
         /\ UnblockInval(tags, dev) /\ stalled' # 0 => AnyBusy(itag')
<1>1. CASE Kept(tags, dev)
  <2>1. UnblockInval(tags, dev) /\ stalled' # 0 => AnyBusy(itag')
    BY <1>1, FreeTagOne, TagsAssumed, SentTyped DEF Kept, UnblockInval, AnyBusy
  <2> QED BY <1>1, <2>1 DEF Kept
<1>2. CASE stalled # 0 /\ FreeTag(tags) # {} /\ UnblockInval(tags, dev)
  <2>1. /\ itag' = Allocated(tags, stalled) /\ owes' = dev \cup Sent(tags, stalled)
        /\ stalled' = 0 /\ stalled \in Ids
    BY <1>2 DEF UnblockInval
  <2> QED BY <1>2, <2>1, AllocatedTracked DEF Clear
<1>3. CASE ~(stalled # 0 /\ FreeTag(tags) # {}) /\ UnblockInval(tags, dev)
  <2>1. Kept(tags, dev)
    BY <1>3 DEF UnblockInval, Kept
  <2> QED BY <1>1, <2>1
<1> QED BY <1>1, <1>2, <1>3

\* What a fence needs to know of the tracker, the devices and the time-outs so far.
Before(tags, dev, late, lost) ==
  /\ tags \in TagTable /\ dev \in SUBSET Request /\ Tracked(tags, dev)
  /\ lost # {} => late
  /\ \A n \in Done : Op(n) = "fence" => Clear(n, tags, stalled, lost)

\* A fence is executed only when nothing is outstanding and nothing was lost.
LEMMA FencePassed ==
  ASSUME NEW t \in Threads, NEW n, NEW tags, NEW dev, NEW late \in {TRUE, FALSE}, NEW lost,
         Fence(t, n, tags, dev, late, lost), executed' # executed
  PROVE  /\ late = FALSE /\ ~AnyBusy(tags) /\ unreported' = lost
         /\ executed' = Append(executed, n)
  BY DEF Fence, FenceFails, AfterFence, Retire

LEMMA TracksFence ==
  ASSUME FenceInv, NEW t \in Threads, NEW n, NEW tags, NEW dev, NEW late \in {TRUE, FALSE},
         NEW lost, Fence(t, n, tags, dev, late, lost), InHand(t, n), UNCHANGED <<posted, ring, cqt, dropped>>,
         stalled = 0, Before(tags, dev, late, lost)
  PROVE  Tracks' /\ Fences'
<1>1. Types /\ at \in [Threads -> Places] /\ executed \in Seq(Ids)
  BY DEF FenceInv, OrderInv, Types, ThreadsTyped, HistoryTyped
<1>2. Kept(tags, dev) /\ Tracked(itag', owes') /\ stalled' = 0
  <2>1. Kept(tags, dev) \/ UnblockInval(tags, dev)
    BY FenceOutcome DEF FenceWaits, FenceWrites, FencePasses, FenceStops
  <2> QED BY <2>1, UnblockTracked DEF Before, Kept
<1>3. \E place : Goto(t, place)
  BY FenceOutcome DEF FenceWaits, FenceWrites, FencePasses, FenceStops
<1>4. \A u \in Threads : u # t => at'[u] = at[u] /\ ~Ending(u) /\ ~Handling(u)
  BY <1>1, <1>3, OthersStay DEF InHand, Ending, Handling, FenceInv, OrderInv, Threads
<1>5. unreported' \in {lost, {}} /\ (unreported' # {} => timeout')
  <2>1. unreported' = {} \/ (unreported' = lost /\ timeout' = late)
    BY FenceOutcome
  <2> QED BY <2>1 DEF Before
<1>6. \A u \in Threads : at'[u] \in {"fence_write", "msi_to", "msi_mf"} => ~AnyBusy(itag')
  <2>1. AnyBusy(tags) => at'[t] = "idle"
    BY <1>1, FenceOutcome DEF FenceWaits, Goto
  <2> QED BY <1>2, <1>4, <2>1 DEF Ending, Kept
<1>7. \A u \in Threads : at'[u] \in {"fence_write", "msi_to"} => unreported' = {}
  <2>1. ~late => lost = {}
    BY DEF Before
  <2>2. at'[t] \in {"fence_write", "msi_to"} => unreported' = {}
    BY <1>1, <2>1, FenceOutcome DEF FenceWaits, FenceWrites, FencePasses, FenceStops, Goto
  <2> QED BY <1>4, <2>2 DEF Ending
<1>8. at'["sw"] # "pipeline"
  <2>1. at'[t] # "pipeline"
    BY <1>1, FenceOutcome DEF FenceWaits, FenceWrites, FencePasses, FenceStops, Goto, Places
  <2> QED BY <1>4, <2>1 DEF Handling, Threads
<1>9. Tracks'
  BY <1>2, <1>5, <1>6, <1>7, <1>8 DEF Tracks, Ending, Handling, AnyBusy
<1>10. Fences'
  <2>1. CASE UNCHANGED executed
    BY <1>2, <1>5, <2>1 DEF Fences, Before, Clear, Done, Op, Kept
  <2>2. CASE executed' # executed
    <3>1. late = FALSE /\ ~AnyBusy(tags) /\ unreported' = lost /\ executed' = Append(executed, n)
      BY <2>2, FencePassed
    <3>2. Done' = Done \cup {n}
      BY <1>1, <3>1, RetireDone
    <3>3. Clear(n, itag', stalled', unreported')
      BY <1>2, <3>1 DEF Before, Clear, AnyBusy, Kept
    <3>4. \A m \in Done : Op(m) = "fence" => Clear(m, itag', stalled', unreported')
      BY <1>2, <3>1 DEF Before, Clear, Kept
    <3> QED BY <3>2, <3>3, <3>4 DEF Fences, Op
  <2> QED BY <2>1, <2>2
<1> QED BY <1>9, <1>10

\* The command at the head is later than everything executed.
LEMMA HeadIsLater ==
  ASSUME FenceInv, csr.cqon, cqh # cqt
  PROVE  \A n \in Done : n < ring[cqh]
<1>1. QueueTyped /\ InOrder /\ Settled
  BY DEF FenceInv, OrderInv, Order, Rings, Types
<1>2. /\ QUEUE_SIZE \in Nat \ {0, 1} /\ cqh \in Indices
      /\ Waiting \in Nat /\ Waiting # 0 /\ Len(posted) \in Nat
  BY <1>1, WaitingRange, QueueAssumption DEF QueueTyped
<1>3. Slot(0) = cqh /\ 0 \in 0 .. Waiting - 1
  BY <1>2 DEF Slot, Indices
<1>4. ring[cqh] = Len(posted) - Waiting + 1
  BY <1>1, <1>2, <1>3 DEF InOrder
<1>5. Done \subseteq 1 .. Len(posted) - Waiting
  BY <1>1 DEF Settled
<1> QED BY <1>2, <1>4, <1>5

LEMMA TracksKept ==
  ASSUME FenceInv, UNCHANGED <<itag, stalled, owes, unreported, executed, wait, timeout>>,
         \A n \in Done : Op(n)' = Op(n),
         \A t \in Threads : Handling(t)' => Handling(t) \/ stalled = 0,
         \A t \in Threads : Ending(t)' => at'[t] = at[t],
         at'["msg"] = at["msg"], at'["sw"] = "pipeline" => Op(run["sw"])' # "fence"
  PROVE  Tracks' /\ Fences'
<1>1. Done' = Done /\ Fences'
  BY DEF FenceInv, Fences, Clear, Done
<1>2. \A t \in Threads : at'[t] \in {"fence_write", "msi_to", "msi_mf"} => at'[t] = at[t]
  BY DEF Ending
<1> QED BY <1>1, <1>2 DEF FenceInv, Tracks, Tracked, Handling, Ending, AnyBusy

LEMMA TracksPost ==
  ASSUME FenceInv, NEW p \in Programs, Post(p)
  PROVE  Tracks' /\ Fences'
<1>1. /\ posted = SubSeq(p, 1, Len(posted)) /\ posted' = SubSeq(p, 1, Len(posted) + 1)
      /\ Len(posted) < Len(p)
      /\ UNCHANGED <<at, itag, stalled, owes, unreported, executed, wait, timeout>>
  BY DEF Post, tracker, pending, history
<1>2. p \in Seq(Command) /\ Len(posted) \in Nat /\ Done \subseteq 1 .. Len(posted)
  BY ProgramsAssumption DEF FenceInv, OrderInv, Order, History, Types, QueueTyped
<1>3. ASSUME NEW n \in Done PROVE posted'[n] = posted[n]
  <2>1. n \in 1 .. Len(posted) /\ n \in 1 .. Len(posted) + 1
    BY <1>2, <1>3
  <2>2. \A m \in Nat : m <= Len(p) => \A i \in 1 .. m : SubSeq(p, 1, m)[i] = p[i]
    BY <1>2
  <2>3. SubSeq(p, 1, Len(posted))[n] = p[n] /\ SubSeq(p, 1, Len(posted) + 1)[n] = p[n]
    BY <1>1, <1>2, <2>1, <2>2
  <2> QED BY <1>1, <2>3
<1>4. \A n \in Done : Op(n)' = Op(n)
  BY <1>3 DEF Op
<1>5. at["sw"] = "idle" /\ at' = at
  BY <1>1 DEF Post, SoftwareMay
<1> QED BY <1>1, <1>4, <1>5, TracksKept DEF Handling, Ending

LEMMA TracksFetch ==
  ASSUME FenceInv, Fetch
  PROVE  Tracks' /\ Fences'
<1>1. /\ at' = [at EXCEPT !["sw"] = "fetch"] /\ stalled = 0
      /\ UNCHANGED <<posted, itag, stalled, owes, unreported, executed, wait, timeout>>
  BY DEF Fetch, Goto, queue, tracker, pending, history
<1>2. at'["sw"] = "fetch" /\ at'["msg"] = at["msg"]
  BY <1>1 DEF FenceInv, OrderInv, Types, ThreadsTyped, Threads
<1> QED BY <1>1, <1>2, TracksKept DEF Handling, Ending, Threads, Op

\* A command other than a fence ends in "sw".
LEMMA TracksRetire ==
  ASSUME FenceInv, NEW n, executed' = Append(executed, n), Op(n) # "fence",
         Tracked(itag', owes'), stalled' # 0 => AnyBusy(itag'),
         \A m \in Done : Op(m) = "fence" => Clear(m, itag', stalled', unreported),
         Goto("sw", "idle"), ~wait, at["msg"] = "idle",
         UNCHANGED <<posted, wait, timeout, unreported>>
  PROVE  Tracks' /\ Fences'
<1>1. executed \in Seq(Ids) /\ at'["sw"] = "idle" /\ at'["msg"] = "idle"
  BY DEF FenceInv, OrderInv, Types, HistoryTyped, ThreadsTyped, Threads, Goto
<1>2. Done' = Done \cup {n}
  BY <1>1, RetireDone
<1>3. Fences'
  BY <1>2 DEF Fences, Op
<1>4. Tracks'
  BY <1>1 DEF FenceInv, Tracks, Handling, Ending, Threads, AnyBusy
<1> QED BY <1>3, <1>4

LEMMA TracksExecute ==
  ASSUME FenceInv, Execute
  PROVE  Tracks' /\ Fences'
<1> DEFINE n == run["sw"]
<1>1. /\ Types /\ Gates /\ Heads /\ itag \in TagTable /\ owes \in SUBSET Request
      /\ unreported \in SUBSET Ids /\ n \in Ids \cup {0} /\ timeout \in {TRUE, FALSE}
  BY DEF FenceInv, OrderInv, Order, Types, TagsTyped, HistoryTyped, ThreadsTyped, RegistersTyped,
         Threads
<1>2. at["sw"] = "fetch" /\ UNCHANGED <<posted, ring, cqt>> /\ "sw" \in Threads
  BY ExecuteCases DEF Threads
<1>3. /\ csr.cqon /\ ~wait /\ at["msg"] = "idle" /\ cqh # cqt /\ n = ring[cqh] /\ stalled = 0
  BY <1>1, <1>2 DEF Gates, Heads, Handling, Types, ThreadsTyped, Threads, FenceInv, Tracks
<1>4. CASE Fence("sw", n, itag, owes, timeout, unreported) /\ UNCHANGED dropped
  <2>1. InHand("sw", n)
    BY <1>2, <1>3 DEF InHand, Threads
  <2>2. Before(itag, owes, timeout, unreported)
    BY <1>1 DEF Before, FenceInv, Tracks, Fences
  <2> QED BY <1>1, <1>2, <1>3, <1>4, <2>1, <2>2, TracksFence
<1>5. CASE ExecuteInval(n)
  <2>1. n \in Ids /\ Op(n) # "fence" /\ executed' = Append(executed, n) /\ Goto("sw", "idle")
        /\ UNCHANGED <<wait, timeout, unreported>>
    BY <1>1, <1>5 DEF ExecuteInval, Retire
  <2>2. \A m \in Done : m < n
    BY <1>3, HeadIsLater
  <2>3. Tracked(itag, owes) /\ \A m \in Done : Op(m) = "fence" => Clear(m, itag, stalled, unreported)
    BY DEF FenceInv, Tracks, Fences
  <2>4. CASE FreeTag(itag) = {}
    <3>1. stalled' = n /\ itag' = itag /\ owes' = owes
      BY <1>5, <2>4 DEF ExecuteInval
    <3>2. AnyBusy(itag)
      BY <1>1, <2>4, FreeTagOne, TagsAssumed DEF AnyBusy
    <3>3. \A m \in Done : Op(m) = "fence" => Clear(m, itag', stalled', unreported)
      BY <2>2, <2>3, <3>1 DEF Clear
    <3> QED BY <1>2, <1>3, <2>1, <2>3, <3>1, <3>2, <3>3, TracksRetire
  <2>5. CASE FreeTag(itag) # {}
    <3>1. itag' = Allocated(itag, n) /\ owes' = owes \cup Sent(itag, n) /\ stalled' = 0
      BY <1>3, <1>5, <2>5 DEF ExecuteInval
    <3>2. /\ Tracked(Allocated(itag, n), owes \cup Sent(itag, n))
          /\ \A i \in Tags : Allocated(itag, n)[i].busy =>
               Allocated(itag, n)[i].cmd = n \/ (itag[i].busy /\ Allocated(itag, n)[i] = itag[i])
      BY <1>1, <2>1, <2>3, AllocatedTracked
    <3>3. \A m \in Done : Op(m) = "fence" => Clear(m, itag', stalled', unreported)
      BY <2>2, <2>3, <3>1, <3>2 DEF Clear
    <3> QED BY <1>2, <1>3, <2>1, <3>1, <3>2, <3>3, TracksRetire
  <2> QED BY <2>4, <2>5
<1>6. CASE ExecutePrgr(n)
  <2>1. /\ Op(n) # "fence" /\ executed' = Append(executed, n) /\ Goto("sw", "idle")
        /\ UNCHANGED <<wait, timeout, unreported, itag, owes, stalled>>
    BY <1>6 DEF ExecutePrgr, Retire
  <2> QED BY <1>2, <1>3, <2>1, TracksRetire DEF FenceInv, Tracks, Fences
<1>7. CASE ExecuteCache(n) \/ ExecuteIllegal(n)
  <2>1. /\ \E place \in {"pipeline", "msi", "idle"} : Goto("sw", place)
        /\ UNCHANGED <<itag, stalled, owes, unreported, executed, wait, timeout, run>>
    BY <1>7 DEF ExecuteCache, ExecuteIllegal
  <2>2. at'["sw"] \in {"pipeline", "msi", "idle"} /\ at'["msg"] = at["msg"]
    BY <1>1, <2>1 DEF Goto, Types, ThreadsTyped, Threads
  <2>3. at'["sw"] = "pipeline" => Op(n)' # "fence"
    <3>1. CASE ExecuteCache(n)
      BY <1>2, <2>1, <3>1 DEF ExecuteCache, Op
    <3>2. CASE ExecuteIllegal(n)
      BY <1>1, <1>2, <3>2 DEF ExecuteIllegal, Goto, Types, ThreadsTyped
    <3> QED BY <1>7, <3>1, <3>2
  <2> QED BY <1>2, <1>3, <2>1, <2>2, <2>3, TracksKept DEF Handling, Ending, Threads, Op
<1> QED BY <1>4, <1>5, <1>6, <1>7, ExecuteCases

LEMMA TracksPipelineDone ==
  ASSUME FenceInv, PipelineDone
  PROVE  Tracks' /\ Fences'
<1>1. /\ at["sw"] = "pipeline" /\ Goto("sw", "idle") /\ executed' = Append(executed, run["sw"])
      /\ UNCHANGED <<posted, itag, stalled, owes, unreported, wait, timeout>>
  BY DEF PipelineDone, Retire, queue, tracker, pending
<1>2. ~wait /\ at["msg"] = "idle" /\ stalled = 0 /\ Op(run["sw"]) # "fence"
  BY <1>1 DEF FenceInv, OrderInv, Order, Gates, Tracks, Handling, Types, ThreadsTyped, Threads
<1> QED BY <1>1, <1>2, TracksRetire DEF FenceInv, Tracks, Fences

LEMMA TracksWriteAnswered ==
  ASSUME FenceInv, NEW t \in Threads, WriteAnswered(t)
  PROVE  Tracks' /\ Fences'
<1>1. /\ Types /\ itag \in TagTable /\ owes \in SUBSET Request /\ executed \in Seq(Ids) /\ Gates
      /\ stalled \in Ids \cup {0}
  BY DEF FenceInv, OrderInv, Order, Types, TagsTyped, HistoryTyped
<1>2. UNCHANGED <<posted, wait, run, unreported>> /\ Goto(t, "idle")
  BY WriteAnsweredCases
<1>3. at'[t] = "idle" /\ \A u \in Threads : u # t => at'[u] = at[u]
  BY <1>1, <1>2, OthersStay
<1>4. CASE at[t] = "msi" /\ UNCHANGED <<executed, timeout>> /\ Kept(itag, owes)
  <2>1. t = "sw"
    BY <1>1, <1>4 DEF Types, ThreadsTyped, Threads
  <2> QED BY <1>2, <1>3, <1>4, <2>1, TracksKept
          DEF Kept, Handling, Ending, Threads, Op, FenceInv, Tracks
<1>5. CASE FenceWritten(t) \/ StopSignalled(t)
  <2>1. Handling(t) /\ ~wait /\ Ending(t) /\ stalled = 0 /\ ~AnyBusy(itag)
    BY <1>1, <1>5 DEF FenceWritten, StopSignalled, Gates, Handling, Ending, FenceInv, Tracks
  <2>2. \A u \in Threads : u # t => at[u] = "idle" \/ at[u] = "msi"
    BY <1>1, <2>1 DEF Gates, Handling, Types, ThreadsTyped, Threads
  <2>3. Kept(itag, owes)
    <3>1. Kept(itag, owes) \/ UnblockInval(itag, owes)
      BY WriteAnsweredCases
    <3> QED BY <2>1, <3>1 DEF UnblockInval, Kept
  <2>4. unreported' # {} => timeout'
    BY <1>2, <1>5 DEF FenceWritten, StopSignalled, FenceInv, Tracks
  <2>5. Tracks'
    BY <1>2, <1>3, <2>1, <2>2, <2>3, <2>4
       DEF Kept, FenceInv, Tracks, Handling, Ending, Threads
  <2>6. Fences'
    <3>1. CASE UNCHANGED executed
      BY <1>2, <2>3, <3>1 DEF FenceInv, Fences, Done, Op, Kept, Clear
    <3>2. CASE FenceWritten(t)
      <4>1. Done' = Done \cup {run[t]}
        BY <1>1, <3>2, RetireDone DEF FenceWritten, Retire
      <4>2. unreported' = {}
        BY <1>2, <3>2 DEF FenceWritten, FenceInv, Tracks
      <4>3. Clear(run[t], itag', stalled', unreported')
        BY <2>1, <2>3, <4>2 DEF Clear, AnyBusy, Kept
      <4>4. \A m \in Done : Op(m) = "fence" => Clear(m, itag', stalled', unreported')
        BY <1>2, <2>3 DEF FenceInv, Fences, Kept
      <4> QED BY <1>2, <4>1, <4>3, <4>4 DEF Fences, Op
    <3> QED BY <1>5, <3>1, <3>2 DEF StopSignalled
  <2> QED BY <2>5, <2>6
<1> QED BY <1>4, <1>5, WriteAnsweredCases

LEMMA TracksRegisters ==
  ASSUME FenceInv,
         WriteCqb \/ WriteIpsr \/ \E cqen, clear \in {TRUE, FALSE} : WriteCqcsr(cqen, clear)
  PROVE  Tracks' /\ Fences'
<1>1. /\ UNCHANGED <<posted, itag, stalled, owes, unreported, executed, wait, timeout, run>>
      /\ at' = at \/ Goto("sw", "msi")
  BY CqcsrCases DEF WriteCqb, WriteIpsr, queue, tracker, pending, history
<1>2. /\ at'["msg"] = at["msg"] /\ (at'["sw"] = at["sw"] \/ at'["sw"] = "msi")
  BY <1>1 DEF Goto, FenceInv, OrderInv, Types, ThreadsTyped, Threads
<1> QED BY <1>1, <1>2, TracksKept DEF Handling, Ending, Threads, Op, FenceInv, Tracks

\* do_pending_iofence_inval_reqs.
LEMMA TracksResume ==
  ASSUME FenceInv, NEW tags, NEW dev, NEW late \in {TRUE, FALSE}, NEW lost,
         Resume(tags, dev, late, lost), at["msg"] = "idle", UNCHANGED <<queue, dropped>>,
         Before(tags, dev, late, lost),
         \A t \in Threads : Ending(t) => ~AnyBusy(tags),
         \A t \in Threads : at[t] \in {"fence_write", "msi_to"} => lost = {}
  PROVE  Tracks' /\ Fences'
<1>1. Types /\ Gates /\ Heads /\ stalled \in Ids \cup {0}
  BY DEF FenceInv, OrderInv, Order, Types, TagsTyped
<1>2. CASE wait /\ Fence("msg", fence, tags, dev, late, lost)
  <2>1. InHand("msg", fence) /\ "msg" \in Threads /\ stalled = 0
    BY <1>1, <1>2 DEF InHand, Gates, Heads, Threads, FenceInv, Tracks
  <2> QED BY <1>2, <2>1, TracksFence DEF queue
<1>3. CASE ResumeRest(tags, dev, late, lost)
  <2>1. /\ Kept(tags, dev) \/ UnblockInval(tags, dev)
        /\ wait => AnyBusy(tags) /\ Kept(tags, dev)
        /\ ~wait => UnblockInval(tags, dev)
        /\ timeout' = late /\ unreported' = lost
        /\ UNCHANGED <<posted, at, run, wait, executed>>
    BY <1>3 DEF ResumeRest, queue
  <2>2. /\ Tracked(itag', owes')
        /\ \A n : Clear(n, tags, stalled, lost) => Clear(n, itag', stalled', lost)
        /\ stalled = 0 => Kept(tags, dev)
        /\ UnblockInval(tags, dev) /\ stalled' # 0 => AnyBusy(itag')
    BY <1>1, <2>1, UnblockTracked DEF Before
  <2>3. Fences'
    BY <2>1, <2>2 DEF Before, Fences, Done, Op
  <2>4. \A t \in Threads : Handling(t) \/ Ending(t) => stalled = 0
    BY DEF FenceInv, Tracks, Handling, Ending
  <2>5. wait => stalled' = 0
    BY <2>1 DEF Kept, FenceInv, Tracks
  <2>6. \A t \in Threads : Ending(t) => ~AnyBusy(itag')
    BY <2>1, <2>2, <2>4 DEF Kept
  <2>7. \A t \in Threads : Handling(t) => stalled' = 0
    BY <2>2, <2>4 DEF Kept
  <2> QED BY <2>1, <2>2, <2>3, <2>5, <2>6, <2>7
          DEF FenceInv, Tracks, Handling, Ending, Op, Before
<1> QED BY <1>2, <1>3, ResumeCases

\* A message that answers the requests S: each is counted under its tag.
LEMMA AnsweredTracked ==
  ASSUME Types, Tracked(itag, owes), NEW S \in SUBSET owes,
         \A s, r \in S : Rid(s.cmd) = Rid(r.cmd)
  PROVE  /\ Counted(S) = TagsOf(S) /\ Tracked(Answered(S), StillOwed(S))
         /\ \A i \in Tags : Answered(S)[i].busy =>
              itag[i].busy /\ Answered(S)[i].cmd = itag[i].cmd
<1>1. /\ owes \subseteq Request /\ itag \in [Tags -> Entry] /\ Tracked(itag, owes)
      /\ CC \in 1 .. 8
  BY QueueAssumption DEF Types, TagsTyped, TagTable
<1>2. ASSUME NEW s \in S PROVE ~Unexpected(S, s.tag)
  <2>1. (CHOOSE r \in S : TRUE) \in S
    OBVIOUS
  <2>2. Rid(s.cmd) = RidOf(S)
    BY <2>1 DEF RidOf
  <2>3. itag[s.tag].busy /\ itag[s.tag].cmd = s.cmd
    BY <1>1 DEF Tracked
  <2> QED BY <2>2, <2>3 DEF Unexpected
<1>3. Counted(S) = TagsOf(S)
  BY <1>2 DEF Counted, TagsOf
<1>4. \A i \in Tags : /\ i \notin TagsOf(S) => Answered(S)[i] = itag[i]
                      /\ i \in TagsOf(S) /\ Complete(itag[i].rcvd) => Answered(S)[i] = Free
                      /\ i \in TagsOf(S) /\ ~Complete(itag[i].rcvd)
                           => Answered(S)[i] = [itag[i] EXCEPT !.rcvd = (@ + 1) % 8]
  BY <1>3 DEF Answered
\* What is still owed of a request that was not answered: its tag is not named.
<1>5. ASSUME NEW o \in owes, o \notin S
      PROVE  o.tag \notin TagsOf(S)
  <2> SUFFICES ASSUME NEW s \in S, s.tag = o.tag PROVE FALSE
    BY DEF TagsOf
  <2>1. s \in Request /\ o \in Request
    BY <1>1
  <2>2. itag[o.tag].cmd = o.cmd /\ itag[o.tag].cmd = s.cmd
    BY <1>1 DEF Tracked
  <2>3. o.left + itag[o.tag].rcvd = CC /\ s.left + itag[o.tag].rcvd = CC
    BY <1>1 DEF Tracked
  <2>4. o.left = s.left
    BY <1>1, <2>1, <2>3 DEF Request, Entry
  <2>5. o = s
    <3>1. \A r \in Request : r = [cmd |-> r.cmd, tag |-> r.tag, left |-> r.left]
      BY DEF Request
    <3>2. o = [cmd |-> o.cmd, tag |-> o.tag, left |-> o.left]
      BY <2>1, <3>1
    <3>3. s = [cmd |-> s.cmd, tag |-> s.tag, left |-> s.left]
      BY <2>1, <3>1
    <3> QED BY <2>2, <2>4, <3>2, <3>3
  <2> QED BY <1>5, <2>5
<1>6. ASSUME NEW s \in S, s.left > 1, NEW o, o = [s EXCEPT !.left = @ - 1]
      PROVE  /\ Answered(S)[o.tag].busy /\ Answered(S)[o.tag].cmd = o.cmd
             /\ o.left + Answered(S)[o.tag].rcvd = CC
  <2>1. /\ s \in Request /\ s.tag \in TagsOf(S) /\ s.tag \in Tags
        /\ o.tag = s.tag /\ o.cmd = s.cmd /\ o.left = s.left - 1
    BY <1>1, <1>6 DEF Request, TagsOf
  <2> DEFINE e == itag[s.tag]
  <2>2. e \in Entry /\ e.busy /\ e.cmd = s.cmd /\ s.left + e.rcvd = CC /\ s.left \in 2 .. 8
    BY <1>1, <1>6, <2>1 DEF Tracked, Request
  <2>3. e.rcvd \in 0 .. 6 /\ e.rcvd + 1 < CC
    BY <1>1, <2>2 DEF Entry
  <2>4. (e.rcvd + 1) % 8 = e.rcvd + 1
    BY <2>3
  <2>5. CC % 8 = CC \/ CC % 8 = 0
    BY <1>1
  <2>6. ~Complete(e.rcvd)
    BY <1>1, <2>3, <2>4, <2>5 DEF Complete
  <2>7. Answered(S)[s.tag] = [e EXCEPT !.rcvd = e.rcvd + 1]
    BY <1>4, <2>1, <2>4, <2>6
  <2>8. /\ Answered(S)[s.tag].busy = e.busy /\ Answered(S)[s.tag].cmd = e.cmd
        /\ Answered(S)[s.tag].rcvd = e.rcvd + 1
    BY <2>2, <2>7 DEF Entry
  <2> QED BY <1>1, <2>1, <2>2, <2>3, <2>8
<1>7. Tracked(Answered(S), StillOwed(S))
  <2>1. ASSUME NEW o \in owes, o \notin S
        PROVE  /\ Answered(S)[o.tag].busy /\ Answered(S)[o.tag].cmd = o.cmd
               /\ o.left + Answered(S)[o.tag].rcvd = CC
    BY <1>1, <1>4, <1>5, <2>1 DEF Tracked, Request
  <2> QED BY <1>6, <2>1 DEF Tracked, StillOwed
<1>8. ASSUME NEW i \in Tags, Answered(S)[i].busy
      PROVE  itag[i].busy /\ Answered(S)[i].cmd = itag[i].cmd
  <2>1. ~Free.busy /\ itag[i] \in Entry
    BY <1>1 DEF Free
  <2> QED BY <1>4, <1>8, <2>1 DEF Entry
<1> QED BY <1>3, <1>7, <1>8

LEMMA TracksCompletion ==
  ASSUME FenceInv, NEW S \in SUBSET owes, Completion(S)
  PROVE  Tracks' /\ Fences'
<1>1. /\ Types /\ timeout \in {TRUE, FALSE}
      /\ at["msg"] = "idle" /\ \A s, r \in S : Rid(s.cmd) = Rid(r.cmd)
      /\ UNCHANGED <<queue, dropped>>
  BY CompletionCases DEF FenceInv, OrderInv, Types, RegistersTyped
<1>2. /\ Counted(S) = TagsOf(S) /\ Tracked(Answered(S), StillOwed(S))
      /\ \A i \in Tags : Answered(S)[i].busy =>
           itag[i].busy /\ Answered(S)[i].cmd = itag[i].cmd
  BY <1>1, AnsweredTracked DEF FenceInv, Tracks
<1>3. Resume(Answered(S), StillOwed(S), timeout, unreported)
  BY <1>2, CompletionCases
<1>4. Before(Answered(S), StillOwed(S), timeout, unreported)
  <2>1. \A n \in Done : Op(n) = "fence" => Clear(n, Answered(S), stalled, unreported)
    BY <1>2 DEF FenceInv, Fences, Clear
  <2> QED BY <1>1, <1>2, <2>1, AnsweredTyped DEF Before, FenceInv, Tracks
<1>5. /\ \A t \in Threads : Ending(t) => ~AnyBusy(Answered(S))
      /\ \A t \in Threads : at[t] \in {"fence_write", "msi_to"} => unreported = {}
  BY <1>2 DEF FenceInv, Tracks, AnyBusy
<1> QED BY <1>1, <1>3, <1>4, <1>5, TracksResume

\* A request that timed out is not answered any more, so that its tag may be given up.
LEMMA ExpiredTracked ==
  ASSUME ~LateAnswers, Types, Tracked(itag, owes), NEW V \in SUBSET Tags
  PROVE  /\ Tracked(Expired(V), NotAnswered(V))
         /\ \A i \in Tags : Expired(V)[i].busy => i \notin V /\ Expired(V)[i] = itag[i]
<1>1. owes \subseteq Request
  BY DEF Types, TagsTyped
<1>2. /\ \A i \in V : Expired(V)[i] = Free /\ ~Expired(V)[i].busy
      /\ \A i \in Tags : i \notin V => Expired(V)[i] = itag[i]
  BY DEF Expired, Free
<1>3. ASSUME NEW o \in NotAnswered(V) PROVE o \in owes /\ o.tag \notin V /\ o.tag \in Tags
  <2>1. o \in owes /\ o.cmd \notin Gone(V)
    BY DEF NotAnswered
  <2>2. itag[o.tag].cmd = o.cmd
    BY <2>1 DEF Tracked
  <2> QED BY <1>1, <2>1, <2>2 DEF Gone, Request
<1> QED BY <1>2, <1>3 DEF Tracked

LEMMA TracksExpire ==
  ASSUME ~LateAnswers, FenceInv, Expire
  PROVE  Tracks' /\ Fences'
<1>1. PICK V \in SUBSET Tags :
           /\ V # {} /\ \A i \in V : itag[i].busy
           /\ at["msg"] = "idle" /\ UNCHANGED <<queue, dropped>>
           /\ Resume(Expired(V), NotAnswered(V), TRUE, unreported \cup Gone(V))
  BY ExpireCases
<1>2. Types /\ Tracked(itag, owes)
  BY DEF FenceInv, OrderInv, Tracks
<1>3. /\ Tracked(Expired(V), NotAnswered(V))
      /\ \A i \in Tags : Expired(V)[i].busy => i \notin V /\ Expired(V)[i] = itag[i]
  BY <1>2, ExpiredTracked
<1>5. \A n \in Done : Op(n) = "fence" => Clear(n, Expired(V), stalled, unreported \cup Gone(V))
  BY <1>1, <1>3 DEF FenceInv, Fences, Clear, Gone
<1>6. Before(Expired(V), NotAnswered(V), TRUE, unreported \cup Gone(V))
  BY <1>1, <1>2, <1>3, <1>5, ExpiredTyped DEF Before
<1>7. \A t \in Threads : ~Ending(t)
  BY <1>1 DEF FenceInv, Tracks, AnyBusy
<1> QED BY <1>1, <1>6, <1>7, TracksResume DEF Ending

LEMMA FenceStep ==
  ASSUME Patient, ~LateAnswers
  PROVE  FenceInv /\ [Next]_vars => FenceInv'
<1> SUFFICES ASSUME FenceInv, [Next]_vars PROVE Tracks' /\ Fences'
  BY OrderStep DEF FenceInv
<1>1. CASE Software
  BY <1>1, TracksPost, TracksFetch, TracksRegisters DEF Software
<1>2. CASE Continue
  BY <1>2, TracksExecute, TracksPipelineDone, TracksWriteAnswered DEF Continue
<1>3. CASE Answer
  BY <1>3, TracksCompletion DEF Answer
<1>4. CASE Expire
  BY <1>4, TracksExpire
<1>5. CASE UNCHANGED vars
  BY <1>5, TracksKept DEF vars, Handling, Ending, Op, FenceInv, Tracks
<1> QED BY <1>1, <1>2, <1>3, <1>4, <1>5 DEF Next

LEMMA InitFence == Init => FenceInv
<1> SUFFICES ASSUME Init PROVE Tracks /\ Fences
  BY InitOrder DEF FenceInv
<1> QED BY DEF Init, Tracks, Tracked, Handling, Ending, Threads, Fences, Done

LEMMA FenceAlways ==
  ASSUME Patient, ~LateAnswers
  PROVE  Spec => []FenceInv
  BY InitFence, FenceStep, PTL DEF Spec

\* Once a fence has been executed no device still owes an answer to an earlier
\* ATS.INVAL, none waits for an ITAG, and none timed out without the driver having been
\* told by cmd_to (iommu_command_queue.cc:595).
THEOREM FenceWaitsForAll ==
  ASSUME Patient, ~LateAnswers
  PROVE  Spec => []FenceMeansDone
<1>1. FenceInv => FenceMeansDone
  <2> SUFFICES ASSUME FenceInv, NEW i \in DOMAIN executed, Op(executed[i]) = "fence"
               PROVE  /\ \A o \in owes : o.cmd > executed[i]
                      /\ stalled # 0 => stalled > executed[i]
                      /\ \A n \in unreported : n > executed[i]
    BY DEF FenceMeansDone
  <2>1. Clear(executed[i], itag, stalled, unreported)
    BY DEF FenceInv, Fences, Done
  <2>2. Tracked(itag, owes) /\ owes \subseteq Request
    BY DEF FenceInv, Tracks, OrderInv, Types, TagsTyped
  <2> QED BY <2>1, <2>2 DEF Clear, Tracked, Request
<1> QED BY <1>1, FenceAlways, PTL

-----------------------------------------------------------------------------
(* Nothing waits without a reason, whatever the driver does meanwhile.      *)

\* A fence and a request for a tag never wait together, one that waits finds a busy
\* tag, and the driver's thread fetches a command only when neither waits.
Reasons ==
  /\ Tracked(itag, owes)
  /\ wait \/ stalled # 0 => AnyBusy(itag)
  /\ wait => stalled = 0
  /\ at["sw"] = "fetch" => ~wait /\ stalled = 0
ReasonInv == Types /\ Reasons

\* The tracker and the devices move on to tags and dev, and a request may get its tag.
LEMMA ReasonsUnblock ==
  ASSUME Types, NEW tags \in TagTable, NEW dev \in SUBSET Request, Tracked(tags, dev),
         Kept(tags, dev) \/ UnblockInval(tags, dev),
         Kept(tags, dev) => (stalled # 0 => AnyBusy(tags)),
         wait' => Kept(tags, dev) /\ AnyBusy(tags) /\ stalled = 0,
         at'["sw"] = "fetch" => ~wait' /\ stalled = 0
  PROVE  Reasons'
<1>1. stalled \in Ids \cup {0}
  BY DEF Types, TagsTyped
<1>2. /\ Tracked(itag', owes') /\ (stalled = 0 => Kept(tags, dev))
      /\ UnblockInval(tags, dev) /\ stalled' # 0 => AnyBusy(itag')
  BY <1>1, UnblockTracked
<1>3. stalled' # 0 => AnyBusy(itag')
  BY <1>2 DEF Kept
<1> QED BY <1>2, <1>3 DEF Reasons, Kept, Tracked, AnyBusy

LEMMA ReasonsFence ==
  ASSUME ReasonInv, NEW t \in Threads, NEW n, NEW tags \in TagTable, NEW dev \in SUBSET Request,
         NEW late \in {TRUE, FALSE}, NEW lost, Fence(t, n, tags, dev, late, lost),
         Tracked(tags, dev), stalled = 0, t = "msg" => ~AnyBusy(tags)
  PROVE  Reasons'
<1>1. Types /\ stalled \in Ids \cup {0} /\ at \in [Threads -> Places]
  BY DEF ReasonInv, Types, TagsTyped, ThreadsTyped
<1>2. /\ Kept(tags, dev) \/ UnblockInval(tags, dev)
      /\ (wait' = FALSE \/ FenceWaits(t, n, tags, dev))
      /\ \E place \in {"idle", "fence_write", "msi_to", "msi_mf"} : Goto(t, place)
  BY FenceOutcome DEF FenceWaits, FenceWrites, FencePasses, FenceStops
<1>3. wait' => Kept(tags, dev) /\ AnyBusy(tags) /\ t = "sw"
  BY <1>2 DEF FenceWaits, Threads
<1>4. at'["sw"] = "fetch" => t = "msg"
  BY <1>1, <1>2 DEF Goto, Threads
<1> QED BY <1>1, <1>2, <1>3, <1>4, ReasonsUnblock

LEMMA ReasonsExecute ==
  ASSUME ReasonInv, Execute
  PROVE  Reasons'
<1> DEFINE n == run["sw"]
<1>1. /\ Types /\ Reasons /\ itag \in TagTable /\ owes \in SUBSET Request
      /\ n \in Ids \cup {0} /\ timeout \in {TRUE, FALSE} /\ at \in [Threads -> Places]
  BY DEF ReasonInv, Types, TagsTyped, ThreadsTyped, RegistersTyped, Threads
<1>2. at["sw"] = "fetch" /\ ~wait /\ stalled = 0 /\ Tracked(itag, owes) /\ "sw" \in Threads
  BY <1>1, ExecuteCases DEF Reasons, Threads
<1>3. CASE Fence("sw", n, itag, owes, timeout, unreported)
  BY <1>1, <1>2, <1>3, ReasonsFence
<1>4. CASE ExecuteInval(n)
  <2>1. n \in Ids /\ UNCHANGED wait /\ at'["sw"] = "idle"
    BY <1>1, <1>2, <1>4 DEF ExecuteInval, Goto
  <2>2. CASE FreeTag(itag) = {}
    <3>1. AnyBusy(itag) /\ UNCHANGED <<itag, owes>>
      BY <1>1, <1>4, <2>2, FreeTagOne, TagsAssumed DEF ExecuteInval, AnyBusy
    <3> QED BY <1>2, <2>1, <3>1 DEF Reasons, Tracked, AnyBusy
  <2>3. CASE FreeTag(itag) # {}
    <3>1. itag' = Allocated(itag, n) /\ owes' = owes \cup Sent(itag, n) /\ stalled' = 0
      BY <1>2, <1>4, <2>3 DEF ExecuteInval
    <3>2. Tracked(itag', owes')
      BY <1>1, <1>2, <2>1, <3>1, AllocatedTracked
    <3> QED BY <1>2, <2>1, <3>1, <3>2 DEF Reasons, Tracked, AnyBusy
  <2> QED BY <2>2, <2>3
<1>5. CASE ExecutePrgr(n) \/ ExecuteCache(n) \/ ExecuteIllegal(n)
  <2>1. UNCHANGED <<itag, owes, stalled, wait>>
    BY <1>5 DEF ExecutePrgr, ExecuteCache, ExecuteIllegal
  <2> QED BY <1>2, <2>1 DEF Reasons, Tracked, AnyBusy
<1> QED BY <1>3, <1>4, <1>5, ExecuteCases

\* A thread goes on after its write to memory; "msg" then gives a free tag to the
\* request that waits for one.
LEMMA ReasonsWriteAnswered ==
  ASSUME ReasonInv, NEW t \in Threads, WriteAnswered(t)
  PROVE  Reasons'
<1>1. /\ Types /\ Reasons /\ itag \in TagTable /\ owes \in SUBSET Request
      /\ at \in [Threads -> Places]
  BY DEF ReasonInv, Types, TagsTyped, ThreadsTyped
<1>2. UNCHANGED wait /\ Goto(t, "idle")
  BY WriteAnsweredCases
<1>3. Kept(itag, owes) \/ (~wait' /\ UnblockInval(itag, owes))
  BY WriteAnsweredCases
<1>4. at'["sw"] = "fetch" => at["sw"] = "fetch"
  BY <1>1, <1>2 DEF Goto, Threads
<1> QED BY <1>1, <1>2, <1>3, <1>4, ReasonsUnblock DEF Reasons, Kept

LEMMA ReasonsResume ==
  ASSUME ReasonInv, NEW tags \in TagTable, NEW dev \in SUBSET Request,
         NEW late \in {TRUE, FALSE}, NEW lost, Resume(tags, dev, late, lost), Tracked(tags, dev)
  PROVE  Reasons'
<1>1. Types /\ Reasons
  BY DEF ReasonInv
<1>2. CASE wait /\ ~AnyBusy(tags) /\ Fence("msg", fence, tags, dev, late, lost)
  BY <1>1, <1>2, ReasonsFence DEF Reasons, Threads
<1>3. CASE ResumeRest(tags, dev, late, lost)
  <2>1. /\ Kept(tags, dev) \/ UnblockInval(tags, dev)
        /\ wait => AnyBusy(tags) /\ Kept(tags, dev)
        /\ UNCHANGED <<wait, at>>
    BY <1>3 DEF ResumeRest
  <2>2. CASE wait
    BY <1>1, <2>1, <2>2, ReasonsUnblock DEF Reasons
  <2>3. CASE ~wait
    <3>1. UnblockInval(tags, dev) /\ stalled \in Ids \cup {0}
      BY <1>1, <1>3, <2>3 DEF ResumeRest, Types, TagsTyped
    <3>2. Tracked(itag', owes') /\ (stalled' # 0 => AnyBusy(itag'))
      BY <3>1, UnblockTracked
    <3>3. stalled = 0 => stalled' = 0
      BY <3>1, UnblockTracked DEF Kept
    <3> QED BY <1>1, <2>1, <2>3, <3>2, <3>3 DEF Reasons, Tracked, AnyBusy
  <2> QED BY <2>2, <2>3
<1> QED BY <1>2, <1>3, ResumeCases

LEMMA ReasonsStep ==
  ASSUME ~LateAnswers
  PROVE  ReasonInv /\ [Next]_vars => ReasonInv'
<1> SUFFICES ASSUME ReasonInv, [Next]_vars PROVE Reasons'
  BY TypesStep DEF ReasonInv
<1>1. /\ Types /\ Reasons /\ Tracked(itag, owes) /\ timeout \in {TRUE, FALSE}
      /\ at \in [Threads -> Places] /\ owes \subseteq Request
  BY DEF ReasonInv, Reasons, Types, TagsTyped, ThreadsTyped, RegistersTyped
<1>2. CASE Software
  <2>1. UNCHANGED <<itag, owes, stalled, wait>>
    BY <1>2 DEF Software, Post, Fetch, WriteCqcsr, WriteCqb, WriteIpsr, tracker, pending
  <2>2. at'["sw"] = "fetch" => ~wait /\ stalled = 0
    <3>1. CASE Fetch
      BY <3>1 DEF Fetch
    <3>2. CASE WriteIpsr
      BY <1>1, <3>2 DEF WriteIpsr, SoftwareMay, Goto, Threads
    <3>3. CASE ~Fetch /\ ~WriteIpsr
      BY <1>1, <1>2, <3>3 DEF Software, Post, WriteCqcsr, WriteCqb, Reasons
    <3> QED BY <3>1, <3>2, <3>3
  <2> QED BY <1>1, <2>1, <2>2 DEF Reasons, Tracked, AnyBusy
<1>3. CASE Execute
  BY <1>3, ReasonsExecute
<1>4. CASE PipelineDone
  <2>1. UNCHANGED <<itag, owes, stalled, wait>> /\ at'["sw"] = "idle"
    BY <1>1, <1>4 DEF PipelineDone, Goto, tracker, pending, Threads
  <2> QED BY <1>1, <2>1 DEF Reasons, Tracked, AnyBusy
<1>5. CASE \E t \in Threads : WriteAnswered(t)
  BY <1>5, ReasonsWriteAnswered
<1>6. CASE Answer
  <2>1. PICK S \in SUBSET owes : Completion(S)
    BY <1>6 DEF Answer
  <2>2. Tracked(Answered(S), StillOwed(S)) /\ Counted(S) = TagsOf(S)
    BY <1>1, <2>1, CompletionCases, AnsweredTracked
  <2>3. Resume(Answered(S), StillOwed(S), timeout, unreported)
    BY <2>1, <2>2, CompletionCases
  <2>4. Answered(S) \in TagTable /\ StillOwed(S) \in SUBSET Request
    BY <1>1, AnsweredTyped
  <2> QED BY <1>1, <2>2, <2>3, <2>4, ReasonsResume
<1>7. CASE Expire
  <2>1. PICK V \in SUBSET Tags :
             /\ \A i \in V : itag[i].busy
             /\ Resume(Expired(V), NotAnswered(V), TRUE, unreported \cup Gone(V))
    BY <1>7, ExpireCases
  <2>2. /\ Expired(V) \in TagTable /\ NotAnswered(V) \in SUBSET Request
        /\ Tracked(Expired(V), NotAnswered(V))
    BY <1>1, <2>1, ExpiredTracked, ExpiredTyped
  <2> QED BY <2>1, <2>2, ReasonsResume
<1>8. CASE UNCHANGED vars
  BY <1>1, <1>8 DEF vars, tracker, pending, Reasons, Tracked, AnyBusy
<1> QED BY <1>2, <1>3, <1>4, <1>5, <1>6, <1>7, <1>8 DEF Next, Continue

\* The queue stands still only while an invalidation is under way that will let it go
\* on: a waiting fence, or a request that waits for an ITAG, implies a busy ITAG
\* (iommu_ats.cc:66: a completion that is partly unexpected resumes nothing).  The
\* driver may act at any moment, also where it makes a command run twice.
THEOREM NoWaitForNothing ==
  ASSUME ~LateAnswers
  PROVE  Spec => []WaitHasReason
<1>1. Init => ReasonInv
  BY InitTypes DEF Init, ReasonInv, Reasons, Tracked, Threads
<1>2. ReasonInv => WaitHasReason
  BY DEF ReasonInv, Reasons, AnyBusy, WaitHasReason
<1> QED BY <1>1, <1>2, ReasonsStep, PTL DEF Spec
=============================================================================
