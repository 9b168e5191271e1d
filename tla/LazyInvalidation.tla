------------------------- MODULE LazyInvalidation -------------------------
(***************************************************************************)
(* Invalidation of the PT cache and the walker caches.  A command that     *)
(* would scan a whole cache is not executed: it is recorded in the lazy    *)
(* invalidation buffer (LIB) with a version number, and a line whose       *)
(* version is older is dropped when a lookup hits it.  When the version    *)
(* counter wraps every line is swept.  Commands that need no scan, and     *)
(* commands that find the LIB full, invalidate the lines themselves, RAM   *)
(* by RAM.                                                                 *)
(*                                                                         *)
(* A line is named by its tag, the array and the RAM it lives in; its data *)
(* is abstracted to how old it is: read by a walk since the last command   *)
(* ("new"), before it but not covered by any command ("kept"), covered by  *)
(* the command in progress ("old") or by one that has completed ("dead").  *)
(***************************************************************************)
EXTENDS Integers, FiniteSets

CONSTANTS Keys,          \* tags: [array, ram, gscid, pscid, page, gpa, stage, global]
          Commands,      \* [op, gscid, pscid, page, nl]
          LIB_SIZE, VN_MAX,
          PT_RAMS, WALKER_RAMS,
          LazyEnabled,   \* lazy_enable
          MaxWalks,      \* bound: walks in progress at a time
          LastVn,        \* bound: no command is issued at a version above it
          Drained        \* TRUE: no covered walk is in progress at a command

None == -1
NoCommand == [op |-> "none", gscid |-> None, pscid |-> None, page |-> None, nl |-> FALSE]
Versions == 0 .. VN_MAX
Marks == {"new", "kept", "old", "dead"}
Classes == {"GSCID_ONLY", "PSCID_ONLY", "GSCID_PSCID"}

ASSUME KeysAssumption ==
  \A k \in Keys : /\ k.array \in {"pt", "vs", "s2"}
                  /\ k.stage \in {"STAGE1_ONLY", "STAGE2_ONLY", "STAGE1_AND_2"}
                  /\ k.ram \in 0 .. (IF k.array = "pt" THEN PT_RAMS ELSE WALKER_RAMS) - 1
                  /\ k.gscid \in Nat /\ k.pscid \in Nat /\ k.global \in BOOLEAN
ASSUME CommandsAssumption ==
  \A c \in Commands : /\ c.op \in {"GLOBAL_INVAL", "VMA", "GVMA"} /\ c.nl \in BOOLEAN
                      /\ c.gscid \in Nat \cup {None} /\ c.pscid \in Nat \cup {None}
ASSUME SizesAssumption ==
  /\ LIB_SIZE \in Nat \ {0} /\ VN_MAX \in Nat \ {0} /\ LastVn \in Versions
  /\ PT_RAMS \in Nat \ {0} /\ WALKER_RAMS \in Nat \ {0} /\ MaxWalks \in Nat
  /\ LazyEnabled \in BOOLEAN /\ Drained \in BOOLEAN

VARIABLES
  vn, age,       \* of each line; age "none": not valid
  walk,          \* age of the page table data a walk in progress has read
  lib,           \* version of each recorded tag
  global_vn,
  cmd,           \* the command in the pipeline, or NoCommand
  at, mode,      \* the cache it is at and how it goes over the lines
  pending        \* RAMs whose sub-invalidation is not done

cacheVars == <<vn, age>>
libVars == <<lib, global_vn>>
pipeVars == <<cmd, at, mode, pending>>
vars == <<cacheVars, walk, libVars, pipeVars>>

Valid(k) == age[k] # "none"
Rams(c) == IF c = "pt" THEN 0 .. PT_RAMS - 1 ELSE 0 .. WALKER_RAMS - 1
CacheOf(k) == IF k.array = "pt" THEN "pt" ELSE "walker"

-----------------------------------------------------------------------------
\* The LIB.  A tag leaves out what its class does not compare.
LibTag(c) ==
  CASE c.op = "VMA" /\ c.gscid # None /\ c.pscid # None ->
         [cls |-> "GSCID_PSCID", tag2 |-> c.gscid, tag1 |-> c.pscid]
    [] c.op = "VMA" /\ c.gscid = None /\ c.pscid # None ->
         [cls |-> "PSCID_ONLY", tag2 |-> 0, tag1 |-> c.pscid]
    [] OTHER -> [cls |-> "GSCID_ONLY", tag2 |-> c.gscid, tag1 |-> 0]

LibMatches(t, k) == /\ t.cls # "PSCID_ONLY" => t.tag2 = k.gscid
                    /\ t.cls # "GSCID_ONLY" => t.tag1 = k.pscid
Matches(k) == {t \in DOMAIN lib : LibMatches(t, k)}

\* CL.VN < LIB.VN for the greatest version that matches.
\* Variant: the comparison is not strict.
Masked_NotStrict(k) == \E t \in Matches(k) : vn[k] <= lib[t]
Masked(k) == \E t \in Matches(k) : vn[k] < lib[t]

\* Variant: the version of a known tag is left as it was.
Recorded_KeepsVersion(t, v) ==
  [u \in DOMAIN lib \cup {t} |-> IF u = t /\ t \notin DOMAIN lib THEN v ELSE lib[u]]
Recorded(t, v) == [u \in DOMAIN lib \cup {t} |-> IF u = t THEN v ELSE lib[u]]
LibFull(t) == t \notin DOMAIN lib /\ Cardinality(DOMAIN lib) = LIB_SIZE

-----------------------------------------------------------------------------
\* What the scans invalidate: line_matches_inval of the PT cache and of the
\* walker caches, where S2 lines go by GSCID alone.
SameIds(c, k) == /\ c.gscid # None => k.gscid = c.gscid
                 /\ c.pscid # None => k.pscid = c.pscid
SamePage(c, k) == c.page # None => k.page = c.page
ScanHits(c, k) ==
  CASE c.op = "GLOBAL_INVAL" -> TRUE
    [] k.array = "pt" /\ c.op = "GVMA" ->
         k.stage # "STAGE1_ONLY" /\ SameIds(c, k) /\ SamePage(c, k)
    [] k.array = "pt" /\ c.op = "VMA" ->
         /\ k.stage # "STAGE2_ONLY" /\ SameIds(c, k) /\ SamePage(c, k)
         /\ c.pscid # None => ~k.global
    [] k.array = "vs" /\ c.op = "GVMA" -> SameIds(c, k)
    [] k.array = "vs" /\ c.op = "VMA" -> SameIds(c, k) /\ SamePage(c, k)
    [] OTHER -> c.gscid # None => k.gscid = c.gscid

\* What a command is for.  IOTINVAL.VMA is about the first stage, so not about
\* S2 lines; with an address it leaves the walker caches alone unless NL = 1.
\* IOTINVAL.GVMA is about what was translated by the second stage, and its
\* address is a GPA.
Covers(c, k) ==
  CASE c.op = "GLOBAL_INVAL" -> TRUE
    [] c.op = "VMA" ->
         /\ k.stage # "STAGE2_ONLY" /\ SameIds(c, k) /\ SamePage(c, k)
         /\ c.pscid # None => ~k.global
         /\ c.page # None /\ k.array # "pt" => c.nl
    [] c.op = "GVMA" ->
         k.stage # "STAGE1_ONLY" /\ SameIds(c, k) /\ (c.page # None => k.gpa = c.page)

-----------------------------------------------------------------------------
\* RAMs do their work in order.  While a command is at a cache its hash thread
\* serves nothing else, so a RAM is reached only by what was queued before the
\* sub-invalidation; S2 lines are served by the hash thread itself.
Untouched(k) == at = CacheOf(k) => k.ram \in pending
Reachable(k) == /\ Untouched(k)
                /\ k.array = "s2" /\ at = "walker" => pending = Rams("walker")

\* A walk reads the page table; its result is written some time later.
WalkReads(k) ==
  /\ walk[k] = "none" /\ Cardinality({j \in Keys : walk[j] # "none"}) < MaxWalks
  /\ walk' = [walk EXCEPT ![k] = "new"]
  /\ UNCHANGED <<cacheVars, libVars, pipeVars>>

\* fill_pt_ram, update_entry_ram, update_entry_s2: the line is stamped with the
\* global version; if the set is full another line v of the RAM goes.
Fill(k, v) ==
  /\ walk[k] # "none" /\ Reachable(k)
  /\ v = k \/ (v.array = k.array /\ v.ram = k.ram /\ Valid(v) /\ ~Valid(k))
  /\ age' = [age EXCEPT ![v] = "none", ![k] = walk[k]]
  /\ vn' = [vn EXCEPT ![v] = 0, ![k] = global_vn]
  /\ walk' = [walk EXCEPT ![k] = "none"]
  /\ UNCHANGED <<libVars, pipeVars>>

\* lookup_pt_ram, lookup_ram: a hit on a masked line drops it.  Other lookups
\* change nothing the properties see, and lookup_s2 does not consult the LIB.
LookupDrops(k) ==
  /\ k.array # "s2" /\ Valid(k) /\ Masked(k)
  /\ k.array = "pt" => Reachable(k)
  /\ age' = [age EXCEPT ![k] = "none"]
  /\ vn' = [vn EXCEPT ![k] = 0]
  /\ UNCHANGED <<walk, libVars, pipeVars>>

-----------------------------------------------------------------------------
\* execute_invalidation_pipeline.
ClearsAll(c) == \/ c.op = "GLOBAL_INVAL"
                \/ c.op = "VMA" /\ c.gscid = None /\ c.pscid = None /\ c.page = None
                \/ c.op = "GVMA" /\ c.gscid = None
Ranged(c) == c.op = "VMA" /\ c.page # None
Lazy(c) == ~ClearsAll(c) /\ ~Ranged(c)

Aged(c, k, a) == CASE a = "none" -> "none"
                   [] a = "dead" -> "dead"
                   [] OTHER -> IF Covers(c, k) THEN "old" ELSE "kept"
Issued(c) ==
  /\ age' = [k \in Keys |-> Aged(c, k, age[k])]
  /\ walk' = [k \in Keys |-> Aged(c, k, walk[k])]
  /\ cmd' = c
  /\ UNCHANGED vn

GoOver(m) == at' = "pt" /\ mode' = m /\ pending' = Rams("pt")

\* The candidate sets of a page are found by hashing it under all GSCIDs and
\* PSCIDs; other RAMs get no sub-invalidation.
GoOverPage(c) ==
  /\ at' = "pt" /\ mode' = "SCAN"
  /\ pending' = {k.ram : k \in {j \in Keys : j.array = "pt" /\ j.page = c.page}}

Idle == cmd = NoCommand

IssueRange(c) == Ranged(c) /\ GoOverPage(c) /\ UNCHANGED libVars

IssueClear(c) ==
  /\ ClearsAll(c) /\ GoOver("GLOBAL")
  /\ lib' = << >> /\ global_vn' = 0

IssueScan(c) ==
  /\ Lazy(c) /\ (LazyEnabled => LibFull(LibTag(c)))
  /\ GoOver("SCAN") /\ UNCHANGED libVars

IssueRecord(c) ==
  /\ Lazy(c) /\ LazyEnabled /\ ~LibFull(LibTag(c))
  /\ lib' = Recorded(LibTag(c), global_vn + 1)
  /\ \/ /\ global_vn + 1 < VN_MAX /\ global_vn' = global_vn + 1
        /\ at' = "done" /\ mode' = "none" /\ pending' = {}
     \/ /\ global_vn + 1 >= VN_MAX /\ global_vn' = 0
        /\ GoOver("SWEEP")

Issue(c) ==
  /\ Idle /\ global_vn <= LastVn
  /\ Drained => \A k \in Keys : Covers(c, k) => walk[k] = "none"
  /\ Issued(c)
  /\ IssueRange(c) \/ IssueClear(c) \/ IssueScan(c) \/ IssueRecord(c)

\* One sub-invalidation: a RAM worker goes over its lines.
InRam(r, k) == CacheOf(k) = at /\ k.ram = r
Dropped(r, k) == /\ InRam(r, k) /\ Valid(k)
                 /\ CASE mode = "GLOBAL" -> TRUE
                      [] mode = "SCAN" -> ScanHits(cmd, k)
                      [] OTHER -> Masked(k)
\* Variant: survivors of a sweep keep their version.
NewVn_Kept(r, k) == IF Dropped(r, k) THEN 0 ELSE vn[k]
NewVn(r, k) ==
  CASE Dropped(r, k) -> 0
    [] InRam(r, k) /\ Valid(k) /\ mode = "SWEEP" -> global_vn
    [] OTHER -> vn[k]

SubInvalidate(r) ==
  /\ r \in pending
  /\ age' = [k \in Keys |-> IF Dropped(r, k) THEN "none" ELSE age[k]]
  /\ vn' = [k \in Keys |-> NewVn(r, k)]
  /\ pending' = pending \ {r}
  /\ UNCHANGED <<walk, libVars, cmd, at, mode>>

\* The PT cache has answered; the walker caches are next.
WalkerToo == Ranged(cmd) => cmd.nl
ToWalker ==
  /\ at = "pt" /\ pending = {} /\ WalkerToo
  /\ at' = "walker" /\ pending' = Rams("walker")
  /\ UNCHANGED <<cacheVars, walk, libVars, cmd, mode>>

\* The response leaves; perf_enqueue_cache_invalidation returns.
Expired(a) == IF a = "old" THEN "dead" ELSE a
Complete ==
  /\ at = "done" \/ (at = "walker" /\ pending = {}) \/ (at = "pt" /\ pending = {} /\ ~WalkerToo)
  /\ age' = [k \in Keys |-> Expired(age[k])]
  /\ walk' = [k \in Keys |-> Expired(walk[k])]
  /\ cmd' = NoCommand /\ at' = "idle" /\ mode' = "none"
  /\ UNCHANGED <<vn, libVars, pending>>

Init ==
  /\ vn = [k \in Keys |-> 0] /\ age = [k \in Keys |-> "none"]
  /\ walk = [k \in Keys |-> "none"]
  /\ lib = << >> /\ global_vn = 0
  /\ cmd = NoCommand /\ at = "idle" /\ mode = "none" /\ pending = {}

Next ==
  \/ \E k \in Keys : WalkReads(k) \/ LookupDrops(k)
  \/ \E k, v \in Keys : Fill(k, v)
  \/ \E c \in Commands : Issue(c)
  \/ \E r \in 0 .. PT_RAMS + WALKER_RAMS : SubInvalidate(r)
  \/ ToWalker \/ Complete

Spec == Init /\ [][Next]_vars

-----------------------------------------------------------------------------
\* A lookup of k would be answered from the cache.
WouldHit(k) == Valid(k) /\ (k.array # "s2" => ~Masked(k))

\* Type invariant.
TypeOK ==
  /\ vn \in [Keys -> Versions]
  /\ age \in [Keys -> Marks \cup {"none"}] /\ walk \in [Keys -> Marks \cup {"none"}]
  /\ DOMAIN lib \subseteq [cls : Classes, tag1 : Nat, tag2 : Nat]
  /\ \A t \in DOMAIN lib : lib[t] \in Versions \ {0}
  /\ Cardinality(DOMAIN lib) <= LIB_SIZE
  /\ global_vn \in 0 .. VN_MAX - 1
  /\ cmd \in Commands \cup {NoCommand}
  /\ at \in {"idle", "done", "pt", "walker"} /\ mode \in {"none", "GLOBAL", "SCAN", "SWEEP"}
  /\ pending \subseteq 0 .. PT_RAMS + WALKER_RAMS

\* Once a command has completed no lookup is answered from a line it covers,
\* whether the line was invalidated or only outdated by the LIB
\* (perf_enqueue_cache_invalidation promises that it has taken effect).
InvalidatedNeverHit == \A k \in Keys : age[k] = "dead" => ~WouldHit(k)

\* A line is never stamped ahead of the global version, except in a RAM that
\* the sweep or the clearing that reset the version has yet to reach: otherwise
\* the next command recorded would not outdate it (lazy_sweep_range_functional).
\* With TypeOK, no version passes vn_max and the LIB never holds an entry too many.
NeverAhead == TypeOK /\
  \A k \in Keys :
    Valid(k) /\ vn[k] > global_vn =>
      /\ mode \in {"GLOBAL", "SWEEP"}
      /\ IF CacheOf(k) = "pt" THEN at = "pt" /\ k.ram \in pending
         ELSE at = "pt" \/ k.ram \in pending

\* Between commands, a line read after every command issued so far is used: the
\* LIB outdates only what was cached before (lookup_pt_ram, lookup_ram).
NewLineHits == Idle => \A k \in Keys : age[k] = "new" => WouldHit(k)
=============================================================================
