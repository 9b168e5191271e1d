----------------------- MODULE LazyInvalidationProofs -----------------------
(***************************************************************************)
(* Theorems about LazyInvalidation, for any tags, commands, LIB size,      *)
(* largest version and number of RAMs.                                     *)
(*                                                                         *)
(*   VersionsBehind        no line is stamped ahead of the global version, *)
(*                         except where a sweep has yet to come by;        *)
(*   InvalidationEffective what a completed command covers is never hit;   *)
(*   FreshLinesHit         what was read after the last command is hit, if *)
(*                         the version counter does not wrap.              *)
(*                                                                         *)
(* IInv ties the stage a command has reached (at, mode, pending) to what   *)
(* is left of the lines; OldInv adds what becomes of the lines that were   *)
(* invalidated, and NewInv of those that were not.                         *)
(***************************************************************************)
EXTENDS LazyInvalidation, FiniteSetTheorems, TLAPS

-----------------------------------------------------------------------------
\* The sweep, the clearing or the scan has yet to go over k.
Ahead(k) == IF CacheOf(k) = "pt" THEN at = "pt" /\ k.ram \in pending
            ELSE at = "pt" \/ k.ram \in pending

LinesTyped ==
  /\ vn \in [Keys -> Versions]
  /\ age \in [Keys -> Marks \cup {"none"}] /\ walk \in [Keys -> Marks \cup {"none"}]
LibTyped ==
  /\ DOMAIN lib \subseteq [cls : Classes, tag1 : Nat, tag2 : Nat]
  /\ \A t \in DOMAIN lib : lib[t] \in Versions \ {0}
  /\ IsFiniteSet(DOMAIN lib) /\ Cardinality(DOMAIN lib) <= LIB_SIZE
  /\ global_vn \in 0 .. VN_MAX - 1
PipelineTyped ==
  /\ cmd \in Commands \cup {NoCommand}
  /\ at \in {"idle", "done", "pt", "walker"} /\ mode \in {"none", "GLOBAL", "SCAN", "SWEEP"}
  /\ pending \subseteq 0 .. PT_RAMS + WALKER_RAMS
Types == LinesTyped /\ LibTyped /\ PipelineTyped

\* Where a command is and how it goes over the lines fit what it is: only a
\* command that goes on to the walker caches clears or sweeps.
Stages ==
  /\ Idle <=> at = "idle"
  /\ at \in {"idle", "done"} => pending = {} /\ mode = "none"
  /\ at \in {"pt", "walker"} => pending \subseteq Rams(at) /\ mode # "none"
  /\ mode = "GLOBAL" => ClearsAll(cmd)
  /\ mode = "SWEEP" => Lazy(cmd)

Behind ==
  \A k \in Keys : Valid(k) /\ vn[k] > global_vn => mode \in {"GLOBAL", "SWEEP"} /\ Ahead(k)

IInv == Types /\ Stages /\ Behind

-----------------------------------------------------------------------------
(* The commands.                                                           *)

LEMMA NoCommandIsNone == NoCommand \notin Commands
  BY CommandsAssumption DEF NoCommand

\* A command that clears or sweeps names no range, so it goes on to the walkers.
LEMMA WholeGoOn ==
  ASSUME NEW c \in Commands, ClearsAll(c) \/ Lazy(c)
  PROVE  ~Ranged(c)
  BY CommandsAssumption DEF ClearsAll, Lazy, Ranged

\* The tag of a command that is recorded.
LEMMA TagTyped ==
  ASSUME NEW c \in Commands, Lazy(c)
  PROVE  LibTag(c) \in [cls : Classes, tag1 : Nat, tag2 : Nat]
<1>1. /\ c.op \in {"GLOBAL_INVAL", "VMA", "GVMA"}
      /\ c.gscid \in Nat \cup {None} /\ c.pscid \in Nat \cup {None}
  BY CommandsAssumption
<1>2. CASE c.op = "VMA" /\ c.gscid # None /\ c.pscid # None
  BY <1>1, <1>2 DEF LibTag, Classes
<1>3. CASE c.op = "VMA" /\ c.gscid = None /\ c.pscid # None
  BY <1>1, <1>3 DEF LibTag, Classes
<1>4. CASE ~(c.op = "VMA" /\ c.pscid # None)
  <2>1. c.gscid \in Nat
    BY <1>1, <1>4 DEF Lazy, ClearsAll, Ranged
  <2>2. LibTag(c) = [cls |-> "GSCID_ONLY", tag2 |-> c.gscid, tag1 |-> 0]
    BY <1>4 DEF LibTag
  <2> QED BY <2>1, <2>2 DEF Classes
<1> QED BY <1>2, <1>3, <1>4

\* Each line lives in a RAM of its cache.
LEMMA RamOf ==
  ASSUME NEW k \in Keys
  PROVE  /\ CacheOf(k) \in {"pt", "walker"}
         /\ k.ram \in Rams(CacheOf(k))
  BY KeysAssumption DEF CacheOf, Rams

LEMMA RamsTyped ==
  ASSUME NEW c \in {"pt", "walker"}
  PROVE  Rams(c) \subseteq 0 .. PT_RAMS + WALKER_RAMS
  BY SizesAssumption DEF Rams

\* Recording adds one entry when the tag is new and there is room.
LEMMA RecordedLib ==
  ASSUME LibTyped, NEW t \in [cls : Classes, tag1 : Nat, tag2 : Nat],
         NEW v \in 1 .. VN_MAX, ~LibFull(t), lib' = Recorded(t, v)
  PROVE  /\ DOMAIN lib' = DOMAIN lib \cup {t}
         /\ lib'[t] = v /\ \A u \in DOMAIN lib : u # t => lib'[u] = lib[u]
         /\ DOMAIN lib' \subseteq [cls : Classes, tag1 : Nat, tag2 : Nat]
         /\ \A u \in DOMAIN lib' : lib'[u] \in Versions \ {0}
         /\ IsFiniteSet(DOMAIN lib') /\ Cardinality(DOMAIN lib') <= LIB_SIZE
<1>1. DOMAIN lib' = DOMAIN lib \cup {t}
  BY DEF Recorded
<1>2. lib'[t] = v /\ \A u \in DOMAIN lib : u # t => lib'[u] = lib[u]
  BY DEF Recorded
<1>3. \A u \in DOMAIN lib' : lib'[u] \in Versions \ {0}
  BY <1>1, <1>2, SizesAssumption DEF LibTyped, Versions
<1>4. IsFiniteSet(DOMAIN lib') /\ Cardinality(DOMAIN lib') <= LIB_SIZE
  <2>1. CASE t \in DOMAIN lib
    <3>1. DOMAIN lib' = DOMAIN lib
      BY <1>1, <2>1
    <3> QED BY <3>1 DEF LibTyped
  <2>2. CASE t \notin DOMAIN lib
    <3>1. /\ IsFiniteSet(DOMAIN lib \cup {t})
          /\ Cardinality(DOMAIN lib \cup {t}) = Cardinality(DOMAIN lib) + 1
      BY <2>2, FS_AddElement DEF LibTyped
    <3>2. Cardinality(DOMAIN lib) \in Nat /\ LIB_SIZE \in Nat
      BY FS_CardinalityType, SizesAssumption DEF LibTyped
    <3>3. Cardinality(DOMAIN lib) # LIB_SIZE
      BY <2>2 DEF LibFull
    <3> QED BY <1>1, <3>1, <3>2, <3>3 DEF LibTyped
  <2> QED BY <2>1, <2>2
<1>5. DOMAIN lib' \subseteq [cls : Classes, tag1 : Nat, tag2 : Nat]
  BY <1>1 DEF LibTyped
<1> QED BY <1>1, <1>2, <1>3, <1>4, <1>5

-----------------------------------------------------------------------------
(* IInv is inductive.                                                      *)

LEMMA InitIInv == Init => IInv
<1> SUFFICES ASSUME Init PROVE IInv
  OBVIOUS
<1>1. LinesTyped
  BY SizesAssumption DEF Init, LinesTyped, Versions
<1>2. LibTyped
  <2>1. DOMAIN lib = {}
    BY DEF Init
  <2> QED BY <2>1, FS_EmptySet, SizesAssumption DEF Init, LibTyped
<1>3. PipelineTyped /\ Stages
  BY DEF Init, PipelineTyped, Stages, Idle
<1>4. Behind
  BY DEF Init, Behind, Valid
<1> QED BY <1>1, <1>2, <1>3, <1>4 DEF IInv, Types

LEMMA IInvWalkReads ==
  ASSUME IInv, NEW k \in Keys, WalkReads(k)
  PROVE  IInv'
  BY DEF IInv, Types, LinesTyped, LibTyped, PipelineTyped, Stages, Behind, WalkReads, Marks,
         cacheVars, libVars, pipeVars, Idle, Valid, Ahead

LEMMA IInvLookupDrops ==
  ASSUME IInv, NEW k \in Keys, LookupDrops(k)
  PROVE  IInv'
<1>1. LinesTyped' /\ LibTyped' /\ PipelineTyped' /\ Stages'
  BY SizesAssumption DEF IInv, Types, LinesTyped, LibTyped, PipelineTyped, Stages, LookupDrops,
     Marks, Versions, libVars, pipeVars, Idle
<1>2. Behind'
  BY DEF IInv, Types, LinesTyped, Behind, LookupDrops, libVars, pipeVars, Valid, Ahead
<1> QED BY <1>1, <1>2 DEF IInv, Types

LEMMA IInvFill ==
  ASSUME IInv, NEW k \in Keys, NEW v \in Keys, Fill(k, v)
  PROVE  IInv'
<1>1. LinesTyped'
  BY SizesAssumption DEF IInv, Types, LinesTyped, LibTyped, Fill, Marks, Versions
<1>2. LibTyped' /\ PipelineTyped' /\ Stages'
  BY DEF IInv, Types, LibTyped, PipelineTyped, Stages, Fill, libVars, pipeVars, Idle
<1>3. Behind'
  <2> SUFFICES ASSUME NEW j \in Keys, (Valid(j) /\ vn[j] > global_vn)'
               PROVE  (mode \in {"GLOBAL", "SWEEP"} /\ Ahead(j))'
    BY DEF Behind
  <2>1. UNCHANGED <<global_vn, mode, at, pending>>
    BY DEF Fill, libVars, pipeVars
  <2>2. j # k
    BY <2>1 DEF IInv, Types, LinesTyped, LibTyped, Fill
  <2>3. j # v
    BY <2>2 DEF IInv, Types, LinesTyped, Fill, Valid
  <2>4. age'[j] = age[j] /\ vn'[j] = vn[j]
    BY <2>2, <2>3 DEF IInv, Types, LinesTyped, Fill
  <2> QED BY <2>1, <2>4 DEF IInv, Behind, Valid, Ahead
<1> QED BY <1>1, <1>2, <1>3 DEF IInv, Types

\* What every Issue does to the lines.
LEMMA IssuedLines ==
  ASSUME Types, NEW c \in Commands, Issued(c)
  PROVE  /\ LinesTyped' /\ vn' = vn
         /\ \A k \in Keys : /\ age'[k] = Aged(c, k, age[k]) /\ walk'[k] = Aged(c, k, walk[k])
                            /\ Valid(k)' = Valid(k)
<1>1. \A a \in Marks \cup {"none"} : \A k \in Keys :
         /\ Aged(c, k, a) \in Marks \cup {"none"}
         /\ Aged(c, k, a) = "none" <=> a = "none"
  BY DEF Aged, Marks
<1>2. \A k \in Keys : age'[k] = Aged(c, k, age[k]) /\ walk'[k] = Aged(c, k, walk[k])
  BY DEF Issued
<1>3. \A k \in Keys : age[k] \in Marks \cup {"none"} /\ walk[k] \in Marks \cup {"none"}
  BY DEF Types, LinesTyped
<1>4. vn' = vn
  BY DEF Issued
<1>5. LinesTyped'
  <2>1. \A k \in Keys : age'[k] \in Marks \cup {"none"} /\ walk'[k] \in Marks \cup {"none"}
    BY <1>1, <1>2, <1>3
  <2>2. /\ age' = [k \in Keys |-> age'[k]] /\ walk' = [k \in Keys |-> walk'[k]]
    BY DEF Issued
  <2> QED BY <1>4, <2>1, <2>2 DEF Types, LinesTyped
<1>6. \A k \in Keys : Valid(k)' = Valid(k)
  BY <1>1, <1>2, <1>3 DEF Valid
<1> QED BY <1>2, <1>4, <1>5, <1>6

\* Between commands every line is at or behind the global version.
LEMMA IdleBehind ==
  ASSUME IInv, Idle
  PROVE  /\ mode = "none" /\ pending = {}
         /\ \A k \in Keys : Valid(k) => vn[k] <= global_vn
<1>1. mode = "none" /\ pending = {}
  BY DEF IInv, Stages
<1> QED BY <1>1, SizesAssumption DEF IInv, Behind, Types, LinesTyped, LibTyped, Versions

LEMMA IInvIssueRange ==
  ASSUME IInv, NEW c \in Commands, Idle, Issued(c), IssueRange(c)
  PROVE  IInv'
<1>1. LinesTyped' /\ vn' = vn /\ \A k \in Keys : Valid(k)' = Valid(k)
  BY IssuedLines DEF IInv
<1>2. cmd' = c /\ at' = "pt" /\ mode' = "SCAN" /\ UNCHANGED <<lib, global_vn>>
  BY DEF Issued, IssueRange, GoOverPage, libVars
<1>3. pending' \subseteq Rams("pt")
  BY RamOf DEF IssueRange, GoOverPage, CacheOf
<1>4. LibTyped' /\ PipelineTyped'
  BY <1>2, <1>3, RamsTyped DEF IInv, Types, LibTyped, PipelineTyped
<1>5. Stages'
  BY <1>2, <1>3, NoCommandIsNone DEF Stages, Idle, Rams
<1>6. Behind'
  BY <1>1, <1>2, IdleBehind, SizesAssumption
  DEF IInv, Behind, Types, LinesTyped, LibTyped, Versions
<1> QED BY <1>1, <1>4, <1>5, <1>6 DEF IInv, Types

LEMMA IInvIssueClear ==
  ASSUME IInv, NEW c \in Commands, Idle, Issued(c), IssueClear(c)
  PROVE  IInv'
<1>1. LinesTyped' /\ vn' = vn /\ \A k \in Keys : Valid(k)' = Valid(k)
  BY IssuedLines DEF IInv
<1>2. /\ cmd' = c /\ at' = "pt" /\ mode' = "GLOBAL" /\ pending' = Rams("pt")
      /\ lib' = << >> /\ global_vn' = 0 /\ ClearsAll(c)
  BY DEF Issued, IssueClear, GoOver
<1>3. LibTyped'
  <2>1. DOMAIN lib' = {}
    BY <1>2
  <2> QED BY <1>2, <2>1, FS_EmptySet, SizesAssumption DEF LibTyped
<1>4. PipelineTyped'
  BY <1>2, RamsTyped DEF PipelineTyped
<1>5. Stages'
  BY <1>2, NoCommandIsNone DEF Stages, Idle, Rams
<1>6. Behind'
  BY <1>2, RamOf DEF Behind, Ahead
<1> QED BY <1>1, <1>3, <1>4, <1>5, <1>6 DEF IInv, Types

LEMMA IInvIssueScan ==
  ASSUME IInv, NEW c \in Commands, Idle, Issued(c), IssueScan(c)
  PROVE  IInv'
<1>1. LinesTyped' /\ vn' = vn /\ \A k \in Keys : Valid(k)' = Valid(k)
  BY IssuedLines DEF IInv
<1>2. /\ cmd' = c /\ at' = "pt" /\ mode' = "SCAN" /\ pending' = Rams("pt")
      /\ UNCHANGED <<lib, global_vn>>
  BY DEF Issued, IssueScan, GoOver, libVars
<1>3. LibTyped' /\ PipelineTyped'
  BY <1>2, RamsTyped DEF IInv, Types, LibTyped, PipelineTyped
<1>4. Stages'
  BY <1>2, NoCommandIsNone DEF Stages, Idle, Rams
<1>5. Behind'
  BY <1>1, <1>2, IdleBehind, SizesAssumption
  DEF IInv, Behind, Types, LinesTyped, LibTyped, Versions
<1> QED BY <1>1, <1>3, <1>4, <1>5 DEF IInv, Types

LEMMA IInvIssueRecord ==
  ASSUME IInv, NEW c \in Commands, Idle, Issued(c), IssueRecord(c)
  PROVE  IInv'
<1>1. LinesTyped' /\ vn' = vn /\ \A k \in Keys : Valid(k)' = Valid(k)
  BY IssuedLines DEF IInv
<1>2. cmd' = c /\ Lazy(c) /\ ~LibFull(LibTag(c)) /\ lib' = Recorded(LibTag(c), global_vn + 1)
  BY DEF Issued, IssueRecord
<1>3. global_vn + 1 \in 1 .. VN_MAX /\ global_vn \in Nat /\ VN_MAX \in Nat \ {0}
  BY SizesAssumption DEF IInv, Types, LibTyped
<1>4. /\ DOMAIN lib' \subseteq [cls : Classes, tag1 : Nat, tag2 : Nat]
      /\ \A u \in DOMAIN lib' : lib'[u] \in Versions \ {0}
      /\ IsFiniteSet(DOMAIN lib') /\ Cardinality(DOMAIN lib') <= LIB_SIZE
  BY <1>2, <1>3, TagTyped, RecordedLib DEF IInv, Types
<1>5. CASE global_vn' = global_vn + 1 /\ global_vn + 1 < VN_MAX
           /\ at' = "done" /\ mode' = "none" /\ pending' = {}
  <2>1. LibTyped' /\ PipelineTyped'
    BY <1>2, <1>3, <1>4, <1>5 DEF LibTyped, PipelineTyped
  <2>2. Stages'
    BY <1>2, <1>5, NoCommandIsNone DEF Stages, Idle
  <2>3. Behind'
    BY <1>1, <1>3, <1>5, IdleBehind, SizesAssumption
    DEF IInv, Behind, Types, LinesTyped, Versions
  <2> QED BY <1>1, <2>1, <2>2, <2>3 DEF IInv, Types
<1>6. CASE global_vn' = 0 /\ at' = "pt" /\ mode' = "SWEEP" /\ pending' = Rams("pt")
  <2>1. LibTyped' /\ PipelineTyped'
    BY <1>2, <1>3, <1>4, <1>6, RamsTyped DEF LibTyped, PipelineTyped
  <2>2. Stages'
    BY <1>2, <1>6, NoCommandIsNone DEF Stages, Idle, Rams
  <2>3. Behind'
    BY <1>6, RamOf DEF Behind, Ahead
  <2> QED BY <1>1, <2>1, <2>2, <2>3 DEF IInv, Types
<1> QED BY <1>5, <1>6 DEF IssueRecord, GoOver

LEMMA IInvIssue ==
  ASSUME IInv, NEW c \in Commands, Issue(c)
  PROVE  IInv'
  BY IInvIssueRange, IInvIssueClear, IInvIssueScan, IInvIssueRecord DEF Issue

\* A RAM that was gone over has no line ahead of the global version.
LEMMA IInvSubInvalidate ==
  ASSUME IInv, NEW r \in pending, SubInvalidate(r)
  PROVE  IInv'
<1>1. /\ \A k \in Keys : age'[k] = IF Dropped(r, k) THEN "none" ELSE age[k]
      /\ \A k \in Keys : vn'[k] = NewVn(r, k)
      /\ pending' = pending \ {r} /\ UNCHANGED <<walk, lib, global_vn, cmd, at, mode>>
  BY DEF SubInvalidate, libVars
<1>2. LinesTyped'
  <2>1. \A k \in Keys : age'[k] \in Marks \cup {"none"}
    BY <1>1 DEF IInv, Types, LinesTyped
  <2>2. \A k \in Keys : vn'[k] \in Versions
    BY <1>1, SizesAssumption DEF IInv, Types, LinesTyped, LibTyped, NewVn, Versions
  <2>3. /\ age' = [k \in Keys |-> age'[k]] /\ vn' = [k \in Keys |-> vn'[k]]
    BY DEF SubInvalidate
  <2> QED BY <1>1, <2>1, <2>2, <2>3 DEF IInv, Types, LinesTyped
<1>3. LibTyped' /\ PipelineTyped' /\ Stages'
  BY <1>1 DEF IInv, Types, LibTyped, PipelineTyped, Stages, Idle
<1>4. Behind'
  <2> SUFFICES ASSUME NEW k \in Keys, (Valid(k) /\ vn[k] > global_vn)'
               PROVE  (mode \in {"GLOBAL", "SWEEP"} /\ Ahead(k))'
    BY DEF Behind
  <2>1. ~Dropped(r, k) /\ Valid(k)
    BY <1>1 DEF Valid
  <2>2. ~(InRam(r, k) /\ mode = "SWEEP") /\ vn'[k] = vn[k]
    BY <1>1, <2>1, SizesAssumption DEF NewVn, IInv, Types, LibTyped
  <2>3. mode \in {"GLOBAL", "SWEEP"} /\ Ahead(k)
    BY <1>1, <2>1, <2>2 DEF IInv, Behind
  <2>4. ~InRam(r, k)
    BY <2>1, <2>2, <2>3 DEF Dropped
  <2>5. at \in {"pt", "walker"}
    BY DEF IInv, Types, PipelineTyped, Stages
  <2>6. at = "pt" \/ k.ram \in pending \ {r}
    BY <2>3, <2>4, <2>5, RamOf DEF Ahead, InRam
  <2>7. CacheOf(k) = "pt" => at = "pt" /\ k.ram \in pending \ {r}
    BY <2>3, <2>4 DEF Ahead, InRam
  <2> QED BY <1>1, <2>3, <2>6, <2>7 DEF Ahead
<1> QED BY <1>2, <1>3, <1>4 DEF IInv, Types

LEMMA IInvToWalker ==
  ASSUME IInv, ToWalker
  PROVE  IInv'
<1>1. /\ at = "pt" /\ pending = {} /\ at' = "walker" /\ pending' = Rams("walker")
      /\ UNCHANGED <<vn, age, walk, lib, global_vn, cmd, mode>>
  BY DEF ToWalker, cacheVars, libVars
<1>2. LinesTyped' /\ LibTyped' /\ PipelineTyped'
  BY <1>1, RamsTyped DEF IInv, Types, LinesTyped, LibTyped, PipelineTyped
<1>3. Stages'
  BY <1>1 DEF IInv, Stages, Idle, Rams
<1>4. Behind'
  BY <1>1, RamOf DEF IInv, Behind, Ahead, Valid
<1> QED BY <1>2, <1>3, <1>4 DEF IInv, Types

LEMMA IInvComplete ==
  ASSUME IInv, Complete
  PROVE  IInv'
<1>1. /\ \A k \in Keys : age'[k] = Expired(age[k]) /\ walk'[k] = Expired(walk[k])
      /\ cmd' = NoCommand /\ at' = "idle" /\ mode' = "none"
      /\ UNCHANGED <<vn, lib, global_vn, pending>>
  BY DEF Complete, libVars
<1>2. pending = {}
  BY DEF IInv, Stages, Complete
<1>3. LinesTyped'
  <2>1. \A k \in Keys : /\ age'[k] \in Marks \cup {"none"} /\ walk'[k] \in Marks \cup {"none"}
    BY <1>1 DEF IInv, Types, LinesTyped, Expired, Marks
  <2>2. /\ age' = [k \in Keys |-> age'[k]] /\ walk' = [k \in Keys |-> walk'[k]]
    BY DEF Complete
  <2> QED BY <1>1, <2>1, <2>2 DEF IInv, Types, LinesTyped
<1>4. LibTyped' /\ PipelineTyped' /\ Stages'
  BY <1>1, <1>2 DEF IInv, Types, LibTyped, PipelineTyped, Stages, Idle
<1>5. Behind'
  <2> SUFFICES ASSUME NEW k \in Keys, (Valid(k) /\ vn[k] > global_vn)' PROVE FALSE
    BY DEF Behind
  <2>1. Valid(k) /\ vn[k] > global_vn
    BY <1>1 DEF Valid, Expired
  <2>2. mode \in {"GLOBAL", "SWEEP"} /\ Ahead(k)
    BY <2>1 DEF IInv, Behind
  <2>3. cmd \in Commands /\ ~Ranged(cmd)
    BY <2>2, NoCommandIsNone, WholeGoOn DEF IInv, Types, PipelineTyped, Stages, Idle
  <2> QED BY <1>2, <2>2, <2>3 DEF Complete, WalkerToo, Ahead, IInv, Stages
<1> QED BY <1>3, <1>4, <1>5 DEF IInv, Types

LEMMA IInvStep == IInv /\ [Next]_vars => IInv'
<1> SUFFICES ASSUME IInv, [Next]_vars PROVE IInv'
  OBVIOUS
<1>1. CASE Next
  BY <1>1, IInvWalkReads, IInvLookupDrops, IInvFill, IInvIssue, IInvSubInvalidate,
     IInvToWalker, IInvComplete
  DEF Next, SubInvalidate
<1>2. CASE UNCHANGED vars
  BY <1>2 DEF vars, cacheVars, libVars, pipeVars, IInv, Types, LinesTyped, LibTyped,
     PipelineTyped, Stages, Behind, Idle, Valid, Ahead
<1> QED BY <1>1, <1>2

LEMMA IInvAlways == Spec => []IInv
  BY InitIInv, IInvStep, PTL DEF Spec

\* No line is stamped ahead of the global version except where a sweep or a
\* clearing has yet to come by, no version passes vn_max and the LIB never holds
\* an entry too many (lazy_sweep_range_functional, lib_update).
THEOREM VersionsBehind == Spec => []NeverAhead
<1>1. IInv => NeverAhead
  <2> SUFFICES ASSUME IInv PROVE NeverAhead
    OBVIOUS
  <2>1. TypeOK
    BY DEF IInv, Types, LinesTyped, LibTyped, PipelineTyped, TypeOK
  <2> QED BY <2>1 DEF IInv, Behind, Ahead, NeverAhead
<1> QED BY <1>1, IInvAlways, PTL

-----------------------------------------------------------------------------
(* What a completed command covers is never hit.                           *)
(*                                                                         *)
(* Three things the code does not enforce are hypotheses (README section   *)
(* 6): no covered walk is in progress when a command is issued (Drained),  *)
(* no second-stage walker line is cached, whose lookup leaves the LIB out, *)
(* and no IOTINVAL.GVMA names an address, a GPA that the scan compares     *)
(* with IOVAs.                                                             *)

NoSecondStage == \A k \in Keys : k.array # "s2"
NoGpaCommands == \A c \in Commands : c.op = "GVMA" => c.page = None

\* Walks in progress are not covered by any command.
WalksUncovered == \A k \in Keys : walk[k] \in {"none", "new", "kept"}

\* What the command in progress invalidates is left only where it has yet to go
\* over the lines, or is outdated by the LIB.
OldLines ==
  \A k \in Keys : age[k] = "old" =>
    /\ ~Idle /\ Covers(cmd, k)
    /\ IF mode \in {"GLOBAL", "SCAN"} THEN Ahead(k) ELSE Masked(k)

\* What a command before it invalidated is outdated by the LIB, unless the command
\* in progress has emptied the LIB and is about to clear the line.
DeadLines ==
  \A k \in Keys : age[k] = "dead" => IF mode = "GLOBAL" THEN Ahead(k) ELSE Masked(k)

OldInv == IInv /\ WalksUncovered /\ OldLines /\ DeadLines

\* The tag of a recorded command matches every line the command covers.
LEMMA TagCovers ==
  ASSUME NEW c \in Commands, Lazy(c), NEW k \in Keys, Covers(c, k)
  PROVE  LibMatches(LibTag(c), k)
  BY CommandsAssumption DEF Lazy, ClearsAll, Ranged, Covers, SameIds, LibMatches, LibTag

\* A scan drops every line the command covers.
LEMMA ScanCovers ==
  ASSUME NEW c \in Commands, c.op = "GVMA" => c.page = None,
         NEW k \in Keys, k.array # "s2", Covers(c, k)
  PROVE  ScanHits(c, k)
  BY CommandsAssumption, KeysAssumption DEF Covers, ScanHits, SameIds, SamePage

\* Recording a command outdates every valid line its tag matches, and no line
\* outdated before comes back.
LEMMA RecordedMasks ==
  ASSUME IInv, Idle, NEW c \in Commands, IssueRecord(c), vn' = vn,
         NEW k \in Keys, Valid(k)
  PROVE  /\ LibMatches(LibTag(c), k) => Masked(k)'
         /\ Masked(k) => Masked(k)'
<1> DEFINE t == LibTag(c)
<1>1. Lazy(c) /\ ~LibFull(t) /\ lib' = Recorded(t, global_vn + 1)
  BY DEF IssueRecord
<1>2. global_vn + 1 \in 1 .. VN_MAX /\ global_vn \in Nat
  BY SizesAssumption DEF IInv, Types, LibTyped
<1>3. /\ DOMAIN lib' = DOMAIN lib \cup {t}
      /\ lib'[t] = global_vn + 1 /\ \A u \in DOMAIN lib : u # t => lib'[u] = lib[u]
  BY <1>1, <1>2, TagTyped, RecordedLib DEF IInv, Types
<1>4. vn[k] <= global_vn /\ vn[k] \in Nat
  BY IdleBehind, SizesAssumption DEF IInv, Types, LinesTyped, Versions
<1>5. vn'[k] < lib'[t]
  BY <1>2, <1>3, <1>4
<1>6. LibMatches(t, k) => Masked(k)'
  BY <1>3, <1>5 DEF Masked, Matches
<1>7. ASSUME NEW u \in Matches(k), vn[k] < lib[u]
      PROVE  Masked(k)'
  <2>1. CASE u = t
    BY <1>6, <1>7, <2>1 DEF Matches
  <2>2. CASE u # t
    BY <1>3, <1>7, <2>2 DEF Masked, Matches
  <2> QED BY <2>1, <2>2
<1> QED BY <1>6, <1>7 DEF Masked

LEMMA OldInvWalkReads ==
  ASSUME OldInv, NEW k \in Keys, WalkReads(k)
  PROVE  OldInv'
<1>1. IInv'
  BY IInvWalkReads DEF OldInv
<1>2. UNCHANGED <<vn, age, lib, global_vn, cmd, at, mode, pending>>
  BY DEF WalkReads, cacheVars, libVars, pipeVars
<1>3. WalksUncovered'
  BY DEF OldInv, IInv, Types, LinesTyped, WalksUncovered, WalkReads
<1>4. OldLines' /\ DeadLines'
  BY <1>2 DEF OldInv, OldLines, DeadLines, Idle, Ahead, Masked, Matches
<1> QED BY <1>1, <1>3, <1>4 DEF OldInv

LEMMA OldInvLookupDrops ==
  ASSUME OldInv, NEW k \in Keys, LookupDrops(k)
  PROVE  OldInv'
<1>1. IInv'
  BY IInvLookupDrops DEF OldInv
<1>2. UNCHANGED <<walk, lib, global_vn, cmd, at, mode, pending>>
  BY DEF LookupDrops, libVars, pipeVars
<1>3. \A j \in Keys : age'[j] \in {"old", "dead"} => j # k /\ age'[j] = age[j] /\ vn'[j] = vn[j]
  BY DEF LookupDrops, OldInv, IInv, Types, LinesTyped
<1>4. WalksUncovered'
  BY <1>2 DEF OldInv, WalksUncovered
<1>5. OldLines' /\ DeadLines'
  BY <1>2, <1>3 DEF OldInv, OldLines, DeadLines, Idle, Ahead, Masked, Matches
<1> QED BY <1>1, <1>4, <1>5 DEF OldInv

\* A walk that ends brings no line a command covers.
LEMMA OldInvFill ==
  ASSUME OldInv, NEW k \in Keys, NEW v \in Keys, Fill(k, v)
  PROVE  OldInv'
<1>1. IInv'
  BY IInvFill DEF OldInv
<1>2. UNCHANGED <<lib, global_vn, cmd, at, mode, pending>>
  BY DEF Fill, libVars, pipeVars
<1>3. \A j \in Keys : age'[j] \in {"old", "dead"} => j # k /\ j # v
  BY DEF Fill, OldInv, WalksUncovered, IInv, Types, LinesTyped
<1>4. \A j \in Keys : age'[j] \in {"old", "dead"} => age'[j] = age[j] /\ vn'[j] = vn[j]
  BY <1>3 DEF Fill, OldInv, IInv, Types, LinesTyped
<1>5. WalksUncovered'
  BY DEF Fill, OldInv, WalksUncovered, IInv, Types, LinesTyped
<1>6. OldLines' /\ DeadLines'
  BY <1>2, <1>4 DEF OldInv, OldLines, DeadLines, Idle, Ahead, Masked, Matches
<1> QED BY <1>1, <1>5, <1>6 DEF OldInv

\* At the issue of a command its lines are ahead of a scan or clearing, or
\* outdated at once.
LEMMA OldInvIssue ==
  ASSUME Drained, OldInv, NEW c \in Commands, Issue(c)
  PROVE  OldInv'
<1>1. IInv' /\ IInv /\ Idle /\ Issued(c)
  BY IInvIssue DEF OldInv, Issue
<1>2. mode = "none"
  BY <1>1, IdleBehind
<1>3. /\ vn' = vn /\ cmd' = c
      /\ \A k \in Keys : age'[k] = Aged(c, k, age[k]) /\ walk'[k] = Aged(c, k, walk[k])
  BY <1>1, IssuedLines DEF IInv, Issued
<1>4. \A k \in Keys : age[k] # "old"
  BY <1>1 DEF OldInv, OldLines
<1>5. \A k \in Keys : /\ age'[k] = "old" => Valid(k) /\ Covers(c, k)
                      /\ age'[k] = "dead" => Valid(k) /\ Masked(k)
  BY <1>2, <1>3 DEF Aged, Valid, OldInv, DeadLines
<1>6. ~Idle'
  BY <1>3, NoCommandIsNone DEF Idle
<1>7. WalksUncovered'
  BY <1>3 DEF Aged, Issue, OldInv, WalksUncovered
<1>8. CASE IssueRange(c)
  <2>1. at' = "pt" /\ mode' = "SCAN" /\ UNCHANGED lib
    BY <1>8 DEF IssueRange, GoOverPage, libVars
  <2>2. \A k \in Keys : Covers(c, k) /\ CacheOf(k) = "pt" => k.ram \in pending'
    <3>1. Ranged(c) /\ pending' = {k.ram : k \in {j \in Keys : j.array = "pt" /\ j.page = c.page}}
      BY <1>8 DEF IssueRange, GoOverPage
    <3>2. \A k \in Keys : Covers(c, k) => k.page = c.page
      BY <3>1 DEF Ranged, Covers, SamePage
    <3> QED BY <3>1, <3>2 DEF CacheOf
  <2>3. OldLines'
    BY <1>3, <1>5, <1>6, <2>1, <2>2 DEF OldLines, Ahead
  <2>4. DeadLines'
    BY <1>3, <1>5, <2>1 DEF DeadLines, Masked, Matches
  <2> QED BY <1>1, <1>7, <2>3, <2>4 DEF OldInv
<1>9. CASE IssueClear(c)
  <2>1. at' = "pt" /\ mode' = "GLOBAL" /\ pending' = Rams("pt")
    BY <1>9 DEF IssueClear, GoOver
  <2>2. \A k \in Keys : Ahead(k)'
    BY <2>1, RamOf DEF Ahead
  <2>3. OldLines' /\ DeadLines'
    BY <1>3, <1>5, <1>6, <2>1, <2>2 DEF OldLines, DeadLines
  <2> QED BY <1>1, <1>7, <2>3 DEF OldInv
<1>10. CASE IssueScan(c)
  <2>1. at' = "pt" /\ mode' = "SCAN" /\ pending' = Rams("pt") /\ UNCHANGED lib
    BY <1>10 DEF IssueScan, GoOver, libVars
  <2>2. \A k \in Keys : Ahead(k)'
    BY <2>1, RamOf DEF Ahead
  <2>3. OldLines'
    BY <1>3, <1>5, <1>6, <2>1, <2>2 DEF OldLines
  <2>4. DeadLines'
    BY <1>3, <1>5, <2>1 DEF DeadLines, Masked, Matches
  <2> QED BY <1>1, <1>7, <2>3, <2>4 DEF OldInv
<1>11. CASE IssueRecord(c)
  <2>1. mode' \in {"none", "SWEEP"} /\ Lazy(c)
    BY <1>11 DEF IssueRecord, GoOver
  <2>2. \A k \in Keys : age'[k] \in {"old", "dead"} => Masked(k)'
    BY <1>1, <1>3, <1>5, <1>11, <2>1, RecordedMasks, TagCovers
  <2>3. OldLines' /\ DeadLines'
    BY <1>3, <1>5, <1>6, <2>1, <2>2 DEF OldLines, DeadLines
  <2> QED BY <1>1, <1>7, <2>3 DEF OldInv
<1> QED BY <1>8, <1>9, <1>10, <1>11 DEF Issue

\* A RAM that was gone over keeps none of the lines in question.
LEMMA OldInvSubInvalidate ==
  ASSUME NoSecondStage, NoGpaCommands, OldInv, NEW r \in pending, SubInvalidate(r)
  PROVE  OldInv'
<1>1. IInv'
  BY IInvSubInvalidate DEF OldInv
<1>2. /\ \A k \in Keys : age'[k] = IF Dropped(r, k) THEN "none" ELSE age[k]
      /\ \A k \in Keys : vn'[k] = NewVn(r, k)
      /\ pending' = pending \ {r} /\ UNCHANGED <<walk, lib, global_vn, cmd, at, mode>>
  BY DEF SubInvalidate, libVars
<1>3. WalksUncovered'
  BY <1>2 DEF OldInv, WalksUncovered
<1>4. at \in {"pt", "walker"} /\ mode # "none" /\ cmd \in Commands
  BY DEF OldInv, IInv, Types, PipelineTyped, Stages, Idle
<1>5. ASSUME NEW k \in Keys, Ahead(k), ~InRam(r, k)
      PROVE  Ahead(k)'
  <2>1. at = "pt" \/ k.ram \in pending \ {r}
    BY <1>4, <1>5, RamOf DEF Ahead, InRam
  <2>2. CacheOf(k) = "pt" => at = "pt" /\ k.ram \in pending \ {r}
    BY <1>5 DEF Ahead, InRam
  <2> QED BY <1>2, <2>1, <2>2 DEF Ahead
<1>6. ASSUME NEW k \in Keys, Masked(k), mode \in {"SCAN", "SWEEP"}, age'[k] \in {"old", "dead"}
      PROVE  Masked(k)'
  <2>1. ~Dropped(r, k) /\ Valid(k)
    BY <1>2, <1>6 DEF Valid
  <2>2. ~(InRam(r, k) /\ mode = "SWEEP")
    BY <1>6, <2>1 DEF Dropped
  <2>3. vn'[k] = vn[k]
    BY <1>2, <2>1, <2>2 DEF NewVn
  <2> QED BY <1>2, <1>6, <2>3 DEF Masked, Matches
<1>7. OldLines'
  <2> SUFFICES ASSUME NEW k \in Keys, age'[k] = "old"
               PROVE  (/\ ~Idle /\ Covers(cmd, k)
                       /\ IF mode \in {"GLOBAL", "SCAN"} THEN Ahead(k) ELSE Masked(k))'
    BY DEF OldLines
  <2>1. age[k] = "old" /\ ~Dropped(r, k) /\ Valid(k)
    BY <1>2 DEF Valid
  <2>2. /\ ~Idle /\ Covers(cmd, k)
        /\ IF mode \in {"GLOBAL", "SCAN"} THEN Ahead(k) ELSE Masked(k)
    BY <2>1 DEF OldInv, OldLines
  <2>3. ~Idle' /\ Covers(cmd, k)'
    BY <1>2, <2>2 DEF Idle
  <2>4. ScanHits(cmd, k)
    BY <1>4, <2>2, ScanCovers DEF NoSecondStage, NoGpaCommands
  <2>5. mode \in {"GLOBAL", "SCAN"} => ~InRam(r, k)
    BY <2>1, <2>4 DEF Dropped
  <2>6. mode \in {"GLOBAL", "SCAN", "SWEEP"}
    BY <1>4 DEF OldInv, IInv, Types, PipelineTyped
  <2> QED BY <1>2, <1>5, <1>6, <2>2, <2>3, <2>5, <2>6
<1>8. DeadLines'
  <2> SUFFICES ASSUME NEW k \in Keys, age'[k] = "dead"
               PROVE  (IF mode = "GLOBAL" THEN Ahead(k) ELSE Masked(k))'
    BY DEF DeadLines
  <2>1. age[k] = "dead" /\ ~Dropped(r, k) /\ Valid(k)
    BY <1>2 DEF Valid
  <2>2. IF mode = "GLOBAL" THEN Ahead(k) ELSE Masked(k)
    BY <2>1 DEF OldInv, DeadLines
  <2>3. mode = "GLOBAL" => ~InRam(r, k)
    BY <2>1 DEF Dropped
  <2>4. mode \in {"GLOBAL", "SCAN", "SWEEP"}
    BY <1>4 DEF OldInv, IInv, Types, PipelineTyped
  <2> QED BY <1>2, <1>5, <1>6, <2>2, <2>3, <2>4
<1> QED BY <1>1, <1>3, <1>7, <1>8 DEF OldInv

LEMMA OldInvToWalker ==
  ASSUME OldInv, ToWalker
  PROVE  OldInv'
<1>1. IInv'
  BY IInvToWalker DEF OldInv
<1>2. /\ at = "pt" /\ pending = {} /\ at' = "walker" /\ pending' = Rams("walker")
      /\ UNCHANGED <<vn, age, walk, lib, global_vn, cmd, mode>>
  BY DEF ToWalker, cacheVars, libVars
<1>3. \A k \in Keys : Ahead(k) => Ahead(k)'
  BY <1>2, RamOf DEF Ahead
<1>4. \A k \in Keys : Masked(k)' = Masked(k)
  BY <1>2 DEF Masked, Matches
<1>5. WalksUncovered' /\ OldLines' /\ DeadLines'
  BY <1>2, <1>3, <1>4 DEF OldInv, WalksUncovered, OldLines, DeadLines, Idle
<1> QED BY <1>1, <1>5 DEF OldInv

\* When a command completes the lines it covers are gone or outdated.
LEMMA OldInvComplete ==
  ASSUME OldInv, Complete
  PROVE  OldInv'
<1>1. IInv'
  BY IInvComplete DEF OldInv
<1>2. /\ \A k \in Keys : age'[k] = Expired(age[k]) /\ walk'[k] = Expired(walk[k])
      /\ cmd' = NoCommand /\ mode' = "none" /\ UNCHANGED <<vn, lib>>
  BY DEF Complete, libVars
<1>3. WalksUncovered'
  BY <1>2 DEF OldInv, WalksUncovered, Expired
<1>4. pending = {} /\ at # "idle" => cmd \in Commands
  BY DEF OldInv, IInv, Types, PipelineTyped, Stages, Idle
<1>5. at # "idle" /\ pending = {}
  BY DEF Complete, OldInv, IInv, Stages
<1>6. ASSUME NEW k \in Keys, Ahead(k), mode \in {"GLOBAL", "SCAN"}
      PROVE  CacheOf(k) = "walker" /\ Ranged(cmd) /\ ~cmd.nl
  <2>1. CacheOf(k) = "walker" /\ at = "pt"
    BY <1>5, <1>6, RamOf DEF Ahead
  <2> QED BY <2>1 DEF Complete, WalkerToo
<1>7. \A k \in Keys : age[k] = "old" => Masked(k)
  <2> SUFFICES ASSUME NEW k \in Keys, age[k] = "old", ~Masked(k) PROVE FALSE
    OBVIOUS
  <2>1. Covers(cmd, k) /\ mode \in {"GLOBAL", "SCAN"} /\ Ahead(k)
    BY DEF OldInv, OldLines
  <2>2. CacheOf(k) = "walker" /\ Ranged(cmd) /\ ~cmd.nl
    BY <1>6, <2>1
  <2> QED BY <2>1, <2>2 DEF CacheOf, Covers, Ranged
<1>8. \A k \in Keys : age[k] = "dead" => Masked(k)
  <2> SUFFICES ASSUME NEW k \in Keys, age[k] = "dead", ~Masked(k) PROVE FALSE
    OBVIOUS
  <2>1. mode = "GLOBAL" /\ Ahead(k)
    BY DEF OldInv, DeadLines
  <2>2. ClearsAll(cmd) /\ cmd \in Commands
    BY <1>4, <1>5, <2>1 DEF OldInv, IInv, Stages
  <2> QED BY <1>6, <2>1, <2>2, WholeGoOn
<1>9. OldLines' /\ DeadLines'
  BY <1>2, <1>7, <1>8 DEF OldLines, DeadLines, Expired, Masked, Matches
<1> QED BY <1>1, <1>3, <1>9 DEF OldInv

LEMMA OldInvStep ==
  ASSUME Drained, NoSecondStage, NoGpaCommands
  PROVE  OldInv /\ [Next]_vars => OldInv'
<1> SUFFICES ASSUME OldInv, [Next]_vars PROVE OldInv'
  OBVIOUS
<1>1. CASE Next
  BY <1>1, OldInvWalkReads, OldInvLookupDrops, OldInvFill, OldInvIssue, OldInvSubInvalidate,
     OldInvToWalker, OldInvComplete
  DEF Next, SubInvalidate
<1>2. CASE UNCHANGED vars
  <2>1. IInv'
    BY <1>2, IInvStep DEF OldInv
  <2> QED BY <1>2, <2>1 DEF vars, cacheVars, libVars, pipeVars, OldInv, WalksUncovered,
             OldLines, DeadLines, Idle, Ahead, Masked, Matches
<1> QED BY <1>1, <1>2

LEMMA InitOldInv == Init => OldInv
  BY InitIInv DEF Init, OldInv, WalksUncovered, OldLines, DeadLines

\* When a command that clears everything is in progress the LIB is empty already and
\* its lines may be hit (README section 6); at every other time no lookup is answered
\* from a line that a completed command covers (perf_enqueue_cache_invalidation).
THEOREM InvalidationEffective ==
  ASSUME Drained, NoSecondStage, NoGpaCommands
  PROVE  Spec => [](mode # "GLOBAL" => InvalidatedNeverHit)
<1>1. OldInv => (mode # "GLOBAL" => InvalidatedNeverHit)
  BY DEF OldInv, DeadLines, InvalidatedNeverHit, WouldHit, NoSecondStage
<1> QED BY <1>1, InitOldInv, OldInvStep, PTL DEF Spec

\* With no command that clears everything, no lookup is ever answered from a line
\* that a completed command covers.
THEOREM InvalidatedIsGone ==
  ASSUME Drained, NoSecondStage, NoGpaCommands, \A c \in Commands : ~ClearsAll(c)
  PROVE  Spec => []InvalidatedNeverHit
<1>1. OldInv => InvalidatedNeverHit
  <2> SUFFICES ASSUME OldInv PROVE InvalidatedNeverHit
    OBVIOUS
  <2>1. mode # "GLOBAL"
    BY DEF OldInv, IInv, Types, PipelineTyped, Stages, NoCommand, ClearsAll
  <2> QED BY <2>1 DEF OldInv, DeadLines, InvalidatedNeverHit, WouldHit, NoSecondStage
<1> QED BY <1>1, InitOldInv, OldInvStep, PTL DEF Spec

-----------------------------------------------------------------------------
(* What was read after the last command is hit.                            *)

\* Every entry of the LIB is at or behind the global version, where a line read
\* after the last command is stamped.  A wrap-around breaks both.
NewInv ==
  /\ IInv
  /\ \A t \in DOMAIN lib : lib[t] <= global_vn
  /\ \A k \in Keys : age[k] = "new" => vn[k] = global_vn

LEMMA NewInvIssue ==
  ASSUME LastVn + 1 < VN_MAX, NewInv, NEW c \in Commands, Issue(c)
  PROVE  NewInv'
<1>1. IInv' /\ IInv /\ Idle /\ Issued(c) /\ global_vn <= LastVn
  BY IInvIssue DEF NewInv, Issue
<1>2. \A k \in Keys : age'[k] # "new"
  BY <1>1, IssuedLines DEF IInv, Aged
<1>3. global_vn \in Nat /\ LastVn \in Nat /\ VN_MAX \in Nat
  BY SizesAssumption DEF IInv, Types, LibTyped, NewInv, Versions
<1>4. CASE IssueRange(c) \/ IssueScan(c)
  <2>1. UNCHANGED <<lib, global_vn>>
    BY <1>4 DEF IssueRange, IssueScan, libVars
  <2> QED BY <1>1, <1>2, <2>1 DEF NewInv
<1>5. CASE IssueClear(c)
  <2>1. DOMAIN lib' = {}
    BY <1>5 DEF IssueClear
  <2> QED BY <1>1, <1>2, <2>1 DEF NewInv
<1>6. CASE IssueRecord(c)
  <2>1. /\ lib' = Recorded(LibTag(c), global_vn + 1) /\ global_vn' = global_vn + 1
    BY <1>1, <1>3, <1>6 DEF IssueRecord
  <2>2. \A t \in DOMAIN lib' : lib'[t] <= global_vn'
    <3> SUFFICES ASSUME NEW t \in DOMAIN lib' PROVE lib'[t] <= global_vn'
      OBVIOUS
    <3>1. CASE t = LibTag(c)
      BY <1>3, <2>1, <3>1 DEF Recorded
    <3>2. CASE t # LibTag(c)
      <4>1. t \in DOMAIN lib /\ lib'[t] = lib[t]
        BY <2>1, <3>2 DEF Recorded
      <4>2. lib[t] <= global_vn /\ lib[t] \in Nat
        BY <1>3, <4>1 DEF NewInv, IInv, Types, LibTyped, Versions
      <4> QED BY <1>3, <2>1, <4>1, <4>2
    <3> QED BY <3>1, <3>2
  <2> QED BY <1>1, <1>2, <2>2 DEF NewInv
<1> QED BY <1>4, <1>5, <1>6 DEF Issue

LEMMA NewInvStep ==
  ASSUME LastVn + 1 < VN_MAX
  PROVE  NewInv /\ (mode # "SWEEP") /\ [Next]_vars => NewInv' /\ (mode # "SWEEP")'
<1> SUFFICES ASSUME NewInv, mode # "SWEEP", [Next]_vars PROVE NewInv' /\ (mode # "SWEEP")'
  OBVIOUS
<1>1. IInv'
  BY IInvStep DEF NewInv
<1>2. ASSUME NEW k \in Keys, WalkReads(k) \/ LookupDrops(k)
      PROVE  NewInv' /\ (mode # "SWEEP")'
  BY <1>1, <1>2 DEF NewInv, IInv, Types, LinesTyped, WalkReads, LookupDrops, cacheVars, libVars,
     pipeVars
<1>3. ASSUME NEW k \in Keys, NEW v \in Keys, Fill(k, v)
      PROVE  NewInv' /\ (mode # "SWEEP")'
  BY <1>1, <1>3 DEF NewInv, IInv, Types, LinesTyped, Fill, libVars, pipeVars
<1>4. ASSUME NEW c \in Commands, Issue(c)
      PROVE  NewInv' /\ (mode # "SWEEP")'
  <2>1. global_vn + 1 < VN_MAX
    BY <1>4, SizesAssumption DEF Issue, NewInv, IInv, Types, LibTyped, Versions
  <2>2. mode' # "SWEEP"
    BY <1>4, <2>1, SizesAssumption DEF Issue, IssueRange, IssueClear, IssueScan, IssueRecord,
       GoOver, GoOverPage, NewInv, IInv, Types, LibTyped
  <2> QED BY <1>4, <2>2, NewInvIssue
<1>5. ASSUME NEW r, SubInvalidate(r)
      PROVE  NewInv' /\ (mode # "SWEEP")'
  <2>1. UNCHANGED <<lib, global_vn, mode>>
    BY <1>5 DEF SubInvalidate, libVars
  <2>2. \A k \in Keys : age'[k] = "new" => age[k] = "new" /\ vn'[k] = vn[k]
    BY <1>5 DEF SubInvalidate, NewVn
  <2> QED BY <1>1, <2>1, <2>2 DEF NewInv
<1>6. CASE ToWalker
  BY <1>1, <1>6 DEF ToWalker, cacheVars, libVars, NewInv
<1>7. CASE Complete
  BY <1>1, <1>7 DEF Complete, libVars, Expired, NewInv
<1>8. CASE UNCHANGED vars
  BY <1>1, <1>8 DEF vars, cacheVars, libVars, pipeVars, NewInv
<1> QED BY <1>2, <1>3, <1>4, <1>5, <1>6, <1>7, <1>8 DEF Next

\* The LIB outdates only what was cached before a command, as long as the version
\* counter does not wrap around (lookup_pt_ram, lookup_ram; README section 6).
THEOREM FreshLinesHit ==
  ASSUME LastVn + 1 < VN_MAX
  PROVE  Spec => []NewLineHits
<1>1. Init => NewInv /\ mode # "SWEEP"
  BY InitIInv DEF Init, NewInv
<1>2. NewInv => NewLineHits
  <2> SUFFICES ASSUME NewInv, NEW k \in Keys, age[k] = "new" PROVE WouldHit(k)
    BY DEF NewLineHits
  <2>1. vn[k] \in Nat /\ \A t \in DOMAIN lib : lib[t] \in Nat /\ lib[t] <= vn[k]
    BY SizesAssumption DEF NewInv, IInv, Types, LinesTyped, LibTyped, Versions
  <2> QED BY <2>1 DEF WouldHit, Valid, Masked, Matches
<1> QED BY <1>1, <1>2, NewInvStep, PTL DEF Spec
=============================================================================
