-------------------------- MODULE MmuCached_proofs --------------------------
(* Proofs about the memory management unit: its types, the fault it keeps, *)
(* and that its translation caches are coherent and invisible.             *)
EXTENDS MmuCached, TLAPS

(* A reference has a place in the caches.                                  *)
LEMMA PosType == \A p \in Page, b \in Bn : Pos(p, b) \in Position
  BY DEF Pos, Position, Page

(* A physical address stays in the 22 bit space.                           *)
LEMMA RelocateType ==
  ASSUME TypeOK, NEW p \in Page, NEW b \in Bn
  PROVE  Relocate(p, b) \in Block
<1>1. apr[p].base \in Nat /\ b \in Nat
  BY SpaceAssumption DEF TypeOK, PageRegister, Block, Bn
<1> DEFINE pa == (apr[p].base + b) % Blocks22
<1>2. pa \in 0 .. Blocks22 - 1
  BY <1>1, SpaceAssumption
<1>3. pa % Blocks18 \in 0 .. Blocks18 - 1
  BY <1>2, SpaceAssumption
<1> HIDE DEF pa
<1>4. /\ pa % Blocks18 \in Block
      /\ (pa % Blocks18) + (Blocks22 - Blocks18) \in Block
  BY <1>3, SpaceAssumption DEF Block
<1>5. QED
  BY <1>2, <1>4 DEF Relocate, pa, Block

-----------------------------------------------------------------------------
(* Types.  A reference, whatever comes of it, keeps them.                  *)
LEMMA ReferenceTypes ==
  ASSUME TypeOK, NEW p \in Page, NEW b \in Bn, NEW w \in BOOLEAN,
         Unmapped \/ Abort(p, b, w) \/ Translated(p, b, w)
  PROVE  TypeOK'
<1>1. 0 \in Block /\ Relocate(p, b) \in Block /\ Verdict(p, b, w) \in {"ok"} \cup Freeze
  BY RelocateType, SpaceAssumption DEF Block, Verdict, Freeze
<1>2. CASE Unmapped
  BY <1>1, <1>2 DEF TypeOK, Unmapped, Answer, Result
<1>3. CASE Abort(p, b, w)
  <2>1. fpage' \in Page
    BY <1>3 DEF TypeOK, Abort, Page
  <2>2. QED
    BY <1>1, <1>3, <2>1 DEF TypeOK, Abort, Answer, Result, Freeze, Mmr0Flag
<1>4. CASE Translated(p, b, w)
  <2>1. apr' \in [Page -> PageRegister]
    BY <1>4 DEF TypeOK, Translated, PageRegister, Flag
  <2>2. QED
    BY <1>1, <1>4, <2>1 DEF TypeOK, Translated, Answer, Result
<1>5. QED
  BY <1>2, <1>3, <1>4

LEMMA ConsoleTypes ==
  ASSUME TypeOK, NEW p \in Page, NEW b \in Bn, ConsoleReference(p, b)
  PROVE  TypeOK'
<1>1. 0 \in Block /\ Relocate(p, b) \in Block /\ Verdict(p, b, FALSE) \in {"ok"} \cup Freeze
  BY RelocateType, SpaceAssumption DEF Block, Verdict, Freeze
<1>2. \E res \in Result, block \in Block : out' = [res |-> res, block |-> block]
  <2>1. CASE Enabled
    BY <1>1, <2>1 DEF ConsoleReference, Answer, Result
  <2>2. CASE ~Enabled
    BY <1>1, <2>2 DEF ConsoleReference, Answer, Result
  <2>3. QED
    BY <2>1, <2>2
<1>3. QED
  BY <1>2 DEF TypeOK, ConsoleReference

LEMMA GuestStoreTypes == TypeOK /\ GuestStore => TypeOK'
<1> SUFFICES ASSUME TypeOK, GuestStore PROVE TypeOK'
  OBVIOUS
<1>1. ASSUME NEW data \in Mmr0Data, NEW half \in Half, WriteMMR0(data, half)
      PROVE  TypeOK'
  BY <1>1, DataAssumption DEF TypeOK, WriteMMR0, Mmr0Covered, Mmr0Flag
<1>2. ASSUME NEW data \in SUBSET {"M22E"}, NEW half \in Half, WriteMMR3(data, half)
      PROVE  TypeOK'
  BY <1>2 DEF TypeOK, WriteMMR3
<1>3. ASSUME NEW p \in Guest, NEW flags \in PdrFlags, NEW plf \in PdrLength,
             NEW half \in Half, WritePDR(p, flags, plf, half)
      PROVE  TypeOK'
  <2>1. /\ flags \in SUBSET Flag /\ plf \in Bn
        /\ apr[p].flags \in SUBSET Flag /\ apr[p].plf \in Bn
    BY <1>3, PageAssumption, PdrAssumption DEF TypeOK, PageRegister
  <2>2. apr' \in [Page -> PageRegister]
    BY <1>3, <2>1 DEF TypeOK, WritePDR, PageRegister
  <2>3. QED
    BY <1>3, <2>2 DEF TypeOK, WritePDR
<1>4. ASSUME NEW p \in Guest, NEW base \in ParBase, WritePAR(p, base)
      PROVE  TypeOK'
  BY <1>4, ParAssumption DEF TypeOK, WritePAR, PageRegister
<1>5. QED
  BY <1>1, <1>2, <1>3, <1>4 DEF GuestStore

LEMMA OtherTypes ==
  ASSUME TypeOK,
         \/ \E pc \in Pc : BeginInstruction(pc)
         \/ ResetInstruction \/ CpuReset \/ UNCHANGED mmuVars
  PROVE  TypeOK'
  BY DEF TypeOK, BeginInstruction, ResetInstruction, CpuReset, mmuVars, Page

LEMMA MmuTypesInit == Init => TypeOK
  BY SpaceAssumption DEF Init, TypeOK, Page, PageRegister, Block, Bn, Result

LEMMA MmuTypesStep == TypeOK /\ [Next]_mmuVars => TypeOK'
<1> SUFFICES ASSUME TypeOK, [Next]_mmuVars PROVE TypeOK'
  OBVIOUS
<1>1. ASSUME NEW p \in Page, NEW b \in Bn, Read(p, b) PROVE TypeOK'
  BY <1>1, ReferenceTypes DEF Read
<1>2. ASSUME NEW p \in Page, NEW b \in Bn, Write(p, b) PROVE TypeOK'
  BY <1>2, ReferenceTypes DEF Write
<1>3. QED
  BY <1>1, <1>2, ConsoleTypes, GuestStoreTypes, OtherTypes DEF Next

(* The registers of the unit keep their types.                             *)
THEOREM MmuTypeCorrect == Spec => []TypeOK
  BY MmuTypesInit, MmuTypesStep, PTL DEF Spec

(* The first fault is kept: while an abort flag stays set, no step of the  *)
(* unit changes MMR2 or the page field, so the handler can restart the     *)
(* instruction that aborted first.                                         *)
THEOREM FirstFaultIsKept == Spec => FirstFaultKept
<1>1. ASSUME [Next]_mmuVars, Frozen, mmr0' \cap Freeze # {}
      PROVE  UNCHANGED <<fpage, mmr2>>
  <2> USE <1>1 DEF Frozen, Updating
  <2>1. ASSUME NEW p \in Page, NEW b \in Bn, NEW w \in BOOLEAN,
               Unmapped \/ Abort(p, b, w) \/ Translated(p, b, w) \/ ConsoleReference(p, b)
        PROVE  UNCHANGED <<fpage, mmr2>>
    BY <2>1 DEF Unmapped, Abort, Translated, ConsoleReference
  <2>2. CASE GuestStore
    BY <2>2 DEF GuestStore, WriteMMR0, WriteMMR3, WritePDR, WritePAR
  <2>3. ASSUME NEW pc \in Pc, BeginInstruction(pc) PROVE UNCHANGED <<fpage, mmr2>>
    BY <2>3 DEF BeginInstruction
  <2>4. CASE ResetInstruction \/ CpuReset
    BY <2>4 DEF ResetInstruction, CpuReset
  <2>5. CASE UNCHANGED mmuVars
    BY <2>5 DEF mmuVars
  <2>6. QED
    BY <2>1, <2>2, <2>3, <2>4, <2>5 DEF Next, Read, Write
<1>2. QED
  BY <1>1, PTL DEF Spec, FirstFaultKept

-----------------------------------------------------------------------------
(* Coherence: the conjunction of the types and the two cache properties is *)
(* inductive.                                                              *)

(* Coherence does not depend on MMR2, the abort flags or the result, so a  *)
(* step that leaves the translation and the caches alone preserves it.     *)
LEMMA Undisturbed ==
  ASSUME CachesCoherent, UNCHANGED <<mmr3, apr, rcache, wcache>>, Enabled' => Enabled,
         TypeOK'
  PROVE  CachesCoherent'
<1>1. CacheTypeOK'
  BY DEF CachesCoherent, CacheTypeOK
<1>2. ReadCoherent'
  BY DEF CachesCoherent, ReadCoherent, RHit, Verdict, PastEnd, Relocate, Enabled
<1>3. WriteCoherent'
  BY DEF CachesCoherent, WriteCoherent, WHit, Verdict, PastEnd, Relocate, Enabled
<1>4. QED
  BY <1>1, <1>2, <1>3 DEF CachesCoherent

(* Empty caches are coherent whatever the registers hold.                  *)
LEMMA FlushCoherent ==
  ASSUME Flush, TypeOK'
  PROVE  CachesCoherent'
<1>1. \A s \in Position : rcache'[s].tag = {} /\ wcache'[s].tag = {}
  BY DEF Flush, Empty
<1>2. \A p \in Page, b \in Bn : ~RHit(p, b)' /\ ~WHit(p, b)'
  BY <1>1, PosType DEF RHit, WHit
<1>3. ReadCoherent' /\ WriteCoherent'
  BY <1>2 DEF ReadCoherent, WriteCoherent
<1>4. Empty \in Entry
  BY SpaceAssumption DEF Empty, Entry, Block
<1>5. CacheTypeOK'
  BY <1>4 DEF CacheTypeOK, Flush
<1>6. QED
  BY <1>3, <1>5 DEF CachesCoherent
-----------------------------------------------------------------------------
(* With coherent caches every step is a step of the unit without caches.   *)
LEMMA ReadHitIsTranslated ==
  ASSUME CachesCoherent, NEW p \in Page, NEW b \in Bn, ReadHit(p, b)
  PROVE  Translated(p, b, FALSE)
  BY DEF ReadHit, RHit, CachesCoherent, ReadCoherent, Translated, Answer

LEMMA WriteHitIsTranslated ==
  ASSUME CachesCoherent, NEW p \in Page, NEW b \in Bn, WriteHit(p, b)
  PROVE  Translated(p, b, TRUE)
<1>1. /\ Enabled /\ Verdict(p, b, TRUE) = "ok" /\ "W" \in apr[p].flags
      /\ Answer("ok", Relocate(p, b))
      /\ UNCHANGED <<mmr0, fpage, mmr2, mmr3, apr>>
  BY DEF WriteHit, WHit, CachesCoherent, WriteCoherent, Answer
<1>2. apr[p].flags \cup {"W"} = apr[p].flags
  BY <1>1
<1>3. [apr EXCEPT ![p].flags = apr[p].flags] = apr
  BY DEF CachesCoherent, CacheTypeOK, TypeOK, PageRegister
<1>4. apr' = [apr EXCEPT ![p].flags = @ \cup {"W"}]
  BY <1>1, <1>2, <1>3
<1>5. QED
  BY <1>1, <1>4 DEF Translated

LEMMA CachedStepIsMmuStep == CachesCoherent /\ [CachedNext]_vars => [Next]_mmuVars
<1> SUFFICES ASSUME CachesCoherent, [CachedNext]_vars PROVE [Next]_mmuVars
  OBVIOUS
<1>1. ASSUME NEW p \in Page, NEW b \in Bn, ReadHit(p, b) \/ ReadMiss(p, b)
      PROVE  Read(p, b)
  BY <1>1, ReadHitIsTranslated DEF ReadMiss, Read
<1>2. ASSUME NEW p \in Page, NEW b \in Bn, WriteHit(p, b) \/ WriteMiss(p, b)
      PROVE  Write(p, b)
  BY <1>2, WriteHitIsTranslated DEF WriteMiss, Write
<1>3. CachedGuestStore => GuestStore
  BY DEF CachedGuestStore, GuestStore, CachedWriteMMR0, CachedWriteMMR3,
         CachedWritePDR, CachedWritePAR
<1>4. CASE UNCHANGED vars
  BY <1>4 DEF vars
<1>5. QED
  BY <1>1, <1>2, <1>3, <1>4
     DEF CachedNext, Next, CachedResetInstruction, CachedCpuReset, StartSimulation

-----------------------------------------------------------------------------
(* What a read that misses puts in the cache is what it computed.          *)
LEMMA ReadMissCoherent ==
  ASSUME CachesCoherent, NEW p \in Page, NEW b \in Bn, ReadMiss(p, b), TypeOK'
  PROVE  CachesCoherent'
<1>1. CASE (Unmapped \/ Abort(p, b, FALSE)) /\ UNCHANGED cacheVars
  BY <1>1, Undisturbed DEF Unmapped, Abort, cacheVars, Enabled
<1>2. ASSUME Translated(p, b, FALSE),
             rcache' = [rcache EXCEPT ![Pos(p, b)] =
                          [tag |-> {<<p, b>>}, pa |-> Relocate(p, b)]],
             UNCHANGED wcache
      PROVE  CachesCoherent'
  <2>1. UNCHANGED <<mmr0, mmr3, apr>> /\ Verdict(p, b, FALSE) = "ok"
    BY <1>2 DEF Translated
  <2>2. [tag |-> {<<p, b>>}, pa |-> Relocate(p, b)] \in Entry
    BY RelocateType DEF CachesCoherent, CacheTypeOK, Entry
  <2>3. CacheTypeOK'
    BY <1>2, <2>2 DEF CachesCoherent, CacheTypeOK
  <2>4. WriteCoherent'
    BY <1>2, <2>1 DEF CachesCoherent, WriteCoherent, WHit, Verdict, PastEnd, Relocate, Enabled
  <2>5. ASSUME NEW q \in Page, NEW c \in Bn, Enabled', RHit(q, c)'
        PROVE  Verdict(q, c, FALSE)' = "ok" /\ rcache'[Pos(q, c)].pa = Relocate(q, c)'
    <3>1. /\ Verdict(q, c, FALSE)' = Verdict(q, c, FALSE)
          /\ Relocate(q, c)' = Relocate(q, c)
          /\ Enabled' <=> Enabled
      BY <2>1 DEF Verdict, PastEnd, Relocate, Enabled
    <3>2. CASE Pos(q, c) = Pos(p, b)
      <4>1. rcache'[Pos(q, c)] = [tag |-> {<<p, b>>}, pa |-> Relocate(p, b)]
        BY <1>2, <3>2, PosType DEF CachesCoherent, CacheTypeOK
      <4>2. q = p /\ c = b
        BY <2>5, <4>1 DEF RHit
      <4>3. rcache'[Pos(q, c)].pa = Relocate(q, c)
        BY <4>1, <4>2
      <4>4. Verdict(q, c, FALSE) = "ok"
        BY <2>1, <4>2
      <4>5. QED
        BY <3>1, <4>3, <4>4
    <3>3. CASE Pos(q, c) # Pos(p, b)
      <4>1. rcache'[Pos(q, c)] = rcache[Pos(q, c)]
        BY <1>2, <3>3, PosType DEF CachesCoherent, CacheTypeOK
      <4>2. RHit(q, c) /\ Enabled
        BY <2>5, <3>1, <4>1 DEF RHit
      <4>3. QED
        BY <3>1, <4>1, <4>2 DEF CachesCoherent, ReadCoherent
    <3>4. QED
      BY <3>2, <3>3
  <2>6. ReadCoherent'
    BY <2>5 DEF ReadCoherent
  <2>7. QED
    BY <2>3, <2>4, <2>6 DEF CachesCoherent
<1>3. QED
  BY <1>1, <1>2 DEF ReadMiss

(* The W that a translated write sets does not decide any later reference. *)
LEMMA TranslatedWriteFrame ==
  ASSUME TypeOK, NEW p \in Page, NEW b \in Bn, Translated(p, b, TRUE),
         NEW q \in Page, NEW c \in Bn
  PROVE  /\ Enabled' <=> Enabled
         /\ Relocate(q, c)' = Relocate(q, c)
         /\ Verdict(q, c, FALSE)' = Verdict(q, c, FALSE)
         /\ Verdict(q, c, TRUE)' = Verdict(q, c, TRUE)
         /\ "W" \in apr[q].flags \/ q = p => "W" \in apr'[q].flags
<1>1. /\ UNCHANGED <<mmr0, mmr3>>
      /\ apr' = [apr EXCEPT ![p].flags = @ \cup {"W"}]
  BY DEF Translated
<1>2. /\ apr'[q].plf = apr[q].plf /\ apr'[q].base = apr[q].base
      /\ apr'[q].flags = IF q = p THEN apr[q].flags \cup {"W"} ELSE apr[q].flags
  BY <1>1 DEF TypeOK, PageRegister
<1>3. \A f \in {"NR", "WE", "ED"} : f \in apr'[q].flags <=> f \in apr[q].flags
  BY <1>2
<1>4. Relocate(q, c)' = Relocate(q, c)
  BY <1>1, <1>2 DEF Relocate
<1>5. PastEnd(q, c)' <=> PastEnd(q, c)
  BY <1>2, <1>3 DEF PastEnd
<1>6. QED
  BY <1>1, <1>2, <1>3, <1>4, <1>5 DEF Verdict, Enabled

LEMMA WriteMissCoherent ==
  ASSUME CachesCoherent, NEW p \in Page, NEW b \in Bn, WriteMiss(p, b), TypeOK'
  PROVE  CachesCoherent'
<1>1. CASE (Unmapped \/ Abort(p, b, TRUE)) /\ UNCHANGED cacheVars
  BY <1>1, Undisturbed DEF Unmapped, Abort, cacheVars, Enabled
<1>2. ASSUME Translated(p, b, TRUE),
             wcache' = [wcache EXCEPT ![Pos(p, b)] =
                          [tag |-> {<<p, b>>}, pa |-> Relocate(p, b)]],
             UNCHANGED rcache
      PROVE  CachesCoherent'
  <2>1. Verdict(p, b, TRUE) = "ok" /\ TypeOK
    BY <1>2 DEF Translated, CachesCoherent, CacheTypeOK
  <2>2. [tag |-> {<<p, b>>}, pa |-> Relocate(p, b)] \in Entry
    BY RelocateType DEF CachesCoherent, CacheTypeOK, Entry
  <2>3. CacheTypeOK'
    BY <1>2, <2>2 DEF CachesCoherent, CacheTypeOK
  <2>4. ReadCoherent'
    BY <1>2, <2>1, TranslatedWriteFrame DEF CachesCoherent, ReadCoherent, RHit
  <2>5. ASSUME NEW q \in Page, NEW c \in Bn, Enabled', WHit(q, c)'
        PROVE  /\ Verdict(q, c, TRUE)' = "ok"
               /\ wcache'[Pos(q, c)].pa = Relocate(q, c)'
               /\ "W" \in apr'[q].flags
    <3>1. /\ Verdict(q, c, TRUE)' = Verdict(q, c, TRUE)
          /\ Relocate(q, c)' = Relocate(q, c)
          /\ Enabled' <=> Enabled
          /\ "W" \in apr[q].flags \/ q = p => "W" \in apr'[q].flags
      BY <1>2, <2>1, TranslatedWriteFrame
    <3>2. CASE Pos(q, c) = Pos(p, b)
      <4>1. wcache'[Pos(q, c)] = [tag |-> {<<p, b>>}, pa |-> Relocate(p, b)]
        BY <1>2, <3>2, PosType DEF CachesCoherent, CacheTypeOK
      <4>2. q = p /\ c = b
        BY <2>5, <4>1 DEF WHit
      <4>3. wcache'[Pos(q, c)].pa = Relocate(q, c)
        BY <4>1, <4>2
      <4>4. Verdict(q, c, TRUE) = "ok"
        BY <2>1, <4>2
      <4>5. QED
        BY <3>1, <4>2, <4>3, <4>4
    <3>3. CASE Pos(q, c) # Pos(p, b)
      <4>1. wcache'[Pos(q, c)] = wcache[Pos(q, c)]
        BY <1>2, <3>3, PosType DEF CachesCoherent, CacheTypeOK
      <4>2. WHit(q, c) /\ Enabled
        BY <2>5, <3>1, <4>1 DEF WHit
      <4>3. QED
        BY <3>1, <4>1, <4>2 DEF CachesCoherent, WriteCoherent
    <3>4. QED
      BY <3>2, <3>3
  <2>6. WriteCoherent'
    BY <2>5 DEF WriteCoherent
  <2>7. QED
    BY <2>3, <2>4, <2>6 DEF CachesCoherent
<1>3. QED
  BY <1>1, <1>2 DEF WriteMiss

LEMMA CoherentInit == CachedInit => CachesCoherent
<1> SUFFICES ASSUME CachedInit PROVE CachesCoherent
  OBVIOUS
<1>1. ~Enabled /\ TypeOK
  BY MmuTypesInit DEF CachedInit, Init, Enabled
<1>2. Empty \in Entry
  BY SpaceAssumption DEF Empty, Entry, Block
<1>3. CacheTypeOK
  BY <1>1, <1>2 DEF CacheTypeOK, CachedInit
<1>4. QED
  BY <1>1, <1>3 DEF CachesCoherent, ReadCoherent, WriteCoherent

LEMMA CoherentStep == CachesCoherent /\ [CachedNext]_vars => CachesCoherent'
<1> SUFFICES ASSUME CachesCoherent, [CachedNext]_vars PROVE CachesCoherent'
  OBVIOUS
<1>1. TypeOK'
  BY CachedStepIsMmuStep, MmuTypesStep DEF CachesCoherent, CacheTypeOK
<1>2. ASSUME NEW p \in Page, NEW b \in Bn, ReadHit(p, b) \/ WriteHit(p, b)
      PROVE  CachesCoherent'
  BY <1>1, <1>2, Undisturbed DEF ReadHit, WriteHit, cacheVars, Enabled
<1>3. ASSUME NEW p \in Page, NEW b \in Bn, ReadMiss(p, b) \/ WriteMiss(p, b)
      PROVE  CachesCoherent'
  BY <1>1, <1>3, ReadMissCoherent, WriteMissCoherent
<1>4. ASSUME NEW p \in Page, NEW b \in Bn,
             ConsoleReference(p, b) /\ UNCHANGED cacheVars
      PROVE  CachesCoherent'
  BY <1>1, <1>4, Undisturbed DEF ConsoleReference, cacheVars, Enabled
<1>5. ASSUME NEW pc \in Pc, BeginInstruction(pc) /\ UNCHANGED cacheVars
      PROVE  CachesCoherent'
  BY <1>1, <1>5, Undisturbed DEF BeginInstruction, cacheVars, Enabled
<1>6. CASE CachedGuestStore \/ StartSimulation
  BY <1>1, <1>6, FlushCoherent
     DEF CachedGuestStore, StartSimulation, CachedWriteMMR0, CachedWriteMMR3,
         CachedWritePDR, CachedWritePAR
<1>7. CASE CachedResetInstruction \/ CachedCpuReset
  <2>1. ~Enabled' /\ UNCHANGED cacheVars
    BY <1>7 DEF CachedResetInstruction, CachedCpuReset, ResetInstruction, CpuReset, Enabled
  <2>2. CacheTypeOK'
    BY <1>1, <2>1 DEF CachesCoherent, CacheTypeOK, cacheVars
  <2>3. QED
    BY <2>1, <2>2 DEF CachesCoherent, ReadCoherent, WriteCoherent
<1>8. CASE UNCHANGED vars
  BY <1>1, <1>8, Undisturbed DEF vars, mmuVars, cacheVars, Enabled
<1>9. QED
  BY <1>2, <1>3, <1>4, <1>5, <1>6, <1>7, <1>8 DEF CachedNext

(* No entry of either cache ever differs from what the page registers now  *)
(* say, through every store, flush, abort and reset.                       *)
THEOREM CachesStayCoherent == CachedSpec => []CachesCoherent
  BY CoherentInit, CoherentStep, PTL DEF CachedSpec

(* A hit in the read cache is what a translation now would answer, for any *)
(* size of the caches, any page layout and whatever the guest writes.      *)
THEOREM ReadCacheCoherent == CachedSpec => []ReadCoherent
  BY CachesStayCoherent, PTL DEF CachesCoherent

(* A hit in the write cache is what a translation now would answer, and    *)
(* its page is already marked as written.                                  *)
THEOREM WriteCacheCoherent == CachedSpec => []WriteCoherent
  BY CachesStayCoherent, PTL DEF CachesCoherent

(* The unit with caches implements the unit without.                       *)
THEOREM CachesAreInvisible == CachedSpec => UncachedSpec
<1>1. CachedInit => Init
  BY DEF CachedInit
<1>2. QED
  BY <1>1, CachedStepIsMmuStep, CachesStayCoherent, PTL DEF CachedSpec, UncachedSpec, Spec
=============================================================================
