------------------------------ MODULE MmuCached ------------------------------
(***************************************************************************)
(* The translation caches in front of the memory management unit: av, ap   *)
(* for reads and avW, apW for writes (MM_CACHE in                          *)
(* src/src/simh/pdp11_cpu.c).  A hit skips every check of relocR or relocW *)
(* and does not set W; what makes this correct is when the caches are      *)
(* emptied.                                                                *)
(***************************************************************************)
EXTENDS Mmu

CONSTANT CacheBit   \* bits of a page index that are part of a cache position

ASSUME CacheAssumption == CacheBit \subseteq IndexBit

VARIABLES
  rcache,  \* av and ap
  wcache   \* avW and apW

cacheVars == <<rcache, wcache>>
vars == <<mmuVars, cacheVars>>

(* va_block & MM_CACHE_MASK.                                               *)
Position == (SUBSET CacheBit) \X Bn
Pos(p, b) == <<p \cap CacheBit, b>>

(* The tag of an entry is a set: the reference it answers, or nothing (the *)
(* tag ~0, which is the va_block of no reference).                         *)
Empty == [tag |-> {}, pa |-> 0]
Entry == [tag : {{v} : v \in Page \X Bn} \cup {{}}, pa : Block]

CacheTypeOK ==
  /\ TypeOK
  /\ rcache \in [Position -> Entry]
  /\ wcache \in [Position -> Entry]

Flush == rcache' = [s \in Position |-> Empty] /\ wcache' = [s \in Position |-> Empty]

CachedInit ==
  /\ Init
  /\ rcache = [s \in Position |-> Empty]
  /\ wcache = [s \in Position |-> Empty]

-----------------------------------------------------------------------------
RHit(p, b) == Enabled /\ <<p, b>> \in rcache[Pos(p, b)].tag
WHit(p, b) == Enabled /\ <<p, b>> \in wcache[Pos(p, b)].tag

(* relocR.                                                                 *)
ReadHit(p, b) ==
  /\ RHit(p, b)
  /\ Answer("ok", rcache[Pos(p, b)].pa)
  /\ UNCHANGED <<mmr0, fpage, mmr2, mmr3, apr, cacheVars>>

(* Slip: the tag is stored before the checks, so that it survives an abort.*)
ReadMiss_TagFirst(p, b) ==
  /\ ~RHit(p, b)
  /\ \/ Unmapped /\ UNCHANGED cacheVars
     \/ /\ Abort(p, b, FALSE) \/ Translated(p, b, FALSE)
        /\ rcache' = [rcache EXCEPT ![Pos(p, b)] =
                        [tag |-> {<<p, b>>}, pa |-> Relocate(p, b)]]
        /\ UNCHANGED wcache

ReadMiss(p, b) ==
  /\ ~RHit(p, b)
  /\ \/ (Unmapped \/ Abort(p, b, FALSE)) /\ UNCHANGED cacheVars
     \/ /\ Translated(p, b, FALSE)
        /\ rcache' = [rcache EXCEPT ![Pos(p, b)] =
                        [tag |-> {<<p, b>>}, pa |-> Relocate(p, b)]]
        /\ UNCHANGED wcache

(* relocW.                                                                 *)
WriteHit(p, b) ==
  /\ WHit(p, b)
  /\ Answer("ok", wcache[Pos(p, b)].pa)
  /\ UNCHANGED <<mmr0, fpage, mmr2, mmr3, apr, cacheVars>>

WriteMiss(p, b) ==
  /\ ~WHit(p, b)
  /\ \/ (Unmapped \/ Abort(p, b, TRUE)) /\ UNCHANGED cacheVars
     \/ /\ Translated(p, b, TRUE)
        /\ wcache' = [wcache EXCEPT ![Pos(p, b)] =
                        [tag |-> {<<p, b>>}, pa |-> Relocate(p, b)]]
        /\ UNCHANGED rcache

(* Slip: this write does not empty the caches.                             *)
CachedWriteMMR3_NoFlush(data, half) == WriteMMR3(data, half) /\ UNCHANGED cacheVars

(* Writes to MMR0, MMR3 and the page registers empty the caches.           *)
CachedWriteMMR0(data, half) == WriteMMR0(data, half) /\ Flush
CachedWriteMMR3(data, half) == WriteMMR3(data, half) /\ Flush
CachedWritePDR(p, flags, plf, half) == WritePDR(p, flags, plf, half) /\ Flush
CachedWritePAR(p, base) == WritePAR(p, base) /\ Flush

CachedGuestStore ==
  \/ \E data \in Mmr0Data, half \in Half : CachedWriteMMR0(data, half)
  \/ \E data \in SUBSET {"M22E"}, half \in Half : CachedWriteMMR3(data, half)
  \/ \E p \in Guest, flags \in PdrFlags, plf \in PdrLength, half \in Half :
       CachedWritePDR(p, flags, plf, half)
  \/ \E p \in Guest, base \in ParBase : CachedWritePAR(p, base)

(* RESET changes MMR0 and MMR3 and leaves the caches as they are.          *)
CachedResetInstruction == ResetInstruction /\ UNCHANGED cacheVars
CachedCpuReset == CpuReset /\ UNCHANGED cacheVars

(* sim_instr starts: mm_cache_init.                                        *)
StartSimulation == Flush /\ UNCHANGED mmuVars

CachedNext ==
  \/ \E p \in Page, b \in Bn :
       \/ ReadHit(p, b)
       \/ ReadMiss(p, b)
       \/ WriteHit(p, b)
       \/ WriteMiss(p, b)
       \/ ConsoleReference(p, b) /\ UNCHANGED cacheVars
  \/ \E pc \in Pc : BeginInstruction(pc) /\ UNCHANGED cacheVars
  \/ CachedGuestStore
  \/ CachedResetInstruction
  \/ CachedCpuReset
  \/ StartSimulation

CachedSpec == CachedInit /\ [][CachedNext]_vars

-----------------------------------------------------------------------------
(* While management is on, what a read would find in the cache is what a   *)
(* translation now would compute.                                          *)
ReadCoherent ==
  Enabled => \A p \in Page, b \in Bn :
    RHit(p, b) => /\ Verdict(p, b, FALSE) = "ok"
                  /\ rcache[Pos(p, b)].pa = Relocate(p, b)

(* The same for writes, which moreover have already marked their page.     *)
WriteCoherent ==
  Enabled => \A p \in Page, b \in Bn :
    WHit(p, b) => /\ Verdict(p, b, TRUE) = "ok"
                  /\ wcache[Pos(p, b)].pa = Relocate(p, b)
                  /\ "W" \in apr[p].flags

(* Both caches are coherent, whatever was written, flushed or aborted.     *)
CachesCoherent == CacheTypeOK /\ ReadCoherent /\ WriteCoherent

(* The caches are invisible: with them the unit behaves like one without.  *)
UncachedSpec == Spec
=============================================================================
