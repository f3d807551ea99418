---------------------------- MODULE MemMgrProofs ----------------------------
(***************************************************************************)
(* The MCB chain of MemMgr stays intact, for every memory size, position   *)
(* of upper memory, set of programs and set of request sizes.              *)
(***************************************************************************)
EXTENDS MemMgr, TLAPS

\* The assumptions on the constants that the proofs below need.
LEMMA Constants ==
  /\ FirstMcb \in Nat /\ FirstMcb > 0 /\ Top \in Nat /\ FFFF \in Nat /\ Top < FFFF
  /\ SysParas \in Nat /\ BridgeParas \in Nat /\ FirstMcb + SysParas + 1 < Top
  /\ Psps \subseteq Nat /\ FREE_PSP \notin Psps /\ SYS \notin Psps
  /\ FREE_PSP \in Nat /\ SYS \in Nat /\ FREE_PSP # SYS
  BY MemAssumption DEF MemAssumption, FREE_PSP, SYS

\* Every chained header lies within memory, looks valid and, unless it ends the
\* chain, is followed by a chained header.
LEMMA NextHead ==
  ASSUME MemTypeOK, Tiles, Terminated, NEW h \in heads
  PROVE  /\ h \in Nat /\ h \in Para /\ m_size[h] \in Nat /\ nxtMCB(h) \in Nat
         /\ h < nxtMCB(h) /\ nxtMCB(h) <= Top
         /\ mcbValid(h)
         /\ m_type[h] = "M" => nxtMCB(h) \in heads
<1>1. /\ h \in Nat /\ h \in Para /\ m_size[h] \in Nat /\ m_size[h] < Top
      /\ \A g \in heads : g \in Nat /\ g < Top
  BY Constants DEF MemTypeOK, Tiles, Para
<1>2. /\ nxtMCB(h) \in Nat /\ h < nxtMCB(h) /\ nxtMCB(h) <= Top
  BY <1>1, Constants DEF Tiles, nxtMCB
<1>3. m_type[h] \in {"M", "Z"} /\ (m_type[h] = "M" => nxtMCB(h) \in heads)
  BY DEF Tiles, Terminated
<1> QED BY <1>1, <1>2, <1>3, Constants DEF mcbValid, mcbFreeable, FAKE

\* A change of owner alone, away from the system's blocks, keeps the chain.
LEMMA OwnerChange ==
  ASSUME MemTypeOK, ChainIntact, NEW s \in Para, m_psp[s] # SYS,
         NEW o \in Nat, s \in heads \/ o = FREE_PSP,
         m_psp' = [m_psp EXCEPT ![s] = o],
         UNCHANGED <<m_type, m_size, heads, uppermem_root, uppermem_link>>
  PROVE  MemTypeOK' /\ ChainIntact'
<1>1. MemTypeOK' /\ \A g \in Para : g # s => m_psp'[g] = m_psp[g]
  BY DEF MemTypeOK
<1>2. Tiles' /\ Terminated'
  BY DEF ChainIntact, Tiles, Terminated, nxtMCB
<1>3. SystemBlocks'
  BY <1>1 DEF ChainIntact, SystemBlocks, HasUmb, MemTypeOK
<1>4. StaleHeaders'
  BY <1>1 DEF ChainIntact, StaleHeaders, mcbFreeable, MemTypeOK
<1> QED BY <1>1, <1>2, <1>3, <1>4 DEF ChainIntact

\* A turn of joinMCBs keeps the chain; it touches nothing below h, and h keeps
\* its owner.
LEMMA JoinKeepsChain ==
  ASSUME MemTypeOK, ChainIntact, NEW h \in heads, joinable(h), joinMCBs(h),
         UNCHANGED <<uppermem_root, uppermem_link>>
  PROVE  /\ MemTypeOK' /\ ChainIntact'
         /\ h \in heads' /\ m_psp' = m_psp
         /\ \A g \in heads : g < h => g \in heads' /\ m_size'[g] = m_size[g]
<1> DEFINE q == nxtMCB(h)
<1>1. /\ h \in Nat /\ h \in Para /\ m_size[h] \in Nat
      /\ q \in heads /\ h < q /\ q \in Nat /\ q \in Para /\ m_size[q] \in Nat
      /\ m_type[h] = "M" /\ m_psp[q] = FREE_PSP
      /\ q = h + m_size[h] + 1 /\ q = nxtMCB(h)
  BY NextHead DEF ChainIntact, joinable, mcbFree, nxtMCB
<1>1a. nxtMCB(q) <= Top /\ nxtMCB(q) = q + m_size[q] + 1
  BY <1>1, NextHead DEF ChainIntact, nxtMCB
<1>1b. m_size[h] + m_size[q] + 1 \in Nat /\ m_size[h] + m_size[q] + 1 < Top
  BY <1>1, <1>1a, Constants
<1>2. /\ m_type' = [m_type EXCEPT ![h] = m_type[q]]
      /\ m_size' = [m_size EXCEPT ![h] = m_size[h] + m_size[q] + 1, ![q] = FAKE]
      /\ m_psp' = m_psp
      /\ heads' = heads \ {q}
  BY DEF joinMCBs
<1> HIDE DEF q
<1>3. /\ MemTypeOK'
      /\ m_type'[h] = m_type[q] /\ m_size'[h] = m_size[h] + m_size[q] + 1
      /\ m_size'[q] = FAKE
      /\ \A g \in Para : g # h => m_type'[g] = m_type[g]
      /\ \A g \in Para : g # h /\ g # q => m_size'[g] = m_size[g]
  <2>1. m_size[h] + m_size[q] + 1 \in 0..FFFF /\ FAKE \in 0..FFFF
    BY <1>1b, Constants DEF FAKE
  <2>2. m_type' \in [Para -> {"M", "Z", "-"}] /\ m_type'[h] = m_type[q]
        /\ \A g \in Para : g # h => m_type'[g] = m_type[g]
    BY <1>1, <1>2 DEF MemTypeOK
  <2>3. m_size' \in [Para -> 0..FFFF]
        /\ m_size'[h] = m_size[h] + m_size[q] + 1 /\ m_size'[q] = FAKE
        /\ \A g \in Para : g # h /\ g # q => m_size'[g] = m_size[g]
    BY <1>1, <2>1, <1>2 DEF MemTypeOK
  <2> QED BY <2>2, <2>3, <1>2 DEF MemTypeOK
<1>4. heads' \subseteq heads /\ heads \subseteq Para /\ h \in heads' /\ Top \in Nat
  BY <1>1, <1>2, Constants DEF MemTypeOK
<1>5. /\ \A g \in heads' : g # h => nxtMCB(g)' = nxtMCB(g)
      /\ nxtMCB(h)' = nxtMCB(q)
  <2>1. nxtMCB(h)' = nxtMCB(q)
    BY <1>1, <1>1a, <1>3 DEF nxtMCB
  <2>2. \A g \in heads' : g # h => m_size'[g] = m_size[g]
    BY <1>2, <1>3, <1>4
  <2> QED BY <2>1, <2>2 DEF nxtMCB
<1>6. Tiles'
  <2>1. FirstMcb \in heads'
    BY <1>1, <1>2, Constants DEF ChainIntact, SystemBlocks
  <2>2. ASSUME NEW g \in heads'
        PROVE  m_size'[g] < Top /\ nxtMCB(g)' \in heads' \cup {Top}
    <3>1. CASE g = h
      <4>1. nxtMCB(q) \in heads \cup {Top} /\ nxtMCB(q) # q
        BY <1>1, <1>1a DEF ChainIntact, Tiles
      <4>2. m_size'[h] < Top
        BY <1>1b, <1>3
      <4> QED BY <3>1, <4>1, <4>2, <1>2, <1>5
    <3>2. CASE g # h
      <4>1. g \in heads /\ g \in Para /\ g \in Nat /\ m_size'[g] = m_size[g] /\ g # q
        <5>1. g \in heads /\ g \in Para /\ g # q
          BY <1>2, <1>4
        <5>2. \A x \in Para : x \in Nat
          BY Constants DEF Para
        <5> QED BY <5>1, <5>2, <3>2, <1>3
      <4>2. nxtMCB(g) # q
        <5>1. CASE g < h
          BY <5>1, <4>1, <1>1 DEF ChainIntact, Tiles
        <5>2. CASE g > h
          BY <5>2, <4>1, <1>1, NextHead DEF ChainIntact, Tiles
        <5> QED BY <5>1, <5>2, <3>2, <4>1, <1>1
      <4> QED BY <3>2, <4>1, <4>2, <1>2, <1>5 DEF ChainIntact, Tiles
    <3> QED BY <3>1, <3>2
  <2>3. ASSUME NEW g \in heads', NEW k \in heads', k > g
        PROVE  k >= nxtMCB(g)'
    <3>0. g \in heads /\ k \in heads /\ k # q /\ k \in Nat
      BY <1>2, <1>4, Constants DEF Para
    <3>1. CASE g = h
      <4>1. k >= q
        BY <3>0, <3>1, <2>3, <1>1 DEF ChainIntact, Tiles
      <4>2. k >= nxtMCB(q)
        BY <4>1, <3>0, <1>1 DEF ChainIntact, Tiles
      <4> QED BY <4>2, <3>1, <1>5
    <3>2. CASE g # h
      BY <3>0, <3>2, <2>3, <1>5 DEF ChainIntact, Tiles
    <3> QED BY <3>1, <3>2
  <2> QED BY <2>1, <2>2, <2>3 DEF Tiles
<1>7. Terminated'
  <2> SUFFICES ASSUME NEW g \in heads'
               PROVE  m_type'[g] = IF nxtMCB(g)' = Top \/ (uppermem_link' = 0 /\ nxtMCB(g)' = uppermem_root')
                                   THEN "Z" ELSE "M"
    BY DEF Terminated
  <2>1. CASE g = h
    BY <2>1, <1>1, <1>3, <1>5 DEF ChainIntact, Terminated
  <2>2. CASE g # h
    BY <2>2, <1>3, <1>4, <1>5 DEF ChainIntact, Terminated
  <2> QED BY <2>1, <2>2
<1>8. SystemBlocks'
  BY <1>1, <1>2, Constants DEF ChainIntact, SystemBlocks, HasUmb
<1>9. StaleHeaders'
  <2> SUFFICES ASSUME NEW s \in Para, s \notin heads'
               PROVE  m_psp[s] = FREE_PSP /\ (m_type'[s] \in {"M", "Z"} => m_size'[s] = FAKE)
    BY <1>2 DEF StaleHeaders, mcbFreeable
  <2>1. CASE s = q
    BY <2>1, <1>1, <1>3
  <2>2. CASE s # q
    <3>1. s \notin heads /\ s # h
      BY <2>2, <1>2
    <3> QED BY <3>1, <2>2, <1>3 DEF ChainIntact, StaleHeaders, mcbFreeable
  <2> QED BY <2>1, <2>2
<1>10. ASSUME NEW g \in heads, g < h PROVE g \in heads' /\ m_size'[g] = m_size[g]
  <2>1. g \in Nat /\ g \in Para
    BY NextHead DEF ChainIntact
  <2>2. g # h /\ g # q
    BY <1>10, <2>1, <1>1
  <2> QED BY <2>1, <2>2, <1>2, <1>3
<1> QED BY <1>2, <1>3, <1>4, <1>6, <1>7, <1>8, <1>9, <1>10 DEF ChainIntact

\* Cutting a block in two keeps the chain; the parts are chained.
LEMMA SplitKeepsChain ==
  ASSUME MemTypeOK, ChainIntact, NEW h \in heads, m_psp[h] # SYS,
         NEW n \in Nat, n < m_size[h], NEW low \in Nat, NEW high \in Nat,
         Split(h, n, low, high), UNCHANGED <<uppermem_root, uppermem_link>>
  PROVE  /\ MemTypeOK' /\ ChainIntact'
         /\ h \in heads' /\ h + n + 1 \in heads' /\ h < h + n + 1
         /\ m_psp'[h] = low /\ m_psp'[h + n + 1] = high
<1> DEFINE q == h + n + 1
<1>1. /\ h \in Nat /\ h \in Para /\ m_size[h] \in Nat /\ q \in Nat /\ h < q
      /\ q < nxtMCB(h) /\ nxtMCB(h) <= Top /\ nxtMCB(h) = h + m_size[h] + 1
      /\ m_size[h] < Top
  BY NextHead, Constants DEF ChainIntact, Tiles, nxtMCB
<1>2. q \in Para /\ \A x \in Para : x \in Nat
  BY <1>1, Constants DEF Para
<1>3. /\ m_type' = [m_type EXCEPT ![h] = "M", ![q] = m_type[h]]
      /\ m_size' = [m_size EXCEPT ![h] = n, ![q] = m_size[h] - n - 1]
      /\ m_psp' = [m_psp EXCEPT ![h] = low, ![q] = high]
      /\ heads' = heads \cup {q}
  BY DEF Split
<1>4. n \in 0..FFFF /\ m_size[h] - n - 1 \in 0..FFFF /\ q + (m_size[h] - n - 1) + 1 = nxtMCB(h)
      /\ m_size[h] - n - 1 < Top /\ n < Top
  BY <1>1, Constants
<1>5. q \notin heads
  BY <1>1 DEF ChainIntact, Tiles
<1> HIDE DEF q
<1>6. m_type' \in [Para -> {"M", "Z", "-"}] /\ m_type'[h] = "M" /\ m_type'[q] = m_type[h]
      /\ \A g \in Para : g # h /\ g # q => m_type'[g] = m_type[g]
  BY <1>1, <1>2, <1>3 DEF MemTypeOK
<1>7. m_size' \in [Para -> 0..FFFF] /\ m_size'[h] = n /\ m_size'[q] = m_size[h] - n - 1
      /\ \A g \in Para : g # h /\ g # q => m_size'[g] = m_size[g]
  BY <1>1, <1>2, <1>3, <1>4 DEF MemTypeOK
<1>8. m_psp' \in [Para -> Nat] /\ m_psp'[h] = low /\ m_psp'[q] = high
      /\ \A g \in Para : g # h /\ g # q => m_psp'[g] = m_psp[g]
  BY <1>1, <1>2, <1>3 DEF MemTypeOK
<1>9. MemTypeOK' /\ heads \subseteq Para
  BY <1>2, <1>3, <1>6, <1>7, <1>8 DEF MemTypeOK
<1>10. /\ nxtMCB(h)' = q /\ nxtMCB(q)' = nxtMCB(h)
       /\ \A g \in heads : g # h => nxtMCB(g)' = nxtMCB(g)
  <2>1. nxtMCB(h)' = q
    BY <1>7 DEF nxtMCB, q
  <2>2. nxtMCB(q)' = nxtMCB(h)
    <3>1. nxtMCB(q)' = q + m_size'[q] + 1
      BY DEF nxtMCB
    <3> QED BY <3>1, <1>7, <1>4
  <2>3. \A g \in heads : g # h => m_size'[g] = m_size[g]
    BY <1>5, <1>7, <1>9
  <2> QED BY <2>1, <2>2, <2>3 DEF nxtMCB
<1>11. Tiles'
  <2>1. FirstMcb \in heads'
    BY <1>3 DEF ChainIntact, Tiles
  <2>2. ASSUME NEW g \in heads'
        PROVE  m_size'[g] < Top /\ nxtMCB(g)' \in heads' \cup {Top}
    <3>1. CASE g = h
      BY <3>1, <1>3, <1>4, <1>7, <1>10
    <3>2. CASE g = q
      BY <3>2, <1>3, <1>4, <1>7, <1>10 DEF ChainIntact, Tiles
    <3>3. CASE g # h /\ g # q
      <4>1. g \in heads /\ g \in Para /\ m_size'[g] = m_size[g]
        BY <3>3, <1>3, <1>7, <1>9
      <4> QED BY <3>3, <4>1, <1>3, <1>10 DEF ChainIntact, Tiles
    <3> QED BY <3>1, <3>2, <3>3
  <2>3. ASSUME NEW g \in heads', NEW k \in heads', k > g
        PROVE  k >= nxtMCB(g)'
    <3>0. /\ g \in heads \/ g = q
          /\ k \in heads \/ k = q
          /\ \A x \in heads : x \in Nat /\ x \in Para
      BY <1>2, <1>3, <1>9
    <3>1. CASE g = h
      <4>1. CASE k = q
        BY <4>1, <3>1, <1>1, <1>10
      <4>2. CASE k \in heads
        <5>1. k >= nxtMCB(h) /\ k \in Nat
          BY <4>2, <3>0, <3>1, <2>3 DEF ChainIntact, Tiles
        <5> QED BY <5>1, <3>1, <1>1, <1>10
      <4> QED BY <4>1, <4>2, <3>0
    <3>2. CASE g = q
      <4>0. k # q
        BY <3>2, <2>3, <1>2
      <4>1. k \in heads /\ k \in Nat /\ k > h
        <5>1. k \in heads /\ k \in Nat
          BY <4>0, <3>0
        <5> QED BY <5>1, <3>2, <2>3, <1>1
      <4>2. k >= nxtMCB(h)
        BY <4>1 DEF ChainIntact, Tiles
      <4> QED BY <4>2, <3>2, <1>10
    <3>3. CASE g # h /\ g # q
      <4>1. g \in heads /\ g \in Nat /\ nxtMCB(g)' = nxtMCB(g) /\ nxtMCB(g) \in Nat
        BY <3>0, <3>3, <1>10, NextHead DEF ChainIntact
      <4>2. CASE k \in heads
        BY <4>1, <4>2, <2>3 DEF ChainIntact, Tiles
      <4>3. CASE k = q
        <5>1. CASE h > g
          <6>1. h >= nxtMCB(g)
            BY <4>1, <5>1 DEF ChainIntact, Tiles
          <6> QED BY <6>1, <4>1, <4>3, <1>1
        <5>2. CASE g > h
          <6>1. g >= nxtMCB(h)
            BY <4>1, <5>2 DEF ChainIntact, Tiles
          <6> QED BY <6>1, <4>1, <4>3, <2>3, <1>1
        <5> QED BY <5>1, <5>2, <3>3, <4>1, <1>1
      <4> QED BY <4>2, <4>3, <3>0
    <3> QED BY <3>1, <3>2, <3>3
  <2> QED BY <2>1, <2>2, <2>3 DEF Tiles
<1>12. Terminated'
  <2> SUFFICES ASSUME NEW g \in heads'
               PROVE  m_type'[g] = IF nxtMCB(g)' = Top \/ (uppermem_link' = 0 /\ nxtMCB(g)' = uppermem_root')
                                   THEN "Z" ELSE "M"
    BY DEF Terminated
  <2>1. CASE g = h
    <3>1. q # Top /\ (HasUmb => q # uppermem_root)
      BY <1>1, <1>2, <1>5, Constants DEF ChainIntact, SystemBlocks, Para
    <3>2. uppermem_root = NoUmb => q # uppermem_root
      BY <1>2, Constants DEF NoUmb, Para
    <3> QED BY <2>1, <3>1, <3>2, <1>6, <1>10 DEF HasUmb
  <2>2. CASE g = q
    BY <2>2, <1>6, <1>10 DEF ChainIntact, Terminated
  <2>3. CASE g # h /\ g # q
    <3>1. g \in heads /\ g \in Para /\ m_type'[g] = m_type[g] /\ nxtMCB(g)' = nxtMCB(g)
      BY <2>3, <1>3, <1>6, <1>9, <1>10
    <3> QED BY <3>1 DEF ChainIntact, Terminated
  <2> QED BY <2>1, <2>2, <2>3
<1>13. SystemBlocks'
  <2>1. \A g \in heads : g # h => m_psp'[g] = m_psp[g] /\ g \in heads'
    BY <1>3, <1>5, <1>8, <1>9
  <2> QED BY <2>1 DEF ChainIntact, SystemBlocks, HasUmb
<1>14. StaleHeaders'
  <2> SUFFICES ASSUME NEW s \in Para, s \notin heads'
               PROVE  m_psp'[s] = FREE_PSP /\ (m_type'[s] \in {"M", "Z"} => m_size'[s] = FAKE)
    BY DEF StaleHeaders, mcbFreeable
  <2>1. s \notin heads /\ s # h /\ s # q
    BY <1>3
  <2> QED BY <2>1, <1>6, <1>7, <1>8 DEF ChainIntact, StaleHeaders, mcbFreeable
<1> QED BY <1>1, <1>3, <1>8, <1>9, <1>11, <1>12, <1>13, <1>14 DEF ChainIntact, q

\* Without a write to a header or to the link state the chain is as it was.
LEMMA ChainFrame ==
  ASSUME MemTypeOK, ChainIntact, UNCHANGED <<mcbs, uppermem_root, uppermem_link>>
  PROVE  MemTypeOK' /\ ChainIntact'
  BY DEF MemTypeOK, ChainIntact, Tiles, Terminated, SystemBlocks, StaleHeaders, mcbs, nxtMCB,
         HasUmb, mcbFreeable

\* Where walks start is chained.
LEMMA Starts ==
  ASSUME TypeOK, ChainIntact
  PROVE  /\ FirstMcb \in heads /\ FirstMcb \in Para
         /\ HasUmb => uppermem_root \in heads /\ uppermem_root \in Para /\ FirstMcb < uppermem_root
<1>1. FirstMcb \in heads /\ FirstMcb \in Para
  BY DEF ChainIntact, Tiles, TypeOK, MemTypeOK
<1>2. HasUmb => uppermem_root \in heads /\ uppermem_root \in Para
  BY DEF ChainIntact, SystemBlocks, TypeOK, MemTypeOK
<1>3. HasUmb => FirstMcb < uppermem_root
  BY MemAssumption DEF MemAssumption, TypeOK, LocalsTypeOK, HasUmb
<1> QED BY <1>1, <1>2, <1>3

\* A call that ends leaves no loop.
LEMMA ReturnInv ==
  ASSUME LocalsTypeOK, NEW rc \in {"SUCCESS", "DE_NOMEM", "DE_INVLDMCB", "DE_MCBDESTRY"},
         NEW v \in 0..FFFF, Return(rc, v),
         uppermem_root' \in Roots, uppermem_link' \in {0, 1},
         mem_access_mode' \in 0..130, cu_psp' \in Psps
  PROVE  LocalsTypeOK' /\ NeverPanics' /\ LoopInv'
<1>1. 0 \in 0..FFFF
  BY Constants
<1>2. LocalsTypeOK'
  BY <1>1 DEF LocalsTypeOK, Return, Answer, NULL
<1>3. pc' = "done"
  BY DEF Return
<1> QED BY <1>2, <1>3 DEF NeverPanics, LoopInv, SearchInv, CheckInv, ChangeInv, LinkInv, FreeInv

\* A search that starts has no candidates yet.
LEMMA SearchStarts ==
  ASSUME TypeOK, ChainIntact, heads \subseteq heads',
         NEW n \in 0..FFFF, NEW m \in -1..130, NEW access, searchAgain(n, m, access),
         op' \in {"alloc", "exec", "largest", "lowlargest"},
         op' = "lowlargest" => mem_access_mode' <= 2,
         op' \in {"largest", "lowlargest"} => err' # "none",
         uppermem_root' \in Roots, uppermem_link' \in {0, 1},
         mem_access_mode' \in 0..130, cu_psp' \in Psps,
         keep' \in 0..FFFF, err' \in {"none", "DE_NOMEM", "DE_INVLDMCB", "DE_MCBDESTRY"},
         out' = out
  PROVE  LocalsTypeOK' /\ NeverPanics' /\ LoopInv'
<1>1. p' \in heads /\ p' \in Para
  BY Starts DEF searchAgain, WalkFrom, UmbLinked
<1>2. pc' = "search" /\ found' = NULL /\ biggest' = NULL /\ size' = n /\ mode' = m
  BY DEF searchAgain, WalkFrom
<1>3. LocalsTypeOK'
  BY <1>1, <1>2 DEF LocalsTypeOK, TypeOK
<1>4. SearchInv'
  BY <1>1, <1>2 DEF SearchInv, Candidate
<1> QED BY <1>2, <1>3, <1>4 DEF NeverPanics, LoopInv, CheckInv, ChangeInv, LinkInv, FreeInv

\* Nor has DosMemCheck any before it reports a failure.
LEMMA CheckStarts ==
  ASSUME TypeOK, ChainIntact, heads \subseteq heads', DosMemCheck, op' = "failed",
         uppermem_root' \in Roots, uppermem_link' \in {0, 1},
         mem_access_mode' \in 0..130, cu_psp' \in Psps, mode' = mode, size' \in 0..FFFF,
         keep' \in 0..FFFF, err' \in {"DE_NOMEM", "DE_INVLDMCB", "DE_MCBDESTRY"},
         out' = out
  PROVE  LocalsTypeOK' /\ NeverPanics' /\ LoopInv'
<1>1. pc' = "check" /\ p' = FirstMcb /\ found' = NULL /\ biggest' = NULL
  BY DEF DosMemCheck, WalkFrom
<1>2. LocalsTypeOK' /\ p' \in heads'
  BY <1>1, Starts DEF LocalsTypeOK, TypeOK
<1>3. CheckInv'
  BY <1>1, <1>2 DEF CheckInv
<1> QED BY <1>1, <1>2, <1>3 DEF NeverPanics, LoopInv, SearchInv, ChangeInv, LinkInv, FreeInv

\* Whatever DosMemAlloc returns, its caller goes on with a sound state.
LEMMA AllocReturnsInv ==
  ASSUME TypeOK, ChainIntact, heads \subseteq heads',
         op \in {"alloc", "exec", "largest", "lowlargest"},
         op = "lowlargest" => mem_access_mode <= 2,
         op \in {"largest", "lowlargest"} => err # "none",
         NEW rc \in {"SUCCESS", "DE_NOMEM", "DE_MCBDESTRY"}, NEW v \in 0..FFFF,
         AllocReturns(rc, v), UNCHANGED <<uppermem_root, uppermem_link, cu_psp>>
  PROVE  LocalsTypeOK' /\ NeverPanics' /\ LoopInv'
<1> USE DEF LocalsTypeOK, TypeOK
<1>0. FFFF \in 0..FFFF /\ LARGEST \in -1..130
  BY Constants DEF LARGEST
<1>1. CASE op = "exec" \/ (op = "alloc" /\ rc = "SUCCESS")
  <2>1. Return(rc, v) /\ UNCHANGED mem_access_mode
    BY <1>1 DEF AllocReturns
  <2> QED BY <2>1, ReturnInv
<1>2. CASE op = "alloc" /\ rc # "SUCCESS"
  <2>1. /\ searchAgain(FFFF, LARGEST, mem_access_mode)
        /\ op' = "largest" /\ err' = rc /\ UNCHANGED <<keep, out, mem_access_mode>>
    BY <1>2 DEF AllocReturns
  <2> QED BY <1>0, <2>1, <1>2, SearchStarts
<1>3. CASE op = "largest" /\ mem_access_mode >= 128
  <2>1. /\ searchAgain(FFFF, LARGEST, mem_access_mode - 128)
        /\ mem_access_mode' = mem_access_mode - 128
        /\ op' = "lowlargest" /\ keep' = v /\ UNCHANGED <<err, out>>
    BY <1>3 DEF AllocReturns
  <2>2. mem_access_mode' \in 0..130 /\ mem_access_mode' <= 2
    BY <1>3, <2>1
  <2> QED BY <1>0, <1>3, <2>1, <2>2, SearchStarts
<1>4. CASE op = "largest" /\ ~ (mem_access_mode >= 128)
  <2>1. /\ DosMemCheck /\ op' = "failed" /\ keep' = v
        /\ UNCHANGED <<mode, size, err, out, mem_access_mode>>
    BY <1>4 DEF AllocReturns
  <2>2. err' \in {"DE_NOMEM", "DE_INVLDMCB", "DE_MCBDESTRY"}
    BY <1>4, <2>1
  <2> QED BY <2>1, <2>2, CheckStarts
<1>5. CASE op = "lowlargest"
  <2>1. /\ DosMemCheck /\ op' = "failed" /\ keep' = IF v > keep THEN v ELSE keep
        /\ mem_access_mode' = mem_access_mode + 128
        /\ UNCHANGED <<mode, size, err, out>>
    BY <1>5 DEF AllocReturns
  <2>2. mem_access_mode' \in 0..130 /\ keep' \in 0..FFFF
    BY <1>5, <2>1
  <2>3. err' \in {"DE_NOMEM", "DE_INVLDMCB", "DE_MCBDESTRY"}
    BY <1>5, <2>1
  <2> QED BY <2>1, <2>2, <2>3, CheckStarts
<1> QED BY <1>1, <1>2, <1>3, <1>4, <1>5

-----------------------------------------------------------------------------
(* The steps of DosMemAlloc *)

LEMMA SearchJoinInv ==
  ASSUME IInv, SearchJoin
  PROVE  IInv'
<1> USE DEF IInv, TypeOK
<1>1. pc = "search" /\ p \in heads /\ joinable(p)
  BY DEF SearchJoin, LoopInv, SearchInv
<1>2. nxtMCB(p) \in heads
  BY <1>1, NextHead DEF joinable, ChainIntact
<1>3. mcbValid(nxtMCB(p))
  BY <1>2, NextHead DEF ChainIntact
<1>4. joinMCBs(p) /\ UNCHANGED <<locals, out, mem_access_mode, uppermem_root, uppermem_link, cu_psp>>
  BY <1>3 DEF SearchJoin
<1>5. /\ MemTypeOK' /\ ChainIntact' /\ p \in heads' /\ m_psp' = m_psp
      /\ \A g \in heads : g < p => g \in heads' /\ m_size'[g] = m_size[g]
  BY <1>1, <1>4, JoinKeepsChain
<1>6. LocalsTypeOK'
  BY <1>4 DEF LocalsTypeOK, locals
<1>7. SearchInv'
  BY <1>1, <1>4, <1>5 DEF LoopInv, SearchInv, Candidate, mcbFree, locals
<1>8. CheckInv' /\ ChangeInv' /\ LinkInv' /\ FreeInv' /\ NeverPanics'
  BY <1>1, <1>4 DEF CheckInv, ChangeInv, LinkInv, FreeInv, NeverPanics, locals
<1> QED BY <1>5, <1>6, <1>7, <1>8 DEF LoopInv

LEMMA SearchVisitInv ==
  ASSUME IInv, SearchVisit
  PROVE  IInv'
<1> USE DEF IInv, TypeOK
<1>1. pc = "search" /\ p \in heads /\ SearchInv
  BY DEF SearchVisit, LoopInv, SearchInv
<1>2. /\ p \in Nat /\ p \in Para /\ nxtMCB(p) \in Nat /\ p < nxtMCB(p) /\ mcbValid(p)
      /\ m_type[p] = "M" => nxtMCB(p) \in heads
  BY <1>1, NextHead DEF ChainIntact
<1>3. m_type[p] \in {"M", "Z"}
  BY <1>2 DEF mcbValid, mcbFreeable
<1> DEFINE fits == mcbFree(p) /\ m_size[p] >= size
           stop == fits /\ mode # LARGEST /\ mode % 64 = 0
<1>4. /\ biggest' = IF mcbFree(p) /\ (biggest = NULL \/ m_size[biggest] < m_size[p])
                    THEN p ELSE biggest
      /\ found' = IF fits THEN Rule(p) ELSE found
      /\ pc' = IF stop THEN "take" ELSE IF m_type[p] = "Z" THEN "decide" ELSE "search"
      /\ p' = IF stop \/ m_type[p] = "Z" THEN p ELSE nxtMCB(p)
      /\ UNCHANGED <<op, mode, size, keep, err, out, mem_access_mode>>
      /\ UNCHANGED <<mcbs, uppermem_root, uppermem_link, cu_psp, snap>>
  BY <1>2 DEF SearchVisit
<1>5. Rule(p) \in {p, found}
  BY DEF Rule
<1>6. stop => found' = p
  BY <1>4 DEF Rule
<1>7. /\ found' = found \/ (found' = p /\ fits)
      /\ biggest' = biggest \/ (biggest' = p /\ mcbFree(p))
  BY <1>4, <1>5
<1>8. pc' = "search" => p' = nxtMCB(p) /\ p' \in heads
  BY <1>2, <1>3, <1>4
<1>9. p' \in heads /\ pc' \in {"take", "decide", "search"}
  BY <1>1, <1>4, <1>8
<1>10. MemTypeOK' /\ ChainIntact' /\ heads' = heads /\ m_psp' = m_psp /\ m_size' = m_size
  BY <1>4, ChainFrame DEF mcbs
<1>11. heads \subseteq Para /\ \A h \in Para : h \in Nat /\ h # NULL
  BY Constants DEF MemTypeOK, Para, NULL
<1>12. LocalsTypeOK'
  BY <1>2, <1>4, <1>7, <1>9, <1>11 DEF LocalsTypeOK
<1>13. SearchInv'
  <2>1. Candidate(found, p)' /\ (found' # NULL => size' <= m_size'[found'])
    <3>1. CASE found' = found
      BY <3>1, <1>1, <1>2, <1>4, <1>8, <1>10, <1>11 DEF SearchInv, Candidate, mcbFree, LocalsTypeOK
    <3>2. CASE found' = p /\ fits
      <4>1. Candidate(found, p)'
        BY <3>2, <1>1, <1>2, <1>8, <1>10 DEF Candidate, mcbFree
      <4>2. m_size[p] \in Nat /\ size \in Nat
        BY <1>2, Constants DEF MemTypeOK, LocalsTypeOK
      <4>3. size' <= m_size'[found']
        BY <3>2, <4>2, <1>4, <1>10
      <4> QED BY <4>1, <4>3
    <3> QED BY <3>1, <3>2, <1>7
  <2>2. Candidate(biggest, p)'
    <3>1. CASE biggest' = biggest
      <4>1. biggest # NULL => biggest \in heads /\ m_psp[biggest] = FREE_PSP /\ biggest < p
        BY <1>1 DEF SearchInv, Candidate, mcbFree
      <4>2. biggest # NULL => biggest \in Nat
        BY <4>1, <1>11
      <4>3. biggest # NULL => biggest < nxtMCB(p)
        BY <4>1, <4>2, <1>2
      <4> QED BY <3>1, <4>1, <4>3, <1>8, <1>10 DEF Candidate, mcbFree
    <3>2. CASE biggest' = p /\ mcbFree(p)
      BY <3>2, <1>1, <1>2, <1>8, <1>10 DEF Candidate, mcbFree
    <3> QED BY <3>1, <3>2, <1>7
  <2>3. pc' = "take" => found' # NULL
    BY <1>2, <1>4, <1>6, <1>11
  <2> QED BY <2>1, <2>2, <2>3, <1>1, <1>4, <1>9, <1>10 DEF SearchInv
<1>14. CheckInv' /\ ChangeInv' /\ LinkInv' /\ FreeInv' /\ NeverPanics'
  BY <1>9 DEF CheckInv, ChangeInv, LinkInv, FreeInv, NeverPanics
<1> QED BY <1>10, <1>12, <1>13, <1>14 DEF LoopInv

LEMMA SearchDecideInv ==
  ASSUME IInv, SearchDecide
  PROVE  IInv'
<1> USE DEF IInv, TypeOK
<1>1. pc = "decide" /\ SearchInv /\ p \in heads /\ op \in {"alloc", "exec", "largest", "lowlargest"}
      /\ (op = "lowlargest" => mem_access_mode <= 2)
      /\ (op \in {"largest", "lowlargest"} => err # "none")
      /\ Candidate(found, p) /\ Candidate(biggest, p) /\ (found # NULL => size <= m_size[found])
  BY DEF SearchDecide, LoopInv, SearchInv
<1>2. UNCHANGED <<mcbs, uppermem_root, uppermem_link, cu_psp, snap>>
  BY DEF SearchDecide
<1>3. MemTypeOK' /\ ChainIntact' /\ heads' = heads /\ m_psp' = m_psp /\ m_size' = m_size
  BY <1>2, ChainFrame DEF mcbs
<1> DEFINE largest == IF biggest = NULL THEN 0 ELSE m_size[biggest]
           f == IF mode = LARGEST /\ biggest # NULL /\ largest >= size THEN biggest ELSE found
<1>4. largest \in 0..FFFF
  BY <1>1, Constants DEF Candidate, MemTypeOK
<1>5. CASE f # NULL /\ m_size[f] # 0
  <2>1. found' = f /\ pc' = "take"
        /\ UNCHANGED <<op, mode, size, p, biggest, keep, err, out, mem_access_mode>>
    BY <1>5 DEF SearchDecide
  <2>2. f \in heads /\ mcbFree(f) /\ size <= m_size[f] /\ f \in Para
    <3>1. CASE f = biggest /\ largest >= size
      BY <3>1, <1>1, <1>4, <1>5 DEF Candidate, MemTypeOK, LocalsTypeOK
    <3>2. CASE f = found
      BY <3>2, <1>1, <1>5 DEF Candidate, MemTypeOK
    <3> QED BY <3>1, <3>2
  <2>3. LocalsTypeOK'
    BY <2>1, <2>2, <1>2 DEF LocalsTypeOK
  <2>4. SearchInv'
    BY <2>1, <2>2, <1>1, <1>3, <1>5 DEF SearchInv, Candidate, mcbFree
  <2>5. CheckInv' /\ ChangeInv' /\ LinkInv' /\ FreeInv' /\ NeverPanics'
    BY <2>1 DEF CheckInv, ChangeInv, LinkInv, FreeInv, NeverPanics
  <2> QED BY <1>3, <2>3, <2>4, <2>5 DEF LoopInv
<1>6. CASE ~ (f # NULL /\ m_size[f] # 0) /\ mode >= 128 /\ UmbLinked
  <2>1. searchAgain(size, lowMode(mode), mem_access_mode)
        /\ UNCHANGED <<op, keep, err, out, mem_access_mode>>
    BY <1>6 DEF SearchDecide
  <2>2. lowMode(mode) \in -1..130
    BY <1>6 DEF lowMode, LocalsTypeOK
  <2>3. /\ uppermem_root' \in Roots /\ uppermem_link' \in {0, 1}
        /\ mem_access_mode' \in 0..130 /\ cu_psp' \in Psps /\ size \in 0..FFFF
        /\ keep' \in 0..FFFF /\ err' \in {"none", "DE_NOMEM", "DE_INVLDMCB", "DE_MCBDESTRY"}
    BY <2>1, <1>2 DEF LocalsTypeOK
  <2>4. /\ op' = "lowlargest" => mem_access_mode' <= 2
        /\ op' \in {"largest", "lowlargest"} => err' # "none"
        /\ op' \in {"alloc", "exec", "largest", "lowlargest"} /\ out' = out
    BY <2>1, <1>1
  <2>5. LocalsTypeOK' /\ NeverPanics' /\ LoopInv'
    BY <2>1, <2>2, <2>3, <2>4, <1>3, SearchStarts
  <2> QED BY <1>3, <2>5
<1>7. CASE ~ (f # NULL /\ m_size[f] # 0) /\ ~ (mode >= 128 /\ UmbLinked)
  <2>1. AllocReturns("DE_NOMEM", largest)
    BY <1>7 DEF SearchDecide
  <2>2. LocalsTypeOK' /\ NeverPanics' /\ LoopInv'
    BY <2>1, <1>1, <1>2, <1>3, <1>4, AllocReturnsInv
  <2> QED BY <1>3, <2>2
<1> QED BY <1>5, <1>6, <1>7

LEMMA SearchTakeInv ==
  ASSUME IInv, SearchTake
  PROVE  IInv'
<1> USE DEF IInv, TypeOK
<1>1. /\ op \in {"alloc", "exec", "largest", "lowlargest"}
      /\ (op = "lowlargest" => mem_access_mode <= 2)
      /\ (op \in {"largest", "lowlargest"} => err # "none")
      /\ found \in heads /\ m_psp[found] = FREE_PSP /\ size <= m_size[found]
  BY DEF SearchTake, LoopInv, SearchInv, Candidate, mcbFree
<1>2. /\ found \in Nat /\ found \in Para /\ found \in 0..FFFF /\ m_size[found] \in Nat /\ size \in Nat
      /\ found + m_size[found] + 1 <= Top
  BY <1>1, NextHead, Constants DEF ChainIntact, LocalsTypeOK, Para, nxtMCB
<1>3. m_psp[found] # SYS /\ cu_psp \in Nat /\ FREE_PSP \in Nat
  BY <1>1, Constants DEF LocalsTypeOK
<1>4. UNCHANGED <<uppermem_root, uppermem_link, cu_psp>>
  BY DEF SearchTake
<1>5. CASE mode = LARGEST \/ size = m_size[found]
  <2>1. Give(found) /\ AllocReturns("SUCCESS", found)
    BY <1>5 DEF SearchTake
  <2>2. MemTypeOK' /\ ChainIntact' /\ heads' = heads
    BY <2>1, <1>1, <1>2, <1>3, <1>4, OwnerChange DEF Give
  <2>3. LocalsTypeOK' /\ NeverPanics' /\ LoopInv'
    BY <2>1, <2>2, <1>1, <1>2, <1>4, AllocReturnsInv
  <2> QED BY <2>2, <2>3
<1>6. CASE ~ (mode = LARGEST \/ size = m_size[found]) /\ mode % 64 = 2
  <2> DEFINE n == m_size[found] - size - 1
  <2>1. Split(found, n, FREE_PSP, cu_psp) /\ AllocReturns("SUCCESS", found + m_size[found] - size)
    BY <1>6 DEF SearchTake
  <2>2. n \in Nat /\ n < m_size[found] /\ found + m_size[found] - size \in 0..FFFF
    BY <1>1, <1>2, <1>6, Constants
  <2>3. MemTypeOK' /\ ChainIntact'
    BY <2>1, <2>2, <1>1, <1>3, <1>4, SplitKeepsChain
  <2>4. heads \subseteq heads'
    BY <2>1 DEF Split
  <2>5. LocalsTypeOK' /\ NeverPanics' /\ LoopInv'
    BY <2>1, <2>2, <2>4, <1>1, <1>4, AllocReturnsInv
  <2> QED BY <2>3, <2>5
<1>7. CASE ~ (mode = LARGEST \/ size = m_size[found]) /\ ~ (mode % 64 = 2)
  <2>1. Split(found, size, cu_psp, FREE_PSP) /\ AllocReturns("SUCCESS", found)
    BY <1>7 DEF SearchTake
  <2>2. size < m_size[found]
    BY <1>1, <1>2, <1>7
  <2>3. MemTypeOK' /\ ChainIntact'
    BY <2>1, <2>2, <1>1, <1>2, <1>3, <1>4, SplitKeepsChain
  <2>4. heads \subseteq heads'
    BY <2>1 DEF Split
  <2>5. LocalsTypeOK' /\ NeverPanics' /\ LoopInv'
    BY <2>1, <2>4, <1>1, <1>2, <1>4, AllocReturnsInv
  <2> QED BY <2>3, <2>5
<1> QED BY <1>5, <1>6, <1>7

-----------------------------------------------------------------------------
(* The steps of DosMemCheck, DosMemFree and DosMemChange *)

\* FreeProcessMem starts to free, or to link upper memory in, at the first header.
LEMMA FreeProcessMemStarts ==
  ASSUME TypeOK, ChainIntact, op = "exit", FreeProcessMem, UNCHANGED <<mcbs, sysvars>>
  PROVE  LocalsTypeOK' /\ NeverPanics' /\ LoopInv'
<1> USE DEF TypeOK
<1>1. /\ pc' = (IF DosUmbLinkReturnsAtOnce(1) THEN "free" ELSE "link")
      /\ p' = FirstMcb /\ found' = NULL /\ biggest' = NULL
      /\ op' = "exit" /\ mode' = 1 /\ keep' = uppermem_link
      /\ heads' = heads /\ UNCHANGED <<size, err, out>>
  BY DEF FreeProcessMem, WalkFrom, mcbs
<1>2. keep' \in {0, 1} /\ keep' \in 0..FFFF
  BY <1>1, Constants DEF LocalsTypeOK
<1>3. LocalsTypeOK'
  BY <1>1, <1>2, Starts DEF LocalsTypeOK, sysvars
<1>4. FreeInv'
  BY <1>1, <1>2, Starts DEF FreeInv
<1>5. LinkInv'
  <2> SUFFICES ASSUME pc' = "link" PROVE LinkInv'
    BY DEF LinkInv
  <2>1. HasUmb /\ uppermem_link # 1
    BY <1>1 DEF DosUmbLinkReturnsAtOnce
  <2>2. /\ FirstMcb \in heads /\ FirstMcb < uppermem_root
        /\ FirstMcb \in Nat /\ uppermem_root \in Nat
    BY <2>1, Starts, NextHead DEF ChainIntact
  <2> QED BY <2>1, <2>2, <1>1, <1>2 DEF LinkInv, HasUmb, sysvars
<1>6. SearchInv' /\ CheckInv' /\ ChangeInv' /\ NeverPanics'
  BY <1>1 DEF SearchInv, CheckInv, ChangeInv, NeverPanics
<1> QED BY <1>3, <1>4, <1>5, <1>6 DEF LoopInv

LEMMA CheckStepInv ==
  ASSUME IInv, CheckStep
  PROVE  IInv'
<1> USE DEF IInv, TypeOK
<1>1. pc = "check" /\ CheckInv /\ p \in heads /\ op \in {"failed", "change", "exit"}
      /\ (op = "change" => keep \in Para /\ m_psp[keep] # SYS)
  BY DEF CheckStep, LoopInv, CheckInv
<1>2. UNCHANGED <<mcbs, sysvars, snap>>
  BY DEF CheckStep
<1>3. /\ MemTypeOK' /\ ChainIntact' /\ heads' = heads /\ m_psp' = m_psp /\ m_size' = m_size
      /\ m_type' = m_type
  BY <1>2, ChainFrame DEF mcbs, sysvars
<1>4. m_type[p] \in {"M", "Z"} /\ p \in Para /\ (m_type[p] = "M" => nxtMCB(p) \in heads /\ nxtMCB(p) \in Para)
  BY <1>1, NextHead DEF ChainIntact, mcbValid, mcbFreeable, MemTypeOK
<1>5. CASE m_type[p] = "M"
  <2>1. p' = nxtMCB(p) /\ UNCHANGED <<pc, op, mode, size, found, biggest, keep, err, out>>
    BY <1>5 DEF CheckStep
  <2>2. LocalsTypeOK'
    BY <2>1, <1>2, <1>4, <1>5 DEF LocalsTypeOK, sysvars
  <2>3. CheckInv'
    BY <2>1, <1>1, <1>3, <1>4, <1>5 DEF CheckInv
  <2>4. SearchInv' /\ ChangeInv' /\ LinkInv' /\ FreeInv' /\ NeverPanics'
    BY <2>1, <1>1 DEF SearchInv, ChangeInv, LinkInv, FreeInv, NeverPanics
  <2> QED BY <1>3, <2>2, <2>3, <2>4 DEF LoopInv
<1>6. CASE m_type[p] = "Z" /\ op = "failed"
  <2>1. Return(err, keep)
    BY <1>6 DEF CheckStep
  <2>2. err \in {"DE_NOMEM", "DE_INVLDMCB", "DE_MCBDESTRY"}
    BY <1>1, <1>6 DEF CheckInv, LocalsTypeOK
  <2>3. LocalsTypeOK' /\ NeverPanics' /\ LoopInv'
    BY <2>1, <2>2, <1>2, ReturnInv DEF LocalsTypeOK, sysvars
  <2> QED BY <1>3, <2>3
<1>7. CASE m_type[p] = "Z" /\ op = "change" /\ ~ mcbValid(keep)
  <2>1. p' = FirstMcb /\ op' = "failed" /\ err' = "DE_MCBDESTRY" /\ keep' = 0
        /\ UNCHANGED <<pc, mode, size, found, biggest, out>>
    BY <1>7 DEF CheckStep
  <2>2. LocalsTypeOK' /\ p' \in heads
    BY <2>1, <1>2, Starts, Constants DEF LocalsTypeOK, sysvars
  <2>3. CheckInv'
    BY <2>1, <2>2, <1>1, <1>3 DEF CheckInv
  <2>4. SearchInv' /\ ChangeInv' /\ LinkInv' /\ FreeInv' /\ NeverPanics'
    BY <2>1, <1>1 DEF SearchInv, ChangeInv, LinkInv, FreeInv, NeverPanics
  <2> QED BY <1>3, <2>2, <2>3, <2>4 DEF LoopInv
<1>8. CASE m_type[p] = "Z" /\ op = "change" /\ mcbValid(keep)
  <2>1. p' = keep /\ pc' = (IF size > m_size[keep] THEN "grow" ELSE "shrink")
        /\ UNCHANGED <<op, mode, size, found, biggest, keep, err, out>>
    BY <1>8 DEF CheckStep
  <2>2. keep \in heads
    BY <1>1, <1>8 DEF ChainIntact, StaleHeaders, mcbValid
  <2>3. LocalsTypeOK'
    BY <2>1, <1>1, <1>2, <1>8 DEF LocalsTypeOK, sysvars
  <2>4. m_size[keep] \in Nat /\ size \in Nat
    BY <2>2, Constants DEF MemTypeOK, LocalsTypeOK
  <2>5. ChangeInv'
    BY <2>1, <2>2, <2>4, <1>1, <1>3, <1>8 DEF ChangeInv
  <2>6. SearchInv' /\ CheckInv' /\ LinkInv' /\ FreeInv' /\ NeverPanics'
    BY <2>1 DEF SearchInv, CheckInv, LinkInv, FreeInv, NeverPanics
  <2> QED BY <1>3, <2>3, <2>5, <2>6 DEF LoopInv
<1>9. CASE m_type[p] = "Z" /\ op = "exit"
  <2>1. FreeProcessMem
    BY <1>9 DEF CheckStep
  <2>2. LocalsTypeOK' /\ NeverPanics' /\ LoopInv'
    BY <2>1, <1>2, <1>3, <1>9, FreeProcessMemStarts DEF mcbs
  <2> QED BY <1>3, <2>2
<1> QED BY <1>1, <1>4, <1>5, <1>6, <1>7, <1>8, <1>9

LEMMA GrowJoinInv ==
  ASSUME IInv, GrowJoin
  PROVE  IInv'
<1> USE DEF IInv, TypeOK
<1>1. pc = "grow" /\ p \in heads /\ joinable(p) /\ keep = p /\ m_psp[p] # SYS
  BY DEF GrowJoin, LoopInv, ChangeInv
<1>2. nxtMCB(p) \in heads
  BY <1>1, NextHead DEF joinable, ChainIntact
<1>3. mcbValid(nxtMCB(p))
  BY <1>2, NextHead DEF ChainIntact
<1>4. joinMCBs(p) /\ UNCHANGED <<locals, out, sysvars>>
  BY <1>3 DEF GrowJoin
<1>5. MemTypeOK' /\ ChainIntact' /\ p \in heads' /\ m_psp' = m_psp
  BY <1>1, <1>4, JoinKeepsChain DEF sysvars
<1>6. LocalsTypeOK'
  BY <1>4 DEF LocalsTypeOK, locals, sysvars
<1>7. ChangeInv'
  BY <1>1, <1>4, <1>5 DEF ChangeInv, locals
<1>8. SearchInv' /\ CheckInv' /\ LinkInv' /\ FreeInv' /\ NeverPanics'
  BY <1>1, <1>4 DEF SearchInv, CheckInv, LinkInv, FreeInv, NeverPanics, locals
<1> QED BY <1>5, <1>6, <1>7, <1>8 DEF LoopInv

LEMMA GrowEndInv ==
  ASSUME IInv, GrowEnd
  PROVE  IInv'
<1> USE DEF IInv, TypeOK
<1>1. pc = "grow" /\ p \in heads /\ keep = p /\ m_psp[p] # SYS
  BY DEF GrowEnd, LoopInv, ChangeInv
<1>2. UNCHANGED <<mcbs, sysvars, snap>>
  BY DEF GrowEnd
<1>3. MemTypeOK' /\ ChainIntact' /\ heads' = heads /\ m_psp' = m_psp /\ m_size' = m_size
  BY <1>2, ChainFrame DEF mcbs, sysvars
<1>4. m_size[p] \in 0..FFFF /\ m_size[p] \in Nat /\ size \in Nat
  BY <1>1, Constants DEF MemTypeOK, LocalsTypeOK
<1>5. CASE size > m_size[p]
  <2>1. ChangeFails("DE_NOMEM", m_size[p])
    BY <1>5 DEF GrowEnd
  <2>2. LocalsTypeOK' /\ NeverPanics' /\ LoopInv'
    BY <2>1, <1>2, <1>3, <1>4, CheckStarts DEF ChangeFails, LocalsTypeOK, sysvars
  <2> QED BY <1>3, <2>2
<1>6. CASE ~ (size > m_size[p])
  <2>1. pc' = "shrink" /\ UNCHANGED <<op, mode, size, p, found, biggest, keep, err, out>>
    BY <1>6 DEF GrowEnd
  <2>2. LocalsTypeOK'
    BY <2>1, <1>2 DEF LocalsTypeOK, sysvars
  <2>3. ChangeInv'
    BY <2>1, <1>1, <1>3, <1>4, <1>6 DEF ChangeInv
  <2>4. SearchInv' /\ CheckInv' /\ LinkInv' /\ FreeInv' /\ NeverPanics'
    BY <2>1 DEF SearchInv, CheckInv, LinkInv, FreeInv, NeverPanics
  <2> QED BY <1>3, <2>2, <2>3, <2>4 DEF LoopInv
<1> QED BY <1>5, <1>6

LEMMA ShrinkInv ==
  ASSUME IInv, Shrink
  PROVE  IInv'
<1> USE DEF IInv, TypeOK
<1>1. pc = "shrink" /\ p \in heads /\ keep = p /\ m_psp[p] # SYS /\ size <= m_size[p]
  BY DEF Shrink, LoopInv, ChangeInv
<1>2. UNCHANGED sysvars
  BY DEF Shrink
<1>3. /\ m_size[p] \in Nat /\ size \in Nat /\ p \in Nat /\ p \in Para /\ m_psp[p] \in Nat
      /\ cu_psp \in Nat /\ FREE_PSP \in Nat /\ FREE_PSP # SYS
  BY <1>1, NextHead, Constants DEF MemTypeOK, LocalsTypeOK, ChainIntact
<1>4. CASE size < m_size[p]
  <2>1. Split(p, size, m_psp[p], FREE_PSP) /\ pc' = "tail" /\ p' = p + size + 1
        /\ UNCHANGED <<op, mode, size, found, biggest, keep, err, out>>
    BY <1>4 DEF Shrink
  <2>2. /\ MemTypeOK' /\ ChainIntact'
        /\ p \in heads' /\ p + size + 1 \in heads' /\ p < p + size + 1
        /\ m_psp'[p] = m_psp[p] /\ m_psp'[p + size + 1] = FREE_PSP
    BY <2>1, <1>1, <1>2, <1>3, <1>4, SplitKeepsChain DEF sysvars
  <2>3. p' \in Para
    BY <2>1, <2>2 DEF MemTypeOK
  <2>4. LocalsTypeOK'
    BY <2>1, <2>3, <1>2 DEF LocalsTypeOK, sysvars
  <2>5. ChangeInv'
    BY <2>1, <2>2, <1>1 DEF ChangeInv, mcbFree
  <2>6. SearchInv' /\ CheckInv' /\ LinkInv' /\ FreeInv' /\ NeverPanics'
    BY <2>1 DEF SearchInv, CheckInv, LinkInv, FreeInv, NeverPanics
  <2> QED BY <2>2, <2>4, <2>5, <2>6 DEF LoopInv
<1>5. CASE ~ (size < m_size[p])
  <2>1. Give(p) /\ Return("SUCCESS", 0)
    BY <1>5 DEF Shrink
  <2>2. MemTypeOK' /\ ChainIntact'
    BY <2>1, <1>1, <1>2, <1>3, OwnerChange DEF Give, sysvars
  <2>3. LocalsTypeOK' /\ NeverPanics' /\ LoopInv'
    BY <2>1, <1>2, ReturnInv, Constants DEF LocalsTypeOK, sysvars
  <2> QED BY <2>2, <2>3
<1> QED BY <1>4, <1>5

LEMMA TailJoinInv ==
  ASSUME IInv, TailJoin
  PROVE  IInv'
<1> USE DEF IInv, TypeOK
<1>1. pc = "tail" /\ p \in heads /\ joinable(p) /\ mcbFree(p)
      /\ keep \in heads /\ keep < p /\ m_psp[keep] # SYS
  BY DEF TailJoin, LoopInv, ChangeInv
<1>2. nxtMCB(p) \in heads
  BY <1>1, NextHead DEF joinable, ChainIntact
<1>3. mcbValid(nxtMCB(p))
  BY <1>2, NextHead DEF ChainIntact
<1>4. joinMCBs(p) /\ UNCHANGED <<locals, out, sysvars>>
  BY <1>3 DEF TailJoin
<1>5. /\ MemTypeOK' /\ ChainIntact' /\ p \in heads' /\ m_psp' = m_psp
      /\ keep \in heads'
  BY <1>1, <1>4, JoinKeepsChain DEF sysvars
<1>6. LocalsTypeOK'
  BY <1>4 DEF LocalsTypeOK, locals, sysvars
<1>7. ChangeInv'
  BY <1>1, <1>4, <1>5 DEF ChangeInv, locals, mcbFree
<1>8. SearchInv' /\ CheckInv' /\ LinkInv' /\ FreeInv' /\ NeverPanics'
  BY <1>1, <1>4 DEF SearchInv, CheckInv, LinkInv, FreeInv, NeverPanics, locals
<1> QED BY <1>5, <1>6, <1>7, <1>8 DEF LoopInv

LEMMA TailEndInv ==
  ASSUME IInv, TailEnd
  PROVE  IInv'
<1> USE DEF IInv, TypeOK
<1>1. keep \in heads /\ m_psp[keep] # SYS /\ Give(keep) /\ Return("SUCCESS", 0) /\ UNCHANGED sysvars
  BY DEF TailEnd, LoopInv, ChangeInv
<1>2. keep \in Para /\ cu_psp \in Nat
  BY <1>1, Constants DEF MemTypeOK, LocalsTypeOK
<1>3. MemTypeOK' /\ ChainIntact'
  BY <1>1, <1>2, OwnerChange DEF Give, sysvars
<1>4. LocalsTypeOK' /\ NeverPanics' /\ LoopInv'
  BY <1>1, ReturnInv, Constants DEF LocalsTypeOK, sysvars
<1> QED BY <1>3, <1>4

-----------------------------------------------------------------------------
(* The steps of DosUmbLink and FreeProcessMem *)

\* The end of DosUmbLink leaves a sound state for each of its callers.
LEMMA LinkReturnsInv ==
  ASSUME TypeOK, ChainIntact, heads' = heads, LinkReturns,
         op \in {"umb", "exit", "relink"}, op = "exit" => keep \in {0, 1},
         uppermem_link' \in {0, 1}, UNCHANGED <<uppermem_root, mem_access_mode, cu_psp>>
  PROVE  LocalsTypeOK' /\ NeverPanics' /\ LoopInv'
<1> USE DEF TypeOK
<1>1. CASE op \in {"umb", "relink"}
  <2>1. Return("SUCCESS", 0)
    BY <1>1 DEF LinkReturns
  <2>2. 0 \in 0..FFFF
    BY Constants
  <2> QED BY <2>1, <2>2, ReturnInv DEF LocalsTypeOK
<1>2. CASE op = "exit"
  <2>1. /\ pc' = "free" /\ p' = FirstMcb /\ found' = NULL /\ biggest' = NULL
        /\ UNCHANGED <<op, mode, size, keep, err, out>>
    BY <1>2 DEF LinkReturns, WalkFrom
  <2>2. LocalsTypeOK'
    BY <2>1, Starts DEF LocalsTypeOK
  <2>3. FreeInv'
    BY <2>1, <1>2, Starts DEF FreeInv
  <2> QED BY <2>1, <2>2, <2>3 DEF NeverPanics, LoopInv, SearchInv, CheckInv, ChangeInv, LinkInv
<1> QED BY <1>1, <1>2

LEMMA LinkStepInv ==
  ASSUME IInv, LinkStep
  PROVE  IInv'
<1> USE DEF IInv, TypeOK
<1>1. pc = "link" /\ p # uppermem_root /\ m_type[p] # "Z" /\ LinkInv /\ p \in heads
  BY DEF LinkStep, LoopInv, LinkInv
<1>2. /\ p \in Nat /\ p \in Para /\ mcbValid(p) /\ m_type[p] = "M" /\ p < nxtMCB(p)
      /\ nxtMCB(p) \in heads /\ nxtMCB(p) \in Nat
  BY <1>1, NextHead DEF ChainIntact, mcbValid, mcbFreeable
<1>3. /\ p' = nxtMCB(p) /\ found' = p
      /\ UNCHANGED <<pc, op, mode, size, biggest, keep, err, out>>
      /\ UNCHANGED <<mcbs, sysvars, snap>>
  BY <1>2 DEF LinkStep
<1>4. MemTypeOK' /\ ChainIntact' /\ heads' = heads /\ m_size' = m_size
  BY <1>3, ChainFrame DEF mcbs, sysvars
<1>5. LocalsTypeOK'
  BY <1>2, <1>3 DEF LocalsTypeOK, sysvars, MemTypeOK
<1>6. HasUmb /\ uppermem_root \in heads /\ uppermem_root \in Nat /\ p < uppermem_root
  <2>1. HasUmb /\ p <= uppermem_root
    BY <1>1 DEF LinkInv
  <2>2. uppermem_root \in heads /\ uppermem_root \in Para
    BY <2>1, Starts
  <2>3. uppermem_root \in Nat
    BY <2>2, Constants DEF Para
  <2> QED BY <2>1, <2>2, <2>3, <1>1, <1>2
<1>7. nxtMCB(p) <= uppermem_root
  BY <1>1, <1>6 DEF ChainIntact, Tiles
<1>8. mode = 1 => nxtMCB(p) < uppermem_root
  <2>1. mode = 1 => uppermem_link = 0
    BY <1>1 DEF LinkInv, LocalsTypeOK
  <2>2. uppermem_link = 0 => nxtMCB(p) # uppermem_root
    BY <1>1, <1>2 DEF ChainIntact, Terminated
  <2> QED BY <2>1, <2>2, <1>2, <1>6, <1>7
<1>9. found' # NULL
  BY <1>2, <1>3, Constants DEF NULL, Para
<1>10. LinkInv'
  <2>1. nxtMCB(found)' = p'
    BY <1>3, <1>4 DEF nxtMCB
  <2> QED BY <2>1, <1>1, <1>2, <1>3, <1>4, <1>7, <1>8, <1>9 DEF LinkInv, sysvars, HasUmb
<1>11. SearchInv' /\ CheckInv' /\ ChangeInv' /\ FreeInv' /\ NeverPanics'
  BY <1>1, <1>3 DEF SearchInv, CheckInv, ChangeInv, FreeInv, NeverPanics
<1> QED BY <1>4, <1>5, <1>10, <1>11 DEF LoopInv

\* Flipping the type of the block right before upper memory together with the
\* link state keeps the chain.
LEMMA FlipKeepsChain ==
  ASSUME TypeOK, ChainIntact, HasUmb, NEW h \in heads, nxtMCB(h) = uppermem_root,
         NEW l \in {0, 1}, uppermem_link' = l,
         m_type' = [m_type EXCEPT ![h] = IF l = 0 THEN "Z" ELSE "M"],
         UNCHANGED <<m_psp, m_size, heads, uppermem_root>>
  PROVE  MemTypeOK' /\ ChainIntact'
<1> USE DEF TypeOK
<1>1. heads \subseteq Para /\ uppermem_root \in Para /\ uppermem_root # Top
      /\ \A x \in Para : x \in Nat
  <2>1. uppermem_root \in Para /\ heads \subseteq Para
    BY Starts DEF MemTypeOK
  <2> QED BY <2>1, Constants DEF Para
<1>2. MemTypeOK' /\ m_type'[h] = (IF l = 0 THEN "Z" ELSE "M")
      /\ \A g \in Para : g # h => m_type'[g] = m_type[g]
  BY <1>1 DEF MemTypeOK
<1>3. \A g \in Para : nxtMCB(g)' = nxtMCB(g)
  BY DEF nxtMCB
<1>4. \A g \in heads : g # h => nxtMCB(g) # uppermem_root
  <2> SUFFICES ASSUME NEW g \in heads, g # h PROVE nxtMCB(g) # uppermem_root
    OBVIOUS
  <2>1. /\ g \in Nat /\ h \in Nat /\ g < nxtMCB(g) /\ h < nxtMCB(h)
        /\ nxtMCB(g) \in Nat /\ nxtMCB(h) \in Nat
    BY NextHead DEF ChainIntact
  <2>2. CASE g < h
    <3>1. h >= nxtMCB(g)
      BY <2>2 DEF ChainIntact, Tiles
    <3> QED BY <3>1, <2>1
  <2>3. CASE g > h
    <3>1. g >= nxtMCB(h)
      BY <2>3 DEF ChainIntact, Tiles
    <3> QED BY <3>1, <2>1
  <2> QED BY <2>1, <2>2, <2>3
<1>5. Terminated'
  <2> SUFFICES ASSUME NEW g \in heads
               PROVE  m_type'[g] = IF nxtMCB(g) = Top \/ (l = 0 /\ nxtMCB(g) = uppermem_root)
                                   THEN "Z" ELSE "M"
    BY <1>1, <1>3 DEF Terminated
  <2>1. CASE g = h
    BY <2>1, <1>1, <1>2
  <2>2. CASE g # h
    BY <2>2, <1>1, <1>2, <1>4 DEF ChainIntact, Terminated
  <2> QED BY <2>1, <2>2
<1>6. Tiles'
  BY DEF ChainIntact, Tiles, nxtMCB
<1>7. SystemBlocks'
  BY DEF ChainIntact, SystemBlocks, HasUmb
<1>8. StaleHeaders'
  BY <1>2 DEF ChainIntact, StaleHeaders, mcbFreeable
<1> QED BY <1>2, <1>5, <1>6, <1>7, <1>8 DEF ChainIntact

LEMMA LinkEndInv ==
  ASSUME IInv, LinkEnd
  PROVE  IInv'
<1> USE DEF IInv, TypeOK
<1>1. pc = "link" /\ (p = uppermem_root \/ m_type[p] = "Z") /\ LinkReturns
      /\ UNCHANGED <<m_psp, m_size, heads, uppermem_root, mem_access_mode, cu_psp, snap>>
  BY DEF LinkEnd
<1>2. /\ HasUmb /\ op \in {"umb", "exit", "relink"} /\ mode \in {0, 1} /\ mode # uppermem_link
      /\ p \in heads /\ p <= uppermem_root /\ (mode = 1 => p < uppermem_root)
      /\ (found = NULL => p = FirstMcb)
      /\ (found # NULL => found \in heads /\ nxtMCB(found) = p)
      /\ (op = "exit" => keep \in {0, 1})
  BY <1>1 DEF LoopInv, LinkInv
<1>3. /\ p \in Nat /\ uppermem_root \in Nat /\ uppermem_root \in heads /\ FirstMcb < uppermem_root
      /\ nxtMCB(p) \in Nat /\ p < nxtMCB(p)
  BY <1>2, Starts, NextHead DEF ChainIntact
<1>4. \A h \in heads : h < uppermem_root => nxtMCB(h) <= uppermem_root /\ nxtMCB(h) # Top
  <2> SUFFICES ASSUME NEW h \in heads, h < uppermem_root
               PROVE  nxtMCB(h) <= uppermem_root /\ nxtMCB(h) # Top
    OBVIOUS
  <2>1. nxtMCB(h) <= uppermem_root /\ nxtMCB(h) \in Nat
    BY <1>3, NextHead DEF ChainIntact, Tiles
  <2>2. uppermem_root < Top
    BY <1>3, Constants DEF MemTypeOK, Para
  <2> QED BY <2>1, <2>2, <1>3, Constants
<1>5. CASE mode = 0
  <2>1. uppermem_link = 1 /\ uppermem_link' = 0
        /\ m_type' = IF m_type[found] = "M" /\ p = uppermem_root
                     THEN [m_type EXCEPT ![found] = "Z"] ELSE m_type
    BY <1>2, <1>5 DEF LinkEnd, LocalsTypeOK
  <2>2. p = uppermem_root
    <3>1. SUFFICES ASSUME p < uppermem_root PROVE FALSE
      BY <1>2, <1>3
    <3>2. nxtMCB(p) # Top
      BY <3>1, <1>2, <1>4
    <3>3. m_type[p] = "M"
      BY <3>2, <2>1, <1>2 DEF ChainIntact, Terminated
    <3> QED BY <3>1, <3>3, <1>1, <1>3
  <2>3. found \in heads /\ nxtMCB(found) = uppermem_root
    BY <2>2, <1>2, <1>3
  <2>4. m_type[found] = "M"
    <3>1. uppermem_root # Top
      BY <1>3, Constants DEF MemTypeOK, Para
    <3> QED BY <3>1, <2>1, <2>3 DEF ChainIntact, Terminated
  <2>5. MemTypeOK' /\ ChainIntact'
    BY <2>1, <2>2, <2>3, <2>4, <1>1, <1>2, FlipKeepsChain
  <2>6. LocalsTypeOK' /\ NeverPanics' /\ LoopInv'
    BY <2>1, <1>1, <1>2, LinkReturnsInv
  <2> QED BY <2>5, <2>6
<1>6. CASE mode = 1
  <2>1. uppermem_link = 0 /\ p < uppermem_root /\ m_type[p] = "Z"
    BY <1>1, <1>2, <1>3, <1>6 DEF LocalsTypeOK
  <2>2. uppermem_link' = 1 /\ m_type' = [m_type EXCEPT ![p] = IF 1 = 0 THEN "Z" ELSE "M"]
    BY <2>1, <1>6 DEF LinkEnd
  <2>3. nxtMCB(p) = uppermem_root
    <3>1. nxtMCB(p) # Top
      BY <2>1, <1>2, <1>4
    <3> QED BY <3>1, <2>1, <1>2 DEF ChainIntact, Terminated
  <2>4. MemTypeOK' /\ ChainIntact'
    BY <2>2, <2>3, <1>1, <1>2, FlipKeepsChain
  <2>5. LocalsTypeOK' /\ NeverPanics' /\ LoopInv'
    BY <2>2, <1>1, <1>2, LinkReturnsInv
  <2> QED BY <2>4, <2>5
<1> QED BY <1>2, <1>5, <1>6

LEMMA FreeStepInv ==
  ASSUME IInv, FreeStep
  PROVE  IInv'
<1> USE DEF IInv, TypeOK
<1>1. pc = "free" /\ p \in heads /\ keep \in {0, 1}
      /\ UNCHANGED <<m_type, m_size, heads, sysvars, snap>>
  BY DEF FreeStep, LoopInv, FreeInv
<1>2. /\ p \in Para /\ mcbValid(p) /\ m_type[p] \in {"M", "Z"}
      /\ (m_type[p] = "M" => nxtMCB(p) \in heads /\ nxtMCB(p) \in Para)
  BY <1>1, NextHead DEF ChainIntact, mcbValid, mcbFreeable, MemTypeOK
<1>3. m_psp' = IF m_psp[p] = cu_psp THEN [m_psp EXCEPT ![p] = FREE_PSP] ELSE m_psp
  BY <1>2 DEF FreeStep
<1>4. MemTypeOK' /\ ChainIntact'
  <2>1. CASE m_psp[p] = cu_psp
    <3>1. m_psp[p] # SYS /\ FREE_PSP \in Nat
      BY <2>1, Constants DEF LocalsTypeOK
    <3> QED BY <3>1, <2>1, <1>1, <1>2, <1>3, OwnerChange DEF sysvars
  <2>2. CASE m_psp[p] # cu_psp
    BY <2>2, <1>1, <1>3, ChainFrame DEF mcbs, sysvars
  <2> QED BY <2>1, <2>2
<1>5. CASE m_type[p] # "Z"
  <2>1. p' = nxtMCB(p) /\ UNCHANGED <<pc, op, mode, size, found, biggest, keep, err, out>>
    BY <1>2, <1>5 DEF FreeStep
  <2>2. LocalsTypeOK'
    BY <2>1, <1>1, <1>2, <1>5 DEF LocalsTypeOK, sysvars
  <2>3. FreeInv'
    BY <2>1, <1>1, <1>2, <1>5 DEF FreeInv
  <2>4. SearchInv' /\ CheckInv' /\ ChangeInv' /\ LinkInv' /\ NeverPanics'
    BY <2>1, <1>1 DEF SearchInv, CheckInv, ChangeInv, LinkInv, NeverPanics
  <2> QED BY <1>4, <2>2, <2>3, <2>4 DEF LoopInv
<1>6. CASE m_type[p] = "Z" /\ DosUmbLinkReturnsAtOnce(keep)
  <2>1. Return("SUCCESS", 0) /\ 0 \in 0..FFFF
    BY <1>2, <1>6, Constants DEF FreeStep
  <2>2. LocalsTypeOK' /\ NeverPanics' /\ LoopInv'
    BY <2>1, <1>1, ReturnInv DEF LocalsTypeOK, sysvars
  <2> QED BY <1>4, <2>2
<1>7. CASE m_type[p] = "Z" /\ ~ DosUmbLinkReturnsAtOnce(keep)
  <2>1. /\ pc' = "link" /\ p' = FirstMcb /\ found' = NULL /\ biggest' = NULL
        /\ op' = "relink" /\ mode' = keep /\ UNCHANGED <<size, keep, err, out>>
    BY <1>2, <1>7 DEF FreeStep, WalkFrom
  <2>2. HasUmb /\ uppermem_link # keep
    BY <1>7 DEF DosUmbLinkReturnsAtOnce
  <2>3. /\ FirstMcb \in heads /\ FirstMcb \in Para /\ FirstMcb < uppermem_root
        /\ FirstMcb \in Nat /\ uppermem_root \in Nat
    BY <2>2, Starts, NextHead DEF ChainIntact
  <2>4. LocalsTypeOK'
    BY <2>1, <2>3, <1>1 DEF LocalsTypeOK, sysvars
  <2>5. LinkInv'
    BY <2>1, <2>2, <2>3, <1>1 DEF LinkInv, HasUmb, sysvars
  <2>6. SearchInv' /\ CheckInv' /\ ChangeInv' /\ FreeInv' /\ NeverPanics'
    BY <2>1 DEF SearchInv, CheckInv, ChangeInv, FreeInv, NeverPanics
  <2> QED BY <1>4, <2>4, <2>5, <2>6 DEF LoopInv
<1> QED BY <1>2, <1>5, <1>6, <1>7

-----------------------------------------------------------------------------
(* The calls programs make *)

LEMMA AllocInv ==
  ASSUME IInv, NEW n \in Sizes, Alloc(n)
  PROVE  IInv'
<1> USE DEF IInv, TypeOK
<1>1. /\ searchAgain(n, mem_access_mode, mem_access_mode) /\ op' = "alloc"
      /\ UNCHANGED <<mcbs, sysvars, keep, err, out>>
  BY DEF Alloc
<1>2. MemTypeOK' /\ ChainIntact' /\ heads' = heads
  BY <1>1, ChainFrame DEF mcbs, sysvars
<1>3. n \in 0..FFFF /\ mem_access_mode \in -1..130
  BY MemAssumption DEF MemAssumption, LocalsTypeOK
<1>4. LocalsTypeOK' /\ NeverPanics' /\ LoopInv'
  BY <1>1, <1>2, <1>3, SearchStarts DEF LocalsTypeOK, sysvars
<1> QED BY <1>2, <1>4

LEMMA AllocLargestInv ==
  ASSUME IInv, AllocLargest
  PROVE  IInv'
<1> USE DEF IInv, TypeOK
<1>1. /\ searchAgain(0, LARGEST, mem_access_mode) /\ op' = "exec"
      /\ UNCHANGED <<mcbs, sysvars, keep, err, out>>
  BY DEF AllocLargest
<1>2. MemTypeOK' /\ ChainIntact' /\ heads' = heads
  BY <1>1, ChainFrame DEF mcbs, sysvars
<1>3. 0 \in 0..FFFF /\ LARGEST \in -1..130
  BY Constants DEF LARGEST
<1>4. LocalsTypeOK' /\ NeverPanics' /\ LoopInv'
  BY <1>1, <1>2, <1>3, SearchStarts DEF LocalsTypeOK, sysvars
<1> QED BY <1>2, <1>4

LEMMA FreeCallInv ==
  ASSUME IInv, NEW s \in Segments, Free(s)
  PROVE  IInv'
<1> USE DEF IInv, TypeOK
<1>1. s \in Para /\ m_psp[s] # SYS /\ UNCHANGED <<m_type, m_size, heads, sysvars>>
  BY DEF Free, Segments
<1>2. CASE ~ mcbFreeable(s)
  <2>1. /\ DosMemCheck /\ op' = "failed" /\ err' = "DE_INVLDMCB"
        /\ UNCHANGED <<m_psp, mode, size, keep, out>>
    BY <1>2 DEF Free
  <2>2. MemTypeOK' /\ ChainIntact'
    BY <2>1, <1>1, ChainFrame DEF mcbs, sysvars
  <2>3. LocalsTypeOK' /\ NeverPanics' /\ LoopInv'
    BY <2>1, <1>1, CheckStarts DEF LocalsTypeOK, sysvars
  <2> QED BY <2>2, <2>3
<1>3. CASE mcbFreeable(s)
  <2>1. m_psp' = [m_psp EXCEPT ![s] = FREE_PSP] /\ Return("SUCCESS", 0) /\ 0 \in 0..FFFF
    BY <1>3, Constants DEF Free
  <2>2. MemTypeOK' /\ ChainIntact'
    BY <2>1, <1>1, Constants, OwnerChange DEF sysvars
  <2>3. LocalsTypeOK' /\ NeverPanics' /\ LoopInv'
    BY <2>1, <1>1, ReturnInv DEF LocalsTypeOK, sysvars
  <2> QED BY <2>2, <2>3
<1> QED BY <1>2, <1>3

LEMMA ChangeCallInv ==
  ASSUME IInv, NEW s \in Segments, NEW n \in Sizes, Change(s, n)
  PROVE  IInv'
<1> USE DEF IInv, TypeOK
<1>1. /\ pc' = "check" /\ p' = FirstMcb /\ found' = NULL /\ biggest' = NULL
      /\ op' = "change" /\ size' = n /\ keep' = s
      /\ UNCHANGED <<mcbs, sysvars, mode, err, out>>
  BY DEF Change, DosMemCheck, WalkFrom
<1>2. MemTypeOK' /\ ChainIntact' /\ heads' = heads /\ m_psp' = m_psp
  BY <1>1, ChainFrame DEF mcbs, sysvars
<1>3. s \in Para /\ m_psp[s] # SYS /\ s \in 0..FFFF /\ n \in 0..FFFF
  <2>1. s \in Para /\ m_psp[s] # SYS
    BY DEF Segments
  <2>2. s \in 0..FFFF
    BY <2>1, Constants DEF Para
  <2> QED BY <2>1, <2>2, MemAssumption DEF MemAssumption
<1>4. LocalsTypeOK'
  BY <1>1, <1>3, Starts DEF LocalsTypeOK, sysvars
<1>5. CheckInv'
  BY <1>1, <1>2, <1>3, Starts DEF CheckInv
<1>6. SearchInv' /\ ChangeInv' /\ LinkInv' /\ FreeInv' /\ NeverPanics'
  BY <1>1 DEF SearchInv, ChangeInv, LinkInv, FreeInv, NeverPanics
<1> QED BY <1>2, <1>4, <1>5, <1>6 DEF LoopInv

LEMMA UmbLinkInv ==
  ASSUME IInv, NEW n \in 0..2, UmbLink(n)
  PROVE  IInv'
<1> USE DEF IInv, TypeOK
<1>1. HasUmb /\ UNCHANGED <<mcbs, sysvars>>
  BY DEF UmbLink
<1>2. MemTypeOK' /\ ChainIntact' /\ heads' = heads
  BY <1>1, ChainFrame DEF mcbs, sysvars
<1>3. CASE DosUmbLinkReturnsAtOnce(n)
  <2>1. Return("SUCCESS", 0) /\ 0 \in 0..FFFF
    BY <1>3, Constants DEF UmbLink
  <2>2. LocalsTypeOK' /\ NeverPanics' /\ LoopInv'
    BY <2>1, <1>1, ReturnInv DEF LocalsTypeOK, sysvars
  <2> QED BY <1>2, <2>2
<1>4. CASE ~ DosUmbLinkReturnsAtOnce(n)
  <2>1. /\ pc' = "link" /\ p' = FirstMcb /\ found' = NULL /\ biggest' = NULL
        /\ op' = "umb" /\ mode' = n /\ UNCHANGED <<size, keep, err, out>>
    BY <1>4 DEF UmbLink, WalkFrom
  <2>2. uppermem_link # n /\ n \in {0, 1}
    BY <1>4 DEF DosUmbLinkReturnsAtOnce
  <2>3. /\ FirstMcb \in heads /\ FirstMcb \in Para /\ FirstMcb < uppermem_root
        /\ FirstMcb \in Nat /\ uppermem_root \in Nat
    BY <1>1, Starts, NextHead DEF ChainIntact
  <2>4. LocalsTypeOK'
    BY <2>1, <2>2, <2>3, <1>1 DEF LocalsTypeOK, sysvars
  <2>5. LinkInv'
    BY <2>1, <2>2, <2>3, <1>1, <1>2 DEF LinkInv, HasUmb, sysvars
  <2>6. SearchInv' /\ CheckInv' /\ ChangeInv' /\ FreeInv' /\ NeverPanics'
    BY <2>1 DEF SearchInv, CheckInv, ChangeInv, FreeInv, NeverPanics
  <2> QED BY <1>2, <2>4, <2>5, <2>6 DEF LoopInv
<1> QED BY <1>3, <1>4

LEMMA TerminateInv ==
  ASSUME IInv, Terminate
  PROVE  IInv'
<1> USE DEF IInv, TypeOK
<1>1. /\ pc' = "check" /\ p' = FirstMcb /\ found' = NULL /\ biggest' = NULL /\ op' = "exit"
      /\ UNCHANGED <<mcbs, sysvars, mode, size, keep, err, out>>
  BY DEF Terminate, DosMemCheck, WalkFrom
<1>2. MemTypeOK' /\ ChainIntact' /\ heads' = heads
  BY <1>1, ChainFrame DEF mcbs, sysvars
<1>3. LocalsTypeOK'
  BY <1>1, Starts DEF LocalsTypeOK, sysvars
<1>4. CheckInv'
  BY <1>1, <1>2, Starts DEF CheckInv
<1>5. SearchInv' /\ ChangeInv' /\ LinkInv' /\ FreeInv' /\ NeverPanics'
  BY <1>1 DEF SearchInv, ChangeInv, LinkInv, FreeInv, NeverPanics
<1> QED BY <1>2, <1>3, <1>4, <1>5 DEF LoopInv

\* INT 21h/5801h and 50h touch no header.
LEMMA SettingsInv ==
  ASSUME IInv, (\E m \in Modes : SetStrategy(m)) \/ (\E ps \in Psps : SetPsp(ps))
  PROVE  IInv'
<1> USE DEF IInv, TypeOK
<1>1. /\ pc = "idle" /\ UNCHANGED <<mcbs, uppermem_root, uppermem_link, locals, out>>
      /\ mem_access_mode' \in Modes \cup {mem_access_mode} /\ cu_psp' \in Psps \cup {cu_psp}
  BY DEF SetStrategy, SetPsp
<1>2. MemTypeOK' /\ ChainIntact'
  BY <1>1, ChainFrame
<1>3. Modes \subseteq 0..130
  BY MemAssumption DEF MemAssumption
<1>4. LocalsTypeOK'
  BY <1>1, <1>3 DEF LocalsTypeOK, locals
<1>5. pc' = "idle"
  BY <1>1 DEF locals
<1>6. LoopInv' /\ NeverPanics'
  BY <1>5 DEF NeverPanics, LoopInv, SearchInv, CheckInv, ChangeInv, LinkInv, FreeInv
<1> QED BY <1>2, <1>4, <1>6

\* What a program writes into its own block can only hit unlinked headers.
LEMMA ProgramWritesInv ==
  ASSUME IInv, NEW b \in Para, ProgramWrites(b)
  PROVE  IInv'
<1> USE DEF IInv, TypeOK
<1>1. /\ pc = "idle" /\ b \in heads /\ UNCHANGED <<heads, sysvars, locals, out>>
      /\ m_type' = [s \in Para |-> IF b < s /\ s < nxtMCB(b) THEN "-" ELSE m_type[s]]
      /\ m_size' = [s \in Para |-> IF b < s /\ s < nxtMCB(b) THEN 0 ELSE m_size[s]]
      /\ m_psp' = [s \in Para |-> IF b < s /\ s < nxtMCB(b) THEN FREE_PSP ELSE m_psp[s]]
  BY DEF ProgramWrites
<1>2. heads \subseteq Para /\ nxtMCB(b) \in Nat /\ \A h \in heads : h \in Nat
  BY <1>1, NextHead DEF ChainIntact, MemTypeOK
<1>3. \A h \in heads : ~ (b < h /\ h < nxtMCB(b))
  BY <1>1, <1>2 DEF ChainIntact, Tiles
<1>4. \A h \in heads : m_type'[h] = m_type[h] /\ m_size'[h] = m_size[h] /\ m_psp'[h] = m_psp[h]
  BY <1>1, <1>2, <1>3
<1>5. MemTypeOK'
  <2>1. 0 \in 0..FFFF /\ FREE_PSP \in Nat
    BY Constants
  <2>2. m_type' \in [Para -> {"M", "Z", "-"}]
    BY <1>1 DEF MemTypeOK
  <2>3. m_size' \in [Para -> 0..FFFF]
    BY <2>1, <1>1 DEF MemTypeOK
  <2>4. m_psp' \in [Para -> Nat]
    BY <2>1, <1>1 DEF MemTypeOK
  <2> QED BY <2>2, <2>3, <2>4, <1>1, <1>2 DEF MemTypeOK
<1>6. Tiles'
  BY <1>1, <1>4 DEF ChainIntact, Tiles, nxtMCB
<1>7. Terminated'
  BY <1>1, <1>4 DEF ChainIntact, Terminated, nxtMCB, sysvars
<1>8. SystemBlocks'
  BY <1>1, <1>4 DEF ChainIntact, SystemBlocks, HasUmb, sysvars
<1>9. StaleHeaders'
  <2> SUFFICES ASSUME NEW s \in Para, s \notin heads
               PROVE  m_psp'[s] = FREE_PSP /\ (m_type'[s] \in {"M", "Z"} => m_size'[s] = FAKE)
    BY <1>1 DEF StaleHeaders, mcbFreeable
  <2>1. m_psp[s] = FREE_PSP /\ (m_type[s] \in {"M", "Z"} => m_size[s] = FAKE)
    BY DEF ChainIntact, StaleHeaders, mcbFreeable
  <2>2. CASE b < s /\ s < nxtMCB(b)
    BY <2>2, <1>1
  <2>3. CASE ~ (b < s /\ s < nxtMCB(b))
    BY <2>1, <2>3, <1>1
  <2> QED BY <2>2, <2>3
<1>10. LocalsTypeOK' /\ pc' = "idle"
  BY <1>1 DEF LocalsTypeOK, locals, sysvars
<1>11. LoopInv' /\ NeverPanics'
  BY <1>10 DEF NeverPanics, LoopInv, SearchInv, CheckInv, ChangeInv, LinkInv, FreeInv
<1> QED BY <1>5, <1>6, <1>7, <1>8, <1>9, <1>10, <1>11 DEF ChainIntact

LEMMA ReadInv ==
  ASSUME IInv, Read
  PROVE  IInv'
<1> USE DEF IInv, TypeOK
<1>1. pc' = "idle" /\ out' = Idle
      /\ UNCHANGED <<mcbs, sysvars, op, mode, size, p, found, biggest, keep, err>>
  BY DEF Read
<1>2. MemTypeOK' /\ ChainIntact'
  BY <1>1, ChainFrame DEF sysvars
<1>3. 0 \in 0..FFFF
  BY Constants
<1>4. LocalsTypeOK'
  BY <1>1, <1>3 DEF LocalsTypeOK, sysvars, Idle
<1>5. LoopInv' /\ NeverPanics'
  BY <1>1 DEF NeverPanics, LoopInv, SearchInv, CheckInv, ChangeInv, LinkInv, FreeInv
<1> QED BY <1>2, <1>4, <1>5

-----------------------------------------------------------------------------
(* The theorems *)

\* configDone leaves an intact chain, with upper memory not linked.
LEMMA InitInv ==
  ASSUME Init
  PROVE  IInv
<1> USE DEF TypeOK
<1>1. /\ FirstMcb \in Nat /\ 0 < FirstMcb /\ LowFree \in Nat /\ FirstMcb < LowFree
      /\ LowFree < Top /\ Top \in Nat /\ FirstMcb \in Para /\ LowFree \in Para
      /\ LowFree = FirstMcb + SysParas + 1
  BY Constants DEF LowFree, Para
<1>2. uppermem_root \in Roots /\ uppermem_root \in Nat /\ (~ HasUmb => uppermem_root = FFFF)
  BY MemAssumption DEF MemAssumption, Init, HasUmb, NoUmb
<1>3. HasUmb => /\ LowFree < uppermem_root /\ uppermem_root < HighFree /\ HighFree < Top
                /\ HighFree \in Nat /\ uppermem_root \in Para /\ HighFree \in Para
                /\ HighFree = uppermem_root + BridgeParas + 1
  <2> SUFFICES ASSUME HasUmb
               PROVE  /\ LowFree < uppermem_root /\ uppermem_root < HighFree /\ HighFree < Top
                      /\ HighFree \in Nat /\ uppermem_root \in Para /\ HighFree \in Para
                      /\ HighFree = uppermem_root + BridgeParas + 1
    OBVIOUS
  <2>1. LowFree < uppermem_root /\ uppermem_root + BridgeParas + 1 < Top
    BY <1>2, MemAssumption DEF MemAssumption, HasUmb, LowFree
  <2>2. HighFree = uppermem_root + BridgeParas + 1 /\ HighFree \in Nat /\ BridgeParas \in Nat
    BY <1>2, Constants DEF HighFree
  <2> QED BY <2>1, <2>2, <1>1, <1>2 DEF Para
<1>4. /\ heads = {FirstMcb, LowFree} \cup (IF HasUmb THEN {uppermem_root, HighFree} ELSE {})
      /\ heads \subseteq Para /\ uppermem_link = 0
      /\ uppermem_root # LowFree /\ uppermem_root # FirstMcb
  <2>1. uppermem_root # LowFree /\ uppermem_root # FirstMcb
    BY <1>1, <1>2, <1>3, Constants
  <2> QED BY <2>1, <1>1, <1>3 DEF Init
<1>5. /\ m_size[FirstMcb] = SysParas
      /\ m_size[LowFree] = (IF HasUmb THEN uppermem_root ELSE Top) - LowFree - 1
      /\ HasUmb => m_size[uppermem_root] = BridgeParas /\ m_size[HighFree] = Top - HighFree - 1
      /\ \A h \in Para \ heads : m_size[h] = 0
  <2>1. m_size = [h \in Para |->
                 CASE h = FirstMcb -> SysParas
                   [] h = LowFree -> (IF HasUmb THEN uppermem_root ELSE Top) - LowFree - 1
                   [] HasUmb /\ h = uppermem_root -> BridgeParas
                   [] HasUmb /\ h = HighFree -> Top - HighFree - 1
                   [] OTHER -> 0]
    BY DEF Init
  <2>0. /\ FirstMcb # LowFree
        /\ HasUmb => /\ HighFree # uppermem_root /\ HighFree # FirstMcb /\ HighFree # LowFree
                     /\ uppermem_root # FirstMcb /\ uppermem_root # LowFree
    BY <1>1, <1>2, <1>3
  <2>2. m_size[FirstMcb] = SysParas
    BY <2>0, <2>1, <1>1
  <2>3. m_size[LowFree] = (IF HasUmb THEN uppermem_root ELSE Top) - LowFree - 1
    BY <2>0, <2>1, <1>1
  <2>4. HasUmb => m_size[uppermem_root] = BridgeParas
    BY <2>0, <2>1, <1>3
  <2>5. HasUmb => m_size[HighFree] = Top - HighFree - 1
    BY <2>0, <2>1, <1>3
  <2>6. \A h \in Para \ heads : m_size[h] = 0
    BY <2>1, <1>4
  <2> QED BY <2>2, <2>3, <2>4, <2>5, <2>6
<1>6. /\ m_type = [h \in Para |-> IF h \notin heads THEN "-"
                                  ELSE IF h \in {FirstMcb, uppermem_root} THEN "M" ELSE "Z"]
      /\ m_psp = [h \in Para |-> IF h \in {FirstMcb, uppermem_root} THEN SYS ELSE FREE_PSP]
  BY DEF Init
<1>7. /\ nxtMCB(FirstMcb) = LowFree
      /\ nxtMCB(LowFree) = IF HasUmb THEN uppermem_root ELSE Top
      /\ HasUmb => nxtMCB(uppermem_root) = HighFree /\ nxtMCB(HighFree) = Top
  <2>1. nxtMCB(FirstMcb) = LowFree
    BY <1>1, <1>5, Constants DEF nxtMCB
  <2>2. nxtMCB(LowFree) = IF HasUmb THEN uppermem_root ELSE Top
    BY <1>1, <1>2, <1>5 DEF nxtMCB
  <2>3. HasUmb => nxtMCB(uppermem_root) = HighFree
    BY <1>2, <1>3, <1>5, Constants DEF nxtMCB
  <2>4. HasUmb => nxtMCB(HighFree) = Top
    BY <1>1, <1>3, <1>5 DEF nxtMCB
  <2> QED BY <2>1, <2>2, <2>3, <2>4
<1>8. \A h \in heads : m_size[h] \in Nat /\ m_size[h] < Top
  <2>1. m_size[FirstMcb] \in Nat /\ m_size[FirstMcb] < Top
    BY <1>1, <1>5, Constants
  <2>2. m_size[LowFree] \in Nat /\ m_size[LowFree] < Top
    <3>1. CASE HasUmb
      BY <3>1, <1>1, <1>2, <1>3, <1>5
    <3>2. CASE ~ HasUmb
      BY <3>2, <1>1, <1>5
    <3> QED BY <3>1, <3>2
  <2>3. HasUmb => m_size[uppermem_root] \in Nat /\ m_size[uppermem_root] < Top
    BY <1>2, <1>3, <1>5, Constants
  <2>4. HasUmb => m_size[HighFree] \in Nat /\ m_size[HighFree] < Top
    BY <1>1, <1>3, <1>5
  <2> QED BY <2>1, <2>2, <2>3, <2>4, <1>4
<1>9. MemTypeOK
  <2>1. \A h \in Para : m_size[h] \in 0..FFFF
    <3> SUFFICES ASSUME NEW h \in Para PROVE m_size[h] \in 0..FFFF
      OBVIOUS
    <3>1. CASE h \in heads
      BY <3>1, <1>8, Constants
    <3>2. CASE h \notin heads
      BY <3>2, <1>5, Constants
    <3> QED BY <3>1, <3>2
  <2>2. m_size = [h \in Para |-> m_size[h]]
    BY DEF Init
  <2>3. m_size \in [Para -> 0..FFFF]
    BY <2>1, <2>2
  <2>4. m_type \in [Para -> {"M", "Z", "-"}] /\ m_psp \in [Para -> Nat]
    BY <1>6, Constants
  <2> QED BY <2>3, <2>4, <1>4 DEF MemTypeOK
<1>10. LocalsTypeOK
  <2>1. 0 \in 0..FFFF
    BY Constants
  <2> QED BY <2>1 DEF LocalsTypeOK, Init, Idle
<1>11. Tiles
  <2>1. \A h \in heads : nxtMCB(h) \in heads \cup {Top}
    BY <1>4, <1>7
  <2>2. \A h, g \in heads : g > h => g >= nxtMCB(h)
    <3>1. CASE HasUmb
      <4>1. heads = {FirstMcb, LowFree, uppermem_root, HighFree}
        BY <3>1, <1>4
      <4> QED BY <3>1, <4>1, <1>1, <1>2, <1>3, <1>7
    <3>2. CASE ~ HasUmb
      <4>1. heads = {FirstMcb, LowFree}
        BY <3>2, <1>4
      <4> QED BY <3>2, <4>1, <1>1, <1>7
    <3> QED BY <3>1, <3>2
  <2> QED BY <2>1, <2>2, <1>4, <1>8 DEF Tiles
<1>12. Terminated
  <2> SUFFICES ASSUME NEW h \in heads
               PROVE  m_type[h] = IF nxtMCB(h) = Top \/ nxtMCB(h) = uppermem_root THEN "Z" ELSE "M"
    BY <1>4 DEF Terminated
  <2>0. m_type[h] = IF h \in {FirstMcb, uppermem_root} THEN "M" ELSE "Z"
    BY <1>4, <1>6
  <2>1. CASE h = FirstMcb
    BY <2>0, <2>1, <1>1, <1>4, <1>7
  <2>2. CASE h = LowFree
    BY <2>0, <2>2, <1>1, <1>4, <1>7
  <2>3. CASE HasUmb /\ h = uppermem_root
    BY <2>0, <2>3, <1>1, <1>2, <1>3, <1>7
  <2>4. CASE HasUmb /\ h = HighFree
    <3>1. h # FirstMcb /\ h # uppermem_root
      BY <2>4, <1>1, <1>2, <1>3
    <3> QED BY <2>0, <2>4, <3>1, <1>7
  <2> QED BY <2>1, <2>2, <2>3, <2>4, <1>4
<1>13. SystemBlocks
  BY <1>1, <1>3, <1>4, <1>6 DEF SystemBlocks
<1>14. StaleHeaders
  <2> SUFFICES ASSUME NEW s \in Para, s \notin heads
               PROVE  m_psp[s] = FREE_PSP /\ m_type[s] = "-"
    BY DEF StaleHeaders, mcbFreeable
  <2>1. s \notin {FirstMcb, uppermem_root}
    <3>1. uppermem_root \in Para => HasUmb
      BY <1>2, Constants DEF Para
    <3> QED BY <3>1, <1>4
  <2> QED BY <2>1, <1>6
<1>15. NeverPanics /\ LoopInv
  BY DEF Init, NeverPanics, LoopInv, SearchInv, CheckInv, ChangeInv, LinkInv, FreeInv
<1> QED BY <1>9, <1>10, <1>11, <1>12, <1>13, <1>14, <1>15 DEF IInv, ChainIntact

\* Steps that change nothing.
LEMMA StutterInv ==
  ASSUME IInv, UNCHANGED vars
  PROVE  IInv'
<1> USE DEF IInv, TypeOK, vars
<1>1. MemTypeOK' /\ ChainIntact'
  BY ChainFrame DEF sysvars
<1>2. LocalsTypeOK' /\ NeverPanics'
  BY DEF LocalsTypeOK, NeverPanics, sysvars, locals
<1>3. SearchInv' /\ CheckInv' /\ ChangeInv'
  BY DEF LoopInv, SearchInv, CheckInv, ChangeInv, Candidate, mcbFree, mcbs, sysvars, locals
<1>4. LinkInv' /\ FreeInv'
  BY DEF LoopInv, LinkInv, FreeInv, nxtMCB, HasUmb, mcbs, sysvars, locals
<1> QED BY <1>1, <1>2, <1>3, <1>4 DEF LoopInv

\* Every step of the kernel and of the programs keeps the inductive invariant.
LEMMA NextInv ==
  ASSUME IInv, [Next]_vars
  PROVE  IInv'
<1>1. CASE Kernel
  BY <1>1, SearchJoinInv, SearchVisitInv, SearchDecideInv, SearchTakeInv, CheckStepInv, GrowJoinInv,
     GrowEndInv, ShrinkInv, TailJoinInv, TailEndInv, LinkStepInv, LinkEndInv, FreeStepInv DEF Kernel
<1>2. CASE \E n \in Sizes : Alloc(n)
  BY <1>2, AllocInv
<1>3. CASE AllocLargest
  BY <1>3, AllocLargestInv
<1>4. CASE \E s \in Segments : Free(s)
  BY <1>4, FreeCallInv
<1>5. CASE \E s \in Segments, n \in Sizes : mcbFreeable(s) /\ Change(s, n)
  BY <1>5, ChangeCallInv
<1>6. CASE \E n \in 0..2 : UmbLink(n)
  BY <1>6, UmbLinkInv
<1>7. CASE Terminate
  BY <1>7, TerminateInv
<1>8. CASE (\E m \in Modes : SetStrategy(m)) \/ (\E ps \in Psps : SetPsp(ps))
  BY <1>8, SettingsInv
<1>9. CASE \E s \in Para : ProgramWrites(s)
  BY <1>9, ProgramWritesInv
<1>10. CASE Read
  BY <1>10, ReadInv
<1>11. CASE UNCHANGED vars
  BY <1>11, StutterInv
<1> QED BY <1>1, <1>2, <1>3, <1>4, <1>5, <1>6, <1>7, <1>8, <1>9, <1>10, <1>11 DEF Next

\* The inductive invariant holds in every reachable state.
THEOREM Invariance == Spec => []IInv
  BY InitInv, NextInv, PTL DEF Spec

\* Headers, pointers and answers keep their types: no join makes a size that
\* does not fit 16 bits, no loop leaves memory.
THEOREM TypeCorrect == Spec => []TypeOK
<1>1. IInv => TypeOK
  BY DEF IInv
<1> QED BY <1>1, Invariance, PTL

\* The MCB chain tiles memory, ends where it should, and stale headers stay
\* harmless, in every state of every call: joins, splits, linking and freeing.
THEOREM ChainStaysIntact == Spec => []ChainIntact
<1>1. IInv => ChainIntact
  BY DEF IInv
<1> QED BY <1>1, Invariance, PTL

\* DosMemCheck, which INT 21h runs before and after resizing and after every
\* failure, never panics with "MCB chain corrupted".
THEOREM NoPanic == Spec => []NeverPanics
<1>1. IInv => NeverPanics
  BY DEF IInv
<1> QED BY <1>1, Invariance, PTL
=============================================================================
