---------------------------- MODULE FloppyProofs ----------------------------
(***************************************************************************)
(* Proofs about Floppy and the transfers it is made of. Whatever pages,    *)
(* tracks, upper memory, errors and retries there are, a transfer moves    *)
(* what it says, in chunks that fit; and for any diskettes, letters and    *)
(* requests, nothing of a diskette that was taken out is used for another  *)
(* one, and unwritten data goes to the diskette it belongs to.             *)
(***************************************************************************)
EXTENDS Floppy, FiniteSetTheorems, TLAPS

-----------------------------------------------------------------------------
(* Arithmetic *)

LEMMA ModSmall ==
  ASSUME NEW x \in Nat, NEW m \in Nat \ {0}, x < m
  PROVE  x % m = x
  BY SMT

LEMMA ModRange ==
  ASSUME NEW x \in Nat, NEW m \in Nat \ {0}
  PROVE  x % m \in 0..m-1
  BY SMT

LEMMA ModAtMost ==
  ASSUME NEW x \in Nat, NEW m \in Nat \ {0}
  PROVE  x % m \in Nat /\ x % m <= x
  BY SMT

LEMMA DivBelow ==
  ASSUME NEW k \in Nat, NEW m \in Nat \ {0}
  PROVE  k \div m \in Nat /\ (k \div m) * m <= k
  BY SMT

LEMMA DivMonotone ==
  ASSUME NEW k \in Nat, NEW l \in Nat, NEW m \in Nat \ {0}, k <= l
  PROVE  k \div m <= l \div m
  BY SMT

LEMMA TimesMonotone ==
  ASSUME NEW a \in Nat, NEW b \in Nat, NEW c \in Nat, a <= b
  PROVE  a * c <= b * c /\ c * a <= c * b
  BY SMT

LEMMA TimesPlus ==
  ASSUME NEW a \in Nat, NEW b \in Nat, NEW c \in Nat
  PROVE  (a + b) * c = a * c + b * c /\ a * c \in Nat
  BY SMT

-----------------------------------------------------------------------------
(* The constants *)

\* What is known of a request and of the unit it is for.
LEMMA CallFacts ==
  ASSUME NEW r \in Calls
  PROVE  /\ r.unit \in Units /\ r.buf \in Nat /\ r.start \in Nat /\ r.n \in Nat
         /\ r_trans(r) \in Nat
         /\ r.who \in {"kernel", "int25", "driver"}
         /\ r.who = "kernel" => r \in Requests
  <1>1. CASE r \in Requests
    BY <1>1, RequestAssumption, SizeAssumption DEF r_trans
  <1>2. CASE r \in {Zero(u, m) : u \in Units, m \in Modes}
    BY <1>2, SizeAssumption DEF Zero, r_trans
  <1> QED BY <1>1, <1>2 DEF Calls

LEMMA UnitFacts ==
  ASSUME NEW u \in Units
  PROVE  /\ Geometry[u].secs \in Nat \ {0} /\ Geometry[u].first \in Nat
         /\ Geometry[u].size \in Nat \ {0}
         /\ Geometry[u].first + Geometry[u].size <= Word
  BY GeometryAssumption

LEMMA BlocksFacts == Blocks \in Nat /\ 1 < Blocks /\ High \in Nat
  <1>1. MaxSecSize \in Nat \ {0} /\ MaxSecSize <= Page - 1 /\ Page - 1 \in Nat
    BY SizeAssumption
  <1>2. MaxSecSize \div MaxSecSize = 1
    BY <1>1, SMT
  <1>3. MaxSecSize \div MaxSecSize <= (Page - 1) \div MaxSecSize
    BY <1>1, DivMonotone
  <1>4. (Page - 1) \div MaxSecSize \in Nat
    BY <1>1, DivBelow
  <1> QED BY <1>2, <1>3, <1>4, SizeAssumption

\* A request to be cut is an absolute one, and is not moved through deblock_buf.
LEMMA CutFacts ==
  ASSUME NEW r \in Calls, Cut(r)
  PROVE  /\ Geometry[r.unit].lba /\ Geometry[r.unit].transparent
         /\ r.buf < High /\ r.n >= Blocks
         /\ r.who = "int25" /\ r_trans(r) = r.buf
  <1>1. /\ Geometry[r.unit].lba /\ Geometry[r.unit].transparent
        /\ r.buf < High /\ r.n >= Blocks
    BY DEF Cut
  <1>2. r.n \in Nat /\ r.buf \in Nat /\ r.who \in {"kernel", "int25", "driver"}
    BY CallFacts
  <1>3. r.who # "kernel"
    BY <1>1, <1>2, CallFacts, RequestAssumption, BlocksFacts
  <1>4. r.who # "driver"
    BY <1>1, <1>2, BlocksFacts, RequestAssumption DEF Calls, Zero
  <1>5. r_trans(r) = r.buf
    BY <1>1, <1>2, BlocksFacts DEF r_trans, Deblocked
  <1> QED BY <1>1, <1>2, <1>3, <1>4, <1>5

\* What fits into a page is less than a byte can say and ends with the page.
LEMMA DMAFits ==
  ASSUME NEW a \in Nat, NEW n \in Nat
  PROVE  LET c == DMA_max_transfer(a, n)
         IN  /\ c \in Nat /\ c <= n /\ c < Blocks
             /\ (a % Page) + c * SecSize <= Page
  <1> DEFINE off == a % Page
             room == IF off = 0 THEN Page - 1 ELSE Page - off
             fit == room \div MaxSecSize
             c == DMA_max_transfer(a, n)
  <1>1. Page \in Nat \ {0} /\ MaxSecSize \in Nat \ {0} /\ SecSize \in Nat
        /\ SecSize <= MaxSecSize /\ Blocks \in Nat
        /\ (Page - 1) \div MaxSecSize < Blocks
    BY SizeAssumption
  <1>2. off \in 0..Page-1
    BY <1>1, ModRange
  <1> HIDE DEF off
  <1>3. room \in Nat /\ room <= Page - 1 /\ off + room <= Page
    BY <1>1, <1>2
  <1> HIDE DEF room
  <1>4. fit \in Nat /\ fit * MaxSecSize <= room
    BY <1>1, <1>3, DivBelow
  <1>5. fit <= (Page - 1) \div MaxSecSize
    BY <1>1, <1>3, DivMonotone
  <1>6. (Page - 1) \div MaxSecSize \in Nat
    BY <1>1, DivBelow
  <1>7. c = IF n <= fit THEN n ELSE fit
    BY DEF DMA_max_transfer, off, room
  <1> HIDE DEF fit, c
  <1>8. c \in Nat /\ c <= n /\ c <= fit
    BY <1>4, <1>7
  <1>9. c * SecSize <= fit * MaxSecSize
    <2>1. c * SecSize <= fit * SecSize /\ fit * SecSize <= fit * MaxSecSize
      BY <1>1, <1>4, <1>8, TimesMonotone
    <2>2. c * SecSize \in Nat /\ fit * SecSize \in Nat /\ fit * MaxSecSize \in Nat
      BY <1>1, <1>4, <1>8, TimesPlus
    <2> QED BY <2>1, <2>2
  <1>10. c * SecSize \in Nat /\ fit * MaxSecSize \in Nat
    BY <1>1, <1>4, <1>8, TimesPlus
  <1>11. off + c * SecSize <= Page
    BY <1>1, <1>2, <1>3, <1>4, <1>9, <1>10
  <1>12. c < Blocks
    BY <1>1, <1>4, <1>5, <1>6, <1>8
  <1> QED BY <1>8, <1>11, <1>12 DEF c, off

Plus(x, y) == x + y
After(a, m) == a + m * SecSize

\* Chunks that follow each other add up.
LEMMA PairsAdd ==
  ASSUME NEW a \in Nat, NEW s \in Nat, NEW m \in Nat, NEW n \in Nat
  PROVE  Pairs(a, s, m) \cup Pairs(After(a, m), Plus(s, m), n) = Pairs(a, s, Plus(m, n))
  <1>1. SecSize \in Nat
    BY SizeAssumption
  <1>2. m * SecSize \in Nat
    BY <1>1, TimesPlus
  <1>3. ASSUME NEW i \in 0..n-1
        PROVE  <<a + m * SecSize + i * SecSize, s + m + i>>
                 = <<a + (m + i) * SecSize, s + (m + i)>>
    <2>1. i \in Nat
      OBVIOUS
    <2>2. (m + i) * SecSize = m * SecSize + i * SecSize /\ i * SecSize \in Nat
      BY <1>1, <2>1, TimesPlus
    <2>3. a + m * SecSize + i * SecSize = a + (m + i) * SecSize
      BY <1>2, <2>2
    <2>4. s + m + i = s + (m + i)
      BY <2>1
    <2> QED BY <2>3, <2>4
  <1>4. Pairs(a, s, m) \subseteq Pairs(a, s, m + n)
    BY DEF Pairs
  <1>5. Pairs(a + m * SecSize, s + m, n) \subseteq Pairs(a, s, m + n)
    <2>1. ASSUME NEW i \in 0..n-1
          PROVE  <<a + m * SecSize + i * SecSize, s + m + i>> \in Pairs(a, s, m + n)
      <3>1. m + i \in 0..(m + n)-1
        OBVIOUS
      <3> QED BY <1>3, <3>1 DEF Pairs
    <2> QED BY <2>1 DEF Pairs
  <1>6. ASSUME NEW k \in 0..(m + n)-1
        PROVE  <<a + k * SecSize, s + k>>
                 \in Pairs(a, s, m) \cup Pairs(a + m * SecSize, s + m, n)
    <2>1. CASE k < m
      <3>1. k \in 0..m-1
        BY <2>1
      <3> QED BY <3>1 DEF Pairs
    <2>2. CASE k >= m
      <3>1. k - m \in 0..n-1 /\ m + (k - m) = k
        BY <2>2
      <3>2. <<a + m * SecSize + (k - m) * SecSize, s + m + (k - m)>> = <<a + k * SecSize, s + k>>
        BY <1>3, <3>1
      <3> QED BY <3>1, <3>2 DEF Pairs
    <2> QED BY <2>1, <2>2
  <1>7. Pairs(a, s, m + n) \subseteq Pairs(a, s, m) \cup Pairs(a + m * SecSize, s + m, n)
    BY <1>6 DEF Pairs
  <1> QED BY <1>4, <1>5, <1>7 DEF Plus, After

-----------------------------------------------------------------------------
(* The inductive invariant of transfers *)

Steps == {"idle", "blockio", "loop", "bios", "failed"} \cup Outcomes

\* A transfer under way is where "transferred" says, in memory, on the disk and
\* in what was moved; one whose count is cut is done all at once.
UnderWay ==
  Moving =>
    /\ call.start + call.n <= geo.size
    /\ transferred + totaltodo = call.n
    /\ buffer = r_trans(call) + transferred * SecSize
    /\ LBA_address = First + transferred
    /\ moved = Pairs(r_trans(call), First, Carried(transferred))
    /\ pc = "ok" => totaltodo = 0
    /\ Cut(call) => transferred = 0 \/ totaltodo = 0

\* The chunk chosen at the head of the loop, cut at the end of a track or not.
ChunkChosen ==
  pc = "bios" =>
    /\ count \in 1..totaltodo
    /\ geo.lba => IF Cut(call) THEN count = totaltodo ELSE count < Blocks
    /\ bounced => count = 1
    /\ ~bounced => /\ buffer < High
                   /\ geo.transparent \/ (buffer % Page) + count * SecSize <= Page

Numbers == /\ buffer \in Nat /\ LBA_address \in Nat
           /\ totaltodo \in Nat /\ transferred \in Nat

TransferInv ==
  /\ pc \in Steps
  /\ pc # "idle" => call \in Calls
  /\ pc = "blockio" => call \in Requests
  /\ Numbers /\ bounced \in BOOLEAN
  /\ UnderWay /\ ChunkChosen

LEMMA InitInv == TransferInit => TransferInv
  <1> SUFFICES ASSUME TransferInit PROVE TransferInv
    OBVIOUS
  <1>1. pc = "idle" /\ ~Moving
    BY DEF TransferInit, Moving
  <1>2. Numbers /\ bounced \in BOOLEAN
    BY DEF TransferInit, Numbers
  <1> QED
    BY <1>1, <1>2 DEF TransferInv, Steps, UnderWay, ChunkChosen

\* A transfer that begins: nothing is done and all of it is inside the volume.
LEMMA BeginInv ==
  ASSUME NEW r \in Calls, call' = r,
         r.start + r.n <= Geometry[r.unit].size,
         bounced \in BOOLEAN,
         LBA_Transfer(r, Geometry[r.unit].first + r.start)
  PROVE  TransferInv'
  <1> DEFINE R == r_trans(r)
             F == Geometry[r.unit].first + r.start
  <1>1. R \in Nat /\ F \in Nat /\ r.n \in Nat
    BY CallFacts, UnitFacts
  <1>2. /\ pc' = "loop" /\ buffer' = R /\ LBA_address' = F
        /\ totaltodo' = r.n /\ transferred' = 0 /\ moved' = {} /\ bounced' = bounced
    BY DEF LBA_Transfer
  <1>3. First' = F /\ r_trans(call)' = R /\ geo' = Geometry[r.unit]
    BY DEF First, geo, r_trans, Deblocked
  <1>4. SecSize \in Nat /\ 0 * SecSize = 0
    BY SizeAssumption, SMT
  <1>5. Pairs(R, F, 0) = {}
    BY DEF Pairs
  <1>7. Carried(transferred)' = 0
    BY <1>2, BlocksFacts, ModSmall DEF Carried
  <1> HIDE DEF R, F
  <1>6. UnderWay'
    BY <1>1, <1>2, <1>3, <1>4, <1>5, <1>7 DEF UnderWay
  <1> QED
    BY <1>1, <1>2, <1>6 DEF TransferInv, Steps, Numbers, ChunkChosen

LEMMA StartInv ==
  ASSUME TransferInv, blockio
  PROVE  TransferInv'
  <1>1. call \in Requests /\ call \in Calls /\ call' = call /\ InRange(call) /\ bounced \in BOOLEAN
    BY DEF TransferInv, blockio, Calls
  <1>2. /\ call.unit \in Units /\ call.start \in Nat /\ call.n \in Nat
        /\ geo.first \in Nat /\ geo.size \in Nat \ {0} /\ geo.first + geo.size <= Word
        /\ geo.size + call.n <= Word /\ Word \in Nat
    BY <1>1, CallFacts, UnitFacts, RequestAssumption, SizeAssumption DEF geo
  <1>3. call.start < geo.size /\ (call.start + call.n) % Word <= geo.size
    BY <1>1 DEF InRange, geo
  <1>4. (call.start + call.n) % Word = call.start + call.n
    BY <1>2, <1>3, ModSmall
  <1>5. (call.start + geo.first) % Word = geo.first + call.start
    BY <1>2, <1>3, ModSmall
  <1>6. LBA_Transfer(call, geo.first + call.start)
    BY <1>5 DEF blockio
  <1> QED BY <1>1, <1>3, <1>4, <1>6, BeginInv DEF geo

LEMMA ZeroInv ==
  ASSUME TransferInv, NEW u \in Units, NEW m \in Modes, RWzero(u, m)
  PROVE  TransferInv'
  <1> DEFINE r == Zero(u, m)
  <1>1. r \in Calls /\ call' = r /\ r.unit = u /\ r.start = 0 /\ r.n = 1
    BY DEF Calls, RWzero, Zero
  <1>2. Geometry[u].first \in Nat /\ Geometry[u].size \in Nat \ {0}
    BY UnitFacts
  <1>3. LBA_Transfer(r, Geometry[u].first + r.start)
    BY <1>1, <1>2 DEF RWzero
  <1>4. r.start + r.n <= Geometry[u].size
    BY <1>1, <1>2
  <1> HIDE DEF r
  <1> QED BY <1>1, <1>3, <1>4, BeginInv DEF TransferInv

LEMMA ChunkInv ==
  ASSUME TransferInv, Chunk
  PROVE  TransferInv'
  <1>1. /\ pc = "loop" /\ pc' = "bios" /\ totaltodo # 0
        /\ bounced' = (buffer >= High \/ Fitting = 0)
        /\ count' = IF bounced' THEN 1 ELSE Fitting
        /\ UNCHANGED <<call, progress>>
    BY DEF Chunk
  <1>2. call \in Calls /\ Numbers /\ UnderWay
    BY <1>1 DEF TransferInv
  <1>3. UnderWay'
    BY <1>1, <1>2 DEF UnderWay, progress, Moving, First, geo, r_trans, Deblocked, Carried, Cut
  <1>4. /\ buffer' = buffer /\ totaltodo' = totaltodo /\ geo' = geo
        /\ buffer \in Nat /\ totaltodo \in Nat /\ Cut(call)' = Cut(call)
    BY <1>1, <1>2 DEF Numbers, progress, geo, Cut
  <1>5. /\ Fitting \in Nat /\ Fitting <= totaltodo
        /\ geo.transparent \/ (buffer % Page) + Fitting * SecSize <= Page
        /\ ~geo.transparent => Fitting < Blocks
        /\ geo.transparent => Fitting = totaltodo
    <2>1. CASE geo.transparent
      BY <1>4, <2>1 DEF Fitting
    <2>2. CASE ~geo.transparent
      <3>1. Fitting = DMA_max_transfer(buffer, totaltodo)
        BY <2>2 DEF Fitting
      <3> QED BY <1>4, <2>2, <3>1, DMAFits
    <2> QED BY <2>1, <2>2
  <1> HIDE DEF Fitting
  <1>6. ASSUME ~bounced' PROVE ChunkChosen'
    <2>1. ~(buffer >= High) /\ Fitting # 0 /\ count' = Fitting
      BY <1>1, <1>6
    <2>2. buffer < High /\ count' \in 1..totaltodo
      BY <1>4, <1>5, <2>1, BlocksFacts
    <2>3. ASSUME geo.lba, ~Cut(call) PROVE Fitting < Blocks
      <3>1. CASE geo.transparent
        \* The chunk is all of the request: before it nothing was done.
        <4>1. /\ transferred \in Nat /\ transferred + totaltodo = call.n
              /\ call.n \in Nat /\ call.buf \in Nat /\ r_trans(call) \in Nat
              /\ buffer = r_trans(call) + transferred * SecSize
          BY <1>1, <1>2, CallFacts DEF UnderWay, Moving, Numbers
        <4>2. transferred * SecSize \in Nat
          BY <4>1, TimesPlus, SizeAssumption
        <4>3. r_trans(call) < High
          BY <2>2, <4>1, <4>2, BlocksFacts
        <4>4. CASE Deblocked(call)
          <5>1. call.n = 1
            BY <4>4 DEF Deblocked
          <5> QED BY <1>4, <1>5, <3>1, <4>1, <5>1, BlocksFacts
        <4>5. CASE ~Deblocked(call)
          <5>1. call.buf < High
            BY <4>3, <4>5 DEF r_trans
          <5>2. ~(call.n >= Blocks)
            BY <2>3, <3>1, <5>1 DEF Cut, geo
          <5> QED BY <1>4, <1>5, <3>1, <4>1, <5>2, BlocksFacts
        <4> QED BY <4>4, <4>5
      <3>2. CASE ~geo.transparent
        BY <1>5, <3>2
      <3> QED BY <3>1, <3>2
    <2>4. Cut(call) => Fitting = totaltodo
      BY <1>5 DEF Cut, geo
    <2>5. count' \in 1..totaltodo' /\ buffer' < High
          /\ (geo'.lba => IF Cut(call)' THEN count' = totaltodo' ELSE count' < Blocks)
      BY <1>4, <2>1, <2>2, <2>3, <2>4
    <2>6. geo'.transparent \/ (buffer' % Page) + count' * SecSize <= Page
      BY <1>4, <1>5, <2>1
    <2> QED BY <1>6, <2>5, <2>6 DEF ChunkChosen
  <1>7. ASSUME bounced' PROVE ChunkChosen'
    <2>1. count' = 1 /\ totaltodo >= 1
      BY <1>1, <1>4, <1>7
    <2>2. ~Cut(call)
      \* What is to be cut begins below upper memory, with something to do.
      <3> SUFFICES ASSUME Cut(call) PROVE FALSE
        OBVIOUS
      <3>1. geo.transparent /\ call.buf < High /\ r_trans(call) = call.buf /\ call.n >= Blocks
        BY <1>2, CutFacts DEF geo
      <3>2. transferred = 0 /\ buffer = r_trans(call) + transferred * SecSize
        BY <1>1, <1>2 DEF UnderWay, Moving
      <3>3. buffer = call.buf
        BY <1>2, <3>1, <3>2, CallFacts, SizeAssumption, SMT
      <3>4. ~(buffer >= High) /\ Fitting # 0
        BY <1>1, <1>2, <1>5, <3>1, <3>3, CallFacts, BlocksFacts
      <3> QED BY <1>1, <1>7, <3>4
    <2> QED BY <1>4, <1>7, <2>1, <2>2, BlocksFacts DEF ChunkChosen
  <1>8. ChunkChosen'
    BY <1>6, <1>7
  <1> QED
    BY <1>1, <1>2, <1>3, <1>8 DEF TransferInv, Steps, Numbers, progress

\* A chunk is cut to what its track has left, which is never nothing.
LEMMA ClippedFacts ==
  ASSUME TransferInv, pc = "bios"
  PROVE  /\ Clipped \in Nat /\ Clipped >= 1 /\ Clipped <= count /\ count \in Nat
         /\ ~geo.lba => (LBA_address % geo.secs) + Clipped <= geo.secs
         /\ Taken = IF Cut(call) THEN totaltodo % Blocks ELSE Clipped
         /\ Cut(call) => Clipped = totaltodo
  <1>1. /\ geo.secs \in Nat \ {0} /\ LBA_address \in Nat
        /\ totaltodo \in Nat /\ count \in 1..totaltodo
        /\ geo.lba => IF Cut(call) THEN count = totaltodo ELSE count < Blocks
    BY CallFacts, UnitFacts DEF TransferInv, Numbers, ChunkChosen, geo
  <1>2. LBA_address % geo.secs \in 0..geo.secs-1
    BY <1>1, ModRange
  <1>3. /\ Clipped \in Nat /\ Clipped >= 1 /\ Clipped <= count
        /\ ~geo.lba => (LBA_address % geo.secs) + Clipped <= geo.secs
    <2> DEFINE done == LBA_address % geo.secs
    <2>1. LeftOnTrack = geo.secs - done
      BY DEF LeftOnTrack
    <2>2. done \in 0..geo.secs-1
      BY <1>2
    <2> HIDE DEF done
    <2>3. CASE geo.lba
      BY <1>1, <2>3 DEF Clipped
    <2>4. CASE ~geo.lba /\ count <= LeftOnTrack
      <3>1. Clipped = count
        BY <2>4 DEF Clipped
      <3>2. done + count <= geo.secs
        BY <1>1, <2>1, <2>2, <2>4
      <3> QED BY <1>1, <3>1, <3>2 DEF done
    <2>5. CASE ~geo.lba /\ ~(count <= LeftOnTrack)
      <3>1. Clipped = LeftOnTrack
        BY <2>5 DEF Clipped
      <3>2. /\ LeftOnTrack \in Nat /\ LeftOnTrack >= 1 /\ LeftOnTrack <= count
            /\ done + LeftOnTrack <= geo.secs
        BY <1>1, <2>1, <2>2, <2>5
      <3> QED BY <3>1, <3>2 DEF done
    <2> QED BY <2>3, <2>4, <2>5
  <1>4. CASE Cut(call)
    <2>1. geo.lba /\ Clipped = totaltodo
      BY <1>1, <1>4 DEF Cut, geo, Clipped
    <2> QED BY <1>1, <1>3, <1>4, <2>1 DEF Taken
  <1>5. CASE ~Cut(call) /\ geo.lba
    <2>1. Clipped < Blocks /\ Blocks \in Nat \ {0}
      BY <1>1, <1>3, <1>5, BlocksFacts
    <2>2. Clipped % Blocks = Clipped
      BY <1>3, <2>1, ModSmall
    <2> QED BY <1>1, <1>3, <1>5, <2>2 DEF Taken
  <1>6. CASE ~Cut(call) /\ ~geo.lba
    BY <1>1, <1>3, <1>6 DEF Taken
  <1> QED BY <1>4, <1>5, <1>6

LEMMA BiosOkInv ==
  ASSUME TransferInv, BiosOk
  PROVE  TransferInv'
  <1>1. /\ pc = "bios" /\ pc' = "loop" /\ bounced' = bounced /\ call' = call
        /\ moved' = moved \cup Pairs(buffer, LBA_address, Taken)
        /\ transferred' = transferred + Clipped
        /\ LBA_address' = LBA_address + Clipped
        /\ totaltodo' = totaltodo - Clipped
        /\ buffer' = buffer + Clipped * SecSize
    BY DEF BiosOk
  <1>2. /\ Clipped \in Nat /\ Clipped >= 1 /\ Clipped <= count /\ count \in 1..totaltodo
        /\ Taken = IF Cut(call) THEN totaltodo % Blocks ELSE Clipped
        /\ Cut(call) => Clipped = totaltodo
    BY <1>1, ClippedFacts DEF TransferInv, ChunkChosen
  <1>3. call \in Calls /\ Numbers /\ bounced \in BOOLEAN
    BY <1>1 DEF TransferInv
  <1>4. /\ call.start + call.n <= geo.size
        /\ transferred + totaltodo = call.n
        /\ buffer = r_trans(call) + transferred * SecSize
        /\ LBA_address = First + transferred
        /\ moved = Pairs(r_trans(call), First, Carried(transferred))
        /\ Cut(call) => transferred = 0 \/ totaltodo = 0
    BY <1>1 DEF TransferInv, UnderWay, Moving
  <1>5. /\ geo' = geo /\ First' = First /\ r_trans(call)' = r_trans(call)
        /\ Cut(call)' = Cut(call)
        /\ Carried(transferred)' = IF Cut(call) THEN transferred' % Blocks ELSE transferred'
    BY <1>1 DEF geo, First, r_trans, Deblocked, Cut, Carried
  <1>6. r_trans(call) \in Nat /\ First \in Nat /\ SecSize \in Nat
    BY <1>3, CallFacts, UnitFacts, SizeAssumption DEF First, geo
  <1> HIDE DEF Clipped, Taken
  <1>7. /\ (transferred + Clipped) * SecSize = transferred * SecSize + Clipped * SecSize
        /\ Clipped * SecSize \in Nat /\ transferred * SecSize \in Nat
    BY <1>2, <1>3, <1>6, TimesPlus DEF Numbers
  <1>8. Numbers'
    BY <1>1, <1>2, <1>3, <1>7 DEF Numbers
  <1>9. buffer' = r_trans(call) + transferred' * SecSize
    BY <1>1, <1>4, <1>6, <1>7
  <1>10. LBA_address' = First + transferred'
    BY <1>1, <1>2, <1>3, <1>4, <1>6 DEF Numbers
  <1>14. ASSUME Cut(call)
         PROVE  moved' = Pairs(r_trans(call), First, Carried(transferred)') /\ totaltodo' = 0
    <2>1. totaltodo # 0
      BY <1>2, <1>3 DEF Numbers
    <2>2. transferred = 0 /\ Clipped = totaltodo
      BY <1>2, <1>4, <1>14, <2>1
    <2>3. /\ transferred' = totaltodo /\ totaltodo' = 0
      BY <1>1, <1>3, <2>2 DEF Numbers
    <2>4. buffer = r_trans(call) /\ LBA_address = First
      BY <1>4, <1>6, <2>2, SMT
    <2>5. moved = {}
      <3>1. Carried(transferred) = 0
        BY <1>14, <2>2, BlocksFacts, ModSmall DEF Carried
      <3> QED BY <1>4, <3>1 DEF Pairs
    <2>6. Carried(transferred)' = Taken
      BY <1>2, <1>5, <1>14, <2>3
    <2>7. moved' = Pairs(r_trans(call), First, Carried(transferred)')
      BY <1>1, <2>4, <2>5, <2>6
    <2> QED BY <2>3, <2>7
  <1>15. ASSUME ~Cut(call)
         PROVE  moved' = Pairs(r_trans(call), First, Carried(transferred)')
    <2> DEFINE R == r_trans(call)
               F == First
    <2>1. R \in Nat /\ F \in Nat /\ transferred \in Nat
      BY <1>3, <1>6 DEF Numbers
    <2> DEFINE C == Clipped
    <2>2. C \in Nat /\ transferred' = transferred + C
      BY <1>1, <1>2
    <2>3. buffer = After(R, transferred) /\ LBA_address = Plus(F, transferred)
          /\ transferred' = Plus(transferred, C)
      BY <1>4, <2>2 DEF After, Plus
    <2>4. moved' = Pairs(R, F, transferred) \cup Pairs(buffer, LBA_address, C)
      BY <1>1, <1>2, <1>4, <1>15 DEF Carried
    <2> HIDE DEF R, F, C
    <2>5. Pairs(R, F, transferred) \cup Pairs(After(R, transferred), Plus(F, transferred), C)
            = Pairs(R, F, Plus(transferred, C))
      BY <2>1, <2>2, PairsAdd
    <2>6. moved' = Pairs(r_trans(call), First, transferred')
      BY <2>3, <2>4, <2>5 DEF R, F
    <2> QED BY <1>5, <1>15, <2>6
  <1>11. /\ moved' = Pairs(r_trans(call), First, Carried(transferred)')
         /\ Cut(call)' => transferred' = 0 \/ totaltodo' = 0
    BY <1>5, <1>14, <1>15
  <1>12. transferred' + totaltodo' = call.n
    BY <1>1, <1>2, <1>3, <1>4 DEF Numbers
  <1>13. UnderWay'
    BY <1>1, <1>4, <1>5, <1>9, <1>10, <1>11, <1>12 DEF UnderWay
  <1> QED
    BY <1>1, <1>3, <1>8, <1>13 DEF TransferInv, Steps, ChunkChosen

LEMMA BiosErrorInv ==
  ASSUME TransferInv, BiosError
  PROVE  TransferInv'
  <1>1. /\ pc = "bios" /\ pc' \in {"bios", "failed"} /\ count' = Clipped
        /\ UNCHANGED <<call, progress, bounced>>
    BY DEF BiosError
  <1>2. /\ Clipped \in Nat /\ Clipped >= 1 /\ Clipped <= count
        /\ Cut(call) => Clipped = totaltodo
    BY <1>1, ClippedFacts
  <1>3. /\ call \in Calls /\ Numbers /\ bounced \in BOOLEAN
        /\ count \in 1..totaltodo /\ (geo.lba /\ ~Cut(call) => count < Blocks)
        /\ bounced => count = 1
        /\ ~bounced => /\ buffer < High
                       /\ geo.transparent \/ (buffer % Page) + count * SecSize <= Page
    BY <1>1 DEF TransferInv, ChunkChosen
  <1>4. UnderWay'
    BY <1>1 DEF TransferInv, UnderWay, progress, Moving, First, geo, r_trans, Deblocked,
                Carried, Cut
  <1>5. Clipped * SecSize <= count * SecSize
    BY <1>2, <1>3, TimesMonotone, SizeAssumption DEF Numbers
  <1>6. Clipped * SecSize \in Nat /\ count * SecSize \in Nat /\ buffer % Page \in Nat
        /\ Blocks \in Nat /\ Page \in Nat
    BY <1>2, <1>3, TimesPlus, ModRange, SizeAssumption DEF Numbers
  <1> HIDE DEF Clipped
  <1>7. (buffer % Page) + count * SecSize <= Page => (buffer % Page) + Clipped * SecSize <= Page
    BY <1>5, <1>6
  <1>8. /\ buffer' = buffer /\ totaltodo' = totaltodo /\ bounced' = bounced /\ geo' = geo
        /\ totaltodo \in Nat /\ Blocks \in Nat /\ Cut(call)' = Cut(call)
    BY <1>1, <1>3, SizeAssumption DEF progress, geo, Numbers, Cut
  <1>9. /\ count' \in 1..totaltodo' /\ (bounced' => count' = 1)
        /\ geo'.lba => IF Cut(call)' THEN count' = totaltodo' ELSE count' < Blocks
    BY <1>1, <1>2, <1>3, <1>8
  <1>10. ~bounced' => /\ buffer' < High
                      /\ geo'.transparent \/ (buffer' % Page) + count' * SecSize <= Page
    BY <1>1, <1>3, <1>7, <1>8
  <1>11. ChunkChosen'
    BY <1>9, <1>10 DEF ChunkChosen
  <1> QED
    BY <1>1, <1>3, <1>4, <1>11 DEF TransferInv, Steps, Numbers, progress

\* Steps that move nothing.
LEMMA OtherInv ==
  ASSUME TransferInv,
         \/ \E r \in Requests : dskxfer(r)
         \/ OutOfRange \/ BiosTooFar \/ Done \/ Fail \/ Retry \/ Ignore \/ Collect
  PROVE  TransferInv'
  <1>1. CASE \E r \in Requests : dskxfer(r)
    BY <1>1 DEF TransferInv, dskxfer, Steps, Calls, Numbers, progress, UnderWay, Moving, ChunkChosen
  <1>2. CASE OutOfRange \/ BiosTooFar \/ Fail \/ Ignore
    BY <1>2 DEF TransferInv, OutOfRange, BiosTooFar, Fail, Ignore, End, Steps, Outcomes,
                Numbers, progress, UnderWay, Moving, ChunkChosen
  <1>3. CASE Done
    <2>1. UnderWay'
      BY <1>3 DEF TransferInv, Done, End, progress, UnderWay, Moving, First, geo, r_trans, Deblocked,
                  Carried, Cut
    <2> QED
      BY <1>3, <2>1 DEF TransferInv, Done, End, Steps, Outcomes, Numbers, progress, ChunkChosen
  <1>4. CASE Retry
    <2>1. call \in Requests
      BY <1>4, CallFacts DEF Retry, TransferInv
    <2> QED
      BY <1>4, <2>1 DEF TransferInv, Retry, Steps, Numbers, progress, UnderWay, Moving, ChunkChosen
  <1>5. CASE Collect
    <2>1. pc' = "idle" /\ Numbers' /\ bounced' \in BOOLEAN
      BY <1>5 DEF Collect, Numbers
    <2> QED
      BY <2>1 DEF TransferInv, Steps, UnderWay, Moving, ChunkChosen
  <1> QED BY <1>1, <1>2, <1>3, <1>4, <1>5

LEMMA StutterInv ==
  ASSUME TransferInv, UNCHANGED tvars
  PROVE  TransferInv'
  BY DEF TransferInv, tvars, Numbers, UnderWay, Moving, ChunkChosen, First, geo, r_trans, Deblocked,
         Carried, Cut

LEMMA NextInv ==
  ASSUME TransferInv, [TransferNext]_tvars
  PROVE  TransferInv'
  <1>1. CASE \E u \in Units, m \in Modes : RWzero(u, m)
    BY <1>1, ZeroInv
  <1>2. CASE UNCHANGED tvars
    BY <1>2, StutterInv
  <1> QED
    BY <1>1, <1>2, StartInv, ChunkInv, BiosOkInv, BiosErrorInv, OtherInv DEF TransferNext, Continue

-----------------------------------------------------------------------------
(* What it implies of transfers *)

LEMMA InvTransferred == TransferInv => Transferred
  <1> SUFFICES ASSUME TransferInv, Moving PROVE Transferred
    BY DEF Transferred
  <1>1. call \in Calls /\ Numbers
    BY DEF TransferInv, Moving
  <1>2. /\ call.start + call.n <= geo.size
        /\ transferred + totaltodo = call.n
        /\ moved = Pairs(r_trans(call), First, Carried(transferred))
    BY DEF TransferInv, UnderWay
  <1>6. Carried(transferred) \in Nat /\ Carried(transferred) <= transferred
    BY <1>1, BlocksFacts, ModAtMost DEF Carried, Numbers
  <1>3. /\ call.start \in Nat /\ call.n \in Nat /\ geo.first \in Nat /\ geo.size \in Nat
    BY <1>1, CallFacts, UnitFacts DEF geo
  <1>4. ASSUME NEW i \in 0..Carried(transferred)-1
        PROVE  First + i >= geo.first /\ First + i < geo.first + geo.size
    BY <1>1, <1>2, <1>3, <1>6 DEF First, Numbers
  <1>5. \A p \in moved : p[2] >= geo.first /\ p[2] < geo.first + geo.size
    BY <1>2, <1>4 DEF Pairs
  <1> QED BY <1>2, <1>5 DEF Transferred

LEMMA InvChunkFits == TransferInv => ChunkFits
  <1> SUFFICES ASSUME TransferInv, pc = "bios" PROVE ChunkFits
    BY DEF ChunkFits
  <1>1. /\ Clipped \in Nat /\ Clipped >= 1 /\ Clipped <= count
        /\ ~geo.lba => (LBA_address % geo.secs) + Clipped <= geo.secs
        /\ Taken = Clipped \/ Cut(call)
    BY ClippedFacts
  <1>2. /\ Numbers /\ count \in 1..totaltodo /\ (bounced => count = 1)
        /\ ~bounced => /\ buffer < High
                       /\ geo.transparent \/ (buffer % Page) + count * SecSize <= Page
    BY DEF TransferInv, ChunkChosen
  <1>3. Clipped * SecSize <= count * SecSize
    BY <1>1, <1>2, TimesMonotone, SizeAssumption DEF Numbers
  <1>4. Clipped * SecSize \in Nat /\ count * SecSize \in Nat /\ buffer % Page \in Nat
        /\ Page \in Nat
    BY <1>1, <1>2, TimesPlus, ModRange, SizeAssumption DEF Numbers
  <1> HIDE DEF Clipped
  <1>5. Clipped <= totaltodo /\ (bounced => Clipped = 1)
    BY <1>1, <1>2 DEF Numbers
  <1>6. (buffer % Page) + count * SecSize <= Page => (buffer % Page) + Clipped * SecSize <= Page
    BY <1>3, <1>4
  <1> QED BY <1>1, <1>2, <1>5, <1>6 DEF ChunkFits

LEMMA InvDelivered == TransferInv => AllDelivered
  <1> SUFFICES ASSUME TransferInv, pc = "ok", ~(call.who = "int25" /\ Deblocked(call))
               PROVE  Delivered = Pairs(call.buf, First, Carried(call.n))
    BY DEF AllDelivered
  <1>1. call \in Calls /\ Numbers
    BY DEF TransferInv
  <1>2. moved = Pairs(r_trans(call), First, Carried(call.n))
    <2>1. transferred + totaltodo = call.n /\ totaltodo = 0
          /\ moved = Pairs(r_trans(call), First, Carried(transferred))
      BY DEF TransferInv, UnderWay, Moving
    <2>2. transferred = call.n
      BY <1>1, <2>1 DEF Numbers
    <2> QED BY <2>1, <2>2
  <1>3. CASE ~Deblocked(call)
    BY <1>2, <1>3 DEF Delivered, r_trans
  <1>4. CASE Deblocked(call)
    <2>1. call.who = "kernel" /\ call.n = 1 /\ r_trans(call) = Buffer
      BY <1>1, <1>4, CallFacts DEF Deblocked, r_trans
    <2>0. Carried(call.n) = call.n
      BY <1>4, <2>1, BlocksFacts DEF Carried, Cut
    <2>2. /\ Buffer + 0 * SecSize = Buffer /\ call.buf + 0 * SecSize = call.buf
          /\ First + 0 = First
      BY <1>1, CallFacts, UnitFacts, SizeAssumption, SMT DEF First, geo
    <2>3. 0..call.n-1 = {0}
      BY <2>1
    <2>4. moved = {<<Buffer + i * SecSize, First + i>> : i \in {0}}
      BY <1>2, <2>0, <2>1, <2>3 DEF Pairs
    <2>5. Pairs(call.buf, First, call.n) = {<<call.buf + i * SecSize, First + i>> : i \in {0}}
      BY <2>3 DEF Pairs
    <2>6. moved = {<<Buffer, First>>} /\ Pairs(call.buf, First, call.n) = {<<call.buf, First>>}
      BY <2>2, <2>4, <2>5
    <2>7. {q \in moved : call.who = "kernel"} = {<<Buffer, First>>}
      BY <2>1, <2>6
    <2>8. Delivered = {<<call.buf, p[2]>> : p \in {<<Buffer, First>>}}
      BY <1>4, <2>7 DEF Delivered
    <2>9. Delivered = {<<call.buf, First>>}
      BY <2>8
    <2> QED BY <2>0, <2>6, <2>9
  <1> QED BY <1>3, <1>4

\* What every attempt relies on: how much was done and is left, and how a chunk
\* was chosen (dsk.c, LBA_Transfer), retries from the beginning included.
THEOREM TransferInvariance == TransferSpec => []TransferInv
  BY InitInv, NextInv, PTL DEF TransferSpec

\* The request and the number of attempts.
Counted ==
  /\ call \in Calls \cup {NoCall}
  /\ num_retries \in 0..N_RETRY /\ (pc = "bios" => num_retries < N_RETRY)

LEMMA CountedNext ==
  ASSUME Counted, [TransferNext]_tvars
  PROVE  Counted'
  <1> N_RETRY \in Nat \ {0}
    BY SizeAssumption
  <1>1. ASSUME NEW r \in Requests, dskxfer(r) PROVE Counted'
    BY <1>1 DEF dskxfer, Counted, Calls
  <1>2. ASSUME NEW u \in Units, NEW m \in Modes, RWzero(u, m) PROVE Counted'
    BY <1>2 DEF RWzero, LBA_Transfer, Counted, Calls
  <1>3. CASE BiosError
    <2>1. num_retries' = num_retries + 1 /\ call' = call /\ num_retries < N_RETRY
          /\ (pc' = "bios" => num_retries' < N_RETRY)
      BY <1>3 DEF BiosError, progress, Counted
    <2> QED BY <2>1 DEF Counted
  <1>4. CASE blockio \/ OutOfRange \/ Chunk \/ BiosOk \/ BiosTooFar \/ Done \/ Fail
             \/ Retry \/ Ignore \/ Collect \/ UNCHANGED tvars
    BY <1>4 DEF blockio, LBA_Transfer, OutOfRange, Chunk, BiosOk, BiosTooFar, Done, Fail,
       Retry, Ignore, End, Collect, tvars, Counted
  <1> QED BY <1>1, <1>2, <1>3, <1>4 DEF TransferNext, Continue

LEMMA CountedAlways == TransferSpec => []Counted
  <1>1. TransferInit => Counted
    BY SizeAssumption DEF TransferInit, Counted
  <1> QED BY <1>1, CountedNext, PTL DEF TransferSpec

-----------------------------------------------------------------------------
(* Floppy is made of transfers *)

\* What the kernel does is for a letter of the diskette drive.
ForLetter == stage \notin {"idle", "direct"} => op.d \in Letters

LEMMA ForLetterInit == Init => ForLetter
  BY DEF Init, ForLetter

LEMMA ForLetterNext ==
  ASSUME ForLetter, [Next]_vars
  PROVE  ForLetter'
  <1>1. CASE UNCHANGED <<stage, op>>
    BY <1>1 DEF ForLetter
  <1>2. CASE Swap \/ Wait \/ Start \/ Outside \/ Access \/ Proceed \/ UNCHANGED vars
    BY <1>1, <1>2 DEF Swap, Wait, Start, Outside, Access, Proceed, Rest, fvars, vars
  <1>3. CASE mediachk \/ Compare \/ CompareFails
    BY <1>3 DEF mediachk, Compare, CompareFails, Answer, getbpb, Return, ForLetter
  <1>4. CASE Keep \/ Rebuild \/ Built \/ NotBuilt \/ BuildAgain
    BY <1>4 DEF Keep, Rebuild, Built, NotBuilt, BuildAgain, getbpb, ForLetter
  <1>5. CASE BuildFails \/ BuildIgnored
    BY <1>5 DEF BuildFails, BuildIgnored, BuildError, Return, ForLetter
  <1>6. CASE \E d \in Letters : Call(d)
    <2> PICK d \in Letters : Call(d)
      BY <1>6
    <2>1. CASE Check(d) \/ Commit(d) \/ GetDPB(d)
      BY <2>1 DEF Check, Commit, GetDPB, Begin, ForLetter
    <2>2. CASE GetSerial(d)
      BY <2>2 DEF GetSerial, ForLetter
    <2>3. CASE SetParameters(d) \/ Setlogdev(d)
      BY <1>1, <2>3 DEF SetParameters, Setlogdev
    <2> QED BY <2>1, <2>2, <2>3 DEF Call
  <1>7. CASE \E r \in Requests : Work(r)
    BY <1>7 DEF Work, Direct, Begin, GetBlock, flush1, ForLetter
  <1>8. CASE DirectEnds \/ GetSerialEnds \/ GotBlock \/ Written
    BY <1>8 DEF DirectEnds, GetSerialEnds, GotBlock, Written, GoOn, Return, ForLetter
  <1>9. CASE Modify
    BY <1>1, <1>9 DEF Modify
  <1>10. CASE Finish
    <2>1. CASE op.what = "getdpb"
      BY <1>10, <2>1 DEF Finish, ForLetter
    <2>2. CASE op.what # "getdpb"
      BY <1>10, <2>2 DEF Finish, Return, ForLetter
    <2> QED BY <2>1, <2>2
  <1> QED
    BY <1>2, <1>3, <1>4, <1>5, <1>6, <1>7, <1>8, <1>9, <1>10 DEF Next, Driver

\* getbpb begins a transfer of the driver.
LEMMA GetbpbTransfers ==
  ASSUME NEW d \in Letters, NEW next, getbpb(d, next)
  PROVE  TransferNext
  <1>1. d \in Units /\ "read" \in Modes
    BY LetterAssumption DEF Modes
  <1> QED BY <1>1 DEF getbpb, TransferNext

LEMMA NextTransfers ==
  ASSUME ForLetter, [Next]_vars
  PROVE  [TransferNext]_tvars
  <1>1. CASE Swap \/ Wait \/ Keep \/ Modify \/ Finish \/ UNCHANGED vars
    BY <1>1 DEF Swap, Wait, Keep, Modify, Finish, vars
  <1>2. CASE Start \/ Outside \/ Access \/ Proceed
    BY <1>2 DEF Start, Outside, Access, Proceed, TransferNext, Continue
  <1>3. CASE Compare \/ CompareFails \/ Built \/ NotBuilt \/ BuildFails \/ BuildIgnored
    BY <1>3 DEF Compare, CompareFails, Built, NotBuilt, BuildFails, BuildIgnored, BuildError,
                TransferNext, Continue
  <1>4. CASE DirectEnds \/ GetSerialEnds \/ GotBlock \/ Written
    BY <1>4 DEF DirectEnds, GetSerialEnds, GotBlock, Written, TransferNext, Continue
  <1>5. CASE mediachk
    <2>1. op.d \in Letters
      BY <1>5 DEF mediachk, ForLetter
    <2> QED BY <1>5, <2>1, GetbpbTransfers DEF mediachk
  <1>6. CASE Rebuild \/ BuildAgain
    <2>1. op.d \in Letters
      BY <1>6 DEF Rebuild, BuildAgain, ForLetter
    <2> QED BY <1>6, <2>1, GetbpbTransfers DEF Rebuild, BuildAgain
  <1>7. CASE \E d \in Letters : Call(d)
    BY <1>7, GetbpbTransfers DEF Call, Check, Commit, GetDPB, GetSerial, SetParameters, Setlogdev
  <1>8. CASE \E r \in Requests : Work(r)
    BY <1>8 DEF Work, Direct, GetBlock, flush1, TransferNext
  <1> QED
    BY <1>1, <1>2, <1>3, <1>4, <1>5, <1>6, <1>7, <1>8 DEF Next, Driver

\* Whatever the kernel does with diskettes and disks, what reaches the drives is
\* one transfer of Transfer after the other, each of them whole.
THEOREM FloppyTransfers == Spec => TransferSpec
  <1>1. Init => TransferInit
    BY DEF Init
  <1> QED
    BY <1>1, ForLetterInit, ForLetterNext, NextTransfers, PTL DEF Spec, TransferSpec

-----------------------------------------------------------------------------
(* The theorems about transfers *)

\* What a transfer reports is what it moved, sector by sector, to or from the
\* right place in memory and inside the volume (dsk.c, LBA_Transfer).
THEOREM AlwaysTransferred == Spec => []Transferred
  BY FloppyTransfers, TransferInvariance, InvTransferred, PTL

\* No chunk is empty, crosses a DMA page or the end of a track, or lies in upper
\* memory (dsk.c, DMA_max_transfer and LBA_Transfer).
THEOREM ChunksAlwaysFit == Spec => []ChunkFits
  BY FloppyTransfers, TransferInvariance, InvChunkFits, PTL

\* A transfer that ends well has delivered all that was asked for (blockio.c,
\* dskxfer).
THEOREM AlwaysDelivered == Spec => []AllDelivered
  BY FloppyTransfers, TransferInvariance, InvDelivered, PTL

-----------------------------------------------------------------------------
(* The inductive invariant of letters and diskettes *)

Types ==
  /\ changeline \in BOOLEAN /\ line \in {FALSE, changeline}
  /\ inside \in Media /\ cur \in Letters
  /\ late \subseteq Letters /\ dchange \subseteq Letters /\ reformat \subseteq Letters
  /\ force \subseteq Letters /\ missed \subseteq Letters
  /\ dpb \in [Letters -> Media \cup {None}]
  /\ clean \in [Letters -> SUBSET Media] /\ dirty \in [Letters -> SUBSET Media]

\* Transfers are for the letter of the call, but for blocks that are written to
\* make room, and go to a drive whose letter is current.
Control ==
  /\ ForLetter
  /\ stage \in {"idle", "check", "serial", "answer", "build", "unbuilt", "use", "moving",
                "writing", "direct", "ioctl"}
  /\ stage \in {"idle", "check", "answer", "unbuilt", "use"} => pc = "idle"
  /\ stage \in {"serial", "build", "ioctl"} =>
       /\ pc \in {"loop", "bios", "failed", "ok", "error"}
       /\ call.who = "driver" /\ cur = op.d
  /\ stage \in {"serial", "build", "ioctl", "moving", "direct"} => call.unit = op.d
  /\ stage = "moving" => op.what = "path"
  /\ stage = "writing" => call.unit \in Letters /\ dirty[call.unit] # {}
  /\ stage = "serial" => code = "dont_know"
  /\ stage \in {"build", "unbuilt"} => clean[op.d] = {} /\ dirty[op.d] = {}
  /\ stage = "unbuilt" => cur = op.d
  /\ (pc \in {"loop", "bios", "ok"} /\ call.unit \in Letters) => cur = call.unit

Right(d) == inside = dpb[d]
Flagged(d) == d \in reformat \cup dchange \cup force

\* The media check of d is under way, or d is accessed without one.
InQuestion(d) == stage \in {"answer", "build", "unbuilt", "direct"} /\ op.d = d

Working(d) == stage \in {"use", "moving", "writing"} /\ op.d = d

LetterInv(d) ==
  /\ clean[d] \cup dirty[d] \subseteq {dpb[d]}
  /\ d \notin force => dpb[d] # None
  /\ (cur = d /\ dirty[d] # {}) => Right(d)
  /\ (cur = d /\ ~InQuestion(d)) => Right(d) \/ Noticed(d)
  /\ (stage \in {"serial", "ioctl"} /\ op.d = d) => Flagged(d) \/ Right(d)
  /\ (stage = "answer" /\ op.d = d /\ cur = d /\ Kept(d)) => Right(d)
  /\ (Working(d) /\ op.what = "path") => d \notin force /\ (cur = d => Right(d))

FloppyInv == Types /\ Control /\ \A d \in Letters \ missed : LetterInv(d)

LEMMA FloppyInit == Init => FloppyInv
  <1> SUFFICES ASSUME Init PROVE FloppyInv
    OBVIOUS
  <1>1. Types
    BY DEF Init, Types
  <1>2. Control
    BY DEF Init, TransferInit, Control, ForLetter
  <1>3. \A d \in Letters : LetterInv(d)
    BY DEF Init, LetterInv, Right, InQuestion, Working, Noticed
  <1> QED BY <1>1, <1>2, <1>3 DEF FloppyInv

-----------------------------------------------------------------------------
(* Diskettes *)

LEMMA SwapKeeps ==
  ASSUME FloppyInv, Swap
  PROVE  FloppyInv'
  <1> USE DEF FloppyInv, Swap, tvars, marks, cache, answer
  <1>1. Types'
    BY DEF Types
  <1>2. Control'
    BY DEF Control, ForLetter
  <1>3. ASSUME NEW d \in Letters \ missed
        PROVE  LetterInv(d)'
    BY <1>3 DEF LetterInv, Types, Right, Noticed, InQuestion, Flagged, Kept, Working
  <1> QED BY <1>1, <1>2, <1>3

LEMMA WaitKeeps ==
  ASSUME FloppyInv, Wait
  PROVE  FloppyInv'
  <1> USE DEF FloppyInv, Wait, tvars, marks, cache, answer
  <1>1. Types'
    BY DEF Types
  <1>2. Control'
    BY DEF Control, ForLetter
  <1>3. ASSUME NEW d \in Letters \ missed
        PROVE  LetterInv(d)'
    BY <1>3 DEF LetterInv, Types, Right, Noticed, InQuestion, Flagged, Kept, Working
  <1> QED BY <1>1, <1>2, <1>3

\* After a prompt the letter's diskette is in the drive, if one can be told, and
\* the next media check will see that it was changed.
LEMMA PlayDj ==
  ASSUME Types, NEW d \in Letters, play_dj(d)
  PROVE  /\ cur' = d /\ inside' \in Media /\ line' \in {FALSE, changeline}
         /\ late' \subseteq Letters
         /\ cur # d => /\ line' = changeline /\ late' = Letters
                       /\ dirty[d] # {} => inside' \in dirty[d]
                       /\ (dirty[d] = {} /\ stage = "moving" /\ dpb[d] # None)
                            => inside' = dpb[d]
         /\ cur = d => UNCHANGED drive
  BY DEF Types, play_dj, Wanted, drive

-----------------------------------------------------------------------------
(* Transfers and letters *)

LEMMA StartKeeps ==
  ASSUME FloppyInv, Start
  PROVE  FloppyInv'
  <1>1. /\ pc = "blockio" /\ pc' = "loop" /\ call' = call
        /\ UNCHANGED Rest
    BY DEF Start, blockio, LBA_Transfer
  <1>2. Types /\ Control /\ \A d \in Letters \ missed : LetterInv(d)
    BY DEF FloppyInv
  <1>3. stage \in {"moving", "writing", "direct"}
    BY <1>1, <1>2 DEF Control
  <1>4. CASE ~OnFloppy
    <2>1. UNCHANGED drive
      BY <1>4 DEF Start
    <2>2. Types'
      BY <1>1, <1>2, <2>1 DEF Types, Rest, drive, cache, marks
    <2>3. Control'
      BY <1>1, <1>2, <1>4, <2>1 DEF Control, ForLetter, OnFloppy, Rest, drive, cache, marks, answer
    <2>4. ASSUME NEW d \in Letters \ missed' PROVE LetterInv(d)'
      BY <1>1, <1>2, <2>1, <2>4 DEF LetterInv, Rest, drive, cache, marks, answer, Right, Noticed, InQuestion, Flagged, Kept, Working
    <2> QED BY <2>2, <2>3, <2>4 DEF FloppyInv
  <1>5. CASE OnFloppy /\ cur = call.unit
    <2>1. late' = late \ {call.unit} /\ UNCHANGED <<inside, line, cur>>
      BY <1>5 DEF Start
    <2>2. Types'
      BY <1>1, <1>2, <2>1 DEF Types, Rest, cache, marks
    <2>3. Control'
      BY <1>1, <1>2, <1>5, <2>1 DEF Control, ForLetter, OnFloppy, Rest, cache, marks, answer
    <2>4. ASSUME NEW d \in Letters \ missed' PROVE LetterInv(d)'
      <3>1. LetterInv(d)
        BY <1>1, <1>2, <2>4 DEF Rest
      <3>2. cur = d => InQuestion(d) \/ Right(d)
        BY <1>2, <1>3, <1>5, <3>1 DEF Control, LetterInv, InQuestion, Working
      <3> QED
        BY <1>1, <2>1, <3>1, <3>2 DEF LetterInv, Rest, cache, marks, answer, Right, Noticed, InQuestion, Flagged, Kept, Working
    <2> QED BY <2>2, <2>3, <2>4 DEF FloppyInv
  <1>6. CASE OnFloppy /\ cur # call.unit
    <2> DEFINE e == call.unit
    <2>0. e \in Letters /\ play_dj(e)
      BY <1>6 DEF Start, OnFloppy
    <2>1. /\ cur' = e /\ inside' \in Media /\ line' = changeline /\ late' = Letters
          /\ dirty[e] # {} => inside' \in dirty[e]
          /\ (dirty[e] = {} /\ stage = "moving" /\ dpb[e] # None) => inside' = dpb[e]
      BY <1>2, <1>6, <2>0, PlayDj
    <2>2. Types'
      BY <1>1, <1>2, <2>0, <2>1 DEF Types, Rest, cache, marks
    <2>3. Control'
      BY <1>1, <1>2, <1>3, <1>6, <2>1 DEF Control, ForLetter, OnFloppy, Rest, cache, marks, answer
    <2>4. ASSUME NEW d \in Letters \ missed' PROVE LetterInv(d)'
      <3>1. LetterInv(d) /\ d \in Letters
        BY <1>1, <1>2, <2>4 DEF Rest
      <3>2. d = e /\ dirty[d] # {} => Right(d)'
        BY <1>1, <2>1, <3>1 DEF LetterInv, Right, Rest, cache
      <3>3. d = e /\ stage = "moving" => Right(d)'
        BY <1>1, <1>2, <2>1, <3>1, <3>2 DEF LetterInv, Control, Working, Right, Rest, cache
      <3>4. d = e /\ stage = "writing" => Right(d)'
        BY <1>1, <1>2, <3>2 DEF Control
      <3>5. d = e => Noticed(d)'
        BY <1>1, <2>1, <3>1 DEF Noticed, Rest
      <3> QED
        BY <1>1, <1>3, <2>1, <3>1, <3>2, <3>3, <3>4, <3>5 DEF LetterInv, Rest, cache, marks, answer, Right, Noticed, InQuestion, Flagged, Kept, Working
    <2> QED BY <2>2, <2>3, <2>4 DEF FloppyInv
  <1> QED BY <1>4, <1>5, <1>6

LEMMA OutsideKeeps ==
  ASSUME FloppyInv, Outside
  PROVE  FloppyInv'
  <1>1. /\ pc = "blockio" /\ pc' = "failed" /\ call' = call
        /\ late' = late \ {call.unit} /\ UNCHANGED <<inside, line, cur, Rest>>
    BY DEF Outside, OutOfRange
  <1>2. Types /\ Control /\ \A d \in Letters \ missed : LetterInv(d)
    BY DEF FloppyInv
  <1>3. stage \in {"moving", "writing", "direct"}
    BY <1>1, <1>2 DEF Control
  <1>4. Types'
    BY <1>1, <1>2 DEF Types, Rest, cache, marks
  <1>5. Control'
    BY <1>1, <1>2, <1>3 DEF Control, ForLetter, Rest, cache, marks, answer
  <1>6. ASSUME NEW d \in Letters \ missed' PROVE LetterInv(d)'
    <2>1. LetterInv(d)
      BY <1>1, <1>2, <1>6 DEF Rest
    <2>2. cur = d /\ call.unit = d => InQuestion(d) \/ Right(d)
      BY <1>2, <1>3, <2>1 DEF Control, LetterInv, InQuestion, Working
    <2> QED
      BY <1>1, <2>1, <2>2 DEF LetterInv, Rest, cache, marks, answer, Right, Noticed, InQuestion, Flagged, Kept, Working
  <1> QED BY <1>4, <1>5, <1>6 DEF FloppyInv

LEMMA AccessKeeps ==
  ASSUME FloppyInv, Access
  PROVE  FloppyInv'
  <1>1. /\ pc = "bios" /\ pc' \in {"loop", "bios", "failed"} /\ call' = call
        /\ UNCHANGED <<inside, late, cur, Rest>>
        /\ line' = line \/ (OnFloppy /\ line' = FALSE)
    BY DEF Access, BiosOk, BiosError
  <1>2. Types /\ Control /\ \A d \in Letters \ missed : LetterInv(d)
    BY DEF FloppyInv
  <1>3. stage \in {"moving", "writing", "direct", "serial", "build", "ioctl"}
    BY <1>1, <1>2 DEF Control
  <1>4. Types'
    BY <1>1, <1>2 DEF Types, Rest, cache, marks
  <1>5. Control'
    BY <1>1, <1>2, <1>3 DEF Control, ForLetter, Rest, cache, marks, answer
  <1>6. ASSUME NEW d \in Letters \ missed' PROVE LetterInv(d)'
    <2>1. LetterInv(d)
      BY <1>1, <1>2, <1>6 DEF Rest
    <2>2. CASE line' = line
      BY <1>1, <2>1, <2>2 DEF LetterInv, Rest, cache, marks, answer, Right, Noticed, InQuestion, Flagged, Kept, Working
    <2>3. CASE OnFloppy /\ line' = FALSE
      <3>1. cur = call.unit
        BY <1>1, <1>2, <2>3 DEF Control, OnFloppy
      <3>2. cur = d => InQuestion(d) \/ Right(d) \/ Flagged(d)
        BY <1>2, <1>3, <2>1, <3>1 DEF Control, LetterInv, InQuestion, Working
      <3> QED
        BY <1>1, <2>1, <3>2 DEF LetterInv, Rest, cache, marks, answer, Right, Noticed, InQuestion, Flagged, Kept, Working
    <2> QED BY <1>1, <2>2, <2>3
  <1> QED BY <1>4, <1>5, <1>6 DEF FloppyInv

LEMMA ProceedKeeps ==
  ASSUME FloppyInv, Proceed
  PROVE  FloppyInv'
  <1>1. /\ call' = call /\ UNCHANGED fvars
        /\ \/ pc = "loop" /\ pc' \in {"bios", "ok"}
           \/ pc = "bios" /\ pc' = "failed"
           \/ pc = "failed" /\ pc' = "error"
           \/ pc = "failed" /\ pc' \in {"blockio", "ignored"} /\ call.who = "kernel"
    BY DEF Proceed, Chunk, BiosTooFar, Done, Fail, Retry, Ignore, End
  <1>2. Types /\ Control /\ \A d \in Letters \ missed : LetterInv(d)
    BY DEF FloppyInv
  <1>3. Types'
    BY <1>1, <1>2 DEF Types, fvars, drive, cache, marks
  <1>4. Control'
    BY <1>1, <1>2 DEF Control, ForLetter, fvars, drive, cache, marks, answer
  <1>5. ASSUME NEW d \in Letters \ missed' PROVE LetterInv(d)'
    BY <1>1, <1>2, <1>5 DEF LetterInv, fvars, drive, cache, marks, answer, Right, Noticed, InQuestion, Flagged, Kept, Working
  <1> QED BY <1>3, <1>4, <1>5 DEF FloppyInv

-----------------------------------------------------------------------------
(* Requests to the driver *)

\* What the answers of diskchange mean, whether the drive tells or not.
LEMMA Diskchange ==
  ASSUME Types, NEW d, NEW told \in Told
  PROVE  /\ diskchange(d, told) \in {"changed", "dont_know", "not_changed"}
         /\ diskchange(d, told) = "changed" => cur # d \/ line
         /\ diskchange(d, told) = "dont_know" => cur = d
         /\ diskchange(d, told) = "not_changed" =>
              cur = d /\ ~(d \in late /\ (changeline => line)) /\ ~(d \in late /\ line)
  <1>1. CASE told = FALSE
    BY <1>1 DEF diskchange
  <1>2. CASE told = TRUE
    <2>1. changeline = TRUE
      BY <1>2 DEF Told
    <2> QED BY <1>2, <2>1 DEF diskchange
  <1> QED BY <1>1, <1>2 DEF Told, Types

\* getbpb begins a transfer of the driver for letter d, whose diskette is in the
\* drive as far as can be told; a change that it notices is kept.
LEMMA Getbpb ==
  ASSUME FloppyInv, NEW d \in Letters, NEW next, getbpb(d, next)
  PROVE  /\ pc' = "loop" /\ call'.unit = d /\ call'.who = "driver" /\ stage' = next
         /\ cur' = d /\ inside' \in Media /\ line' \in {FALSE, changeline}
         /\ late' \subseteq Letters /\ reformat' = reformat
         /\ dchange \subseteq dchange' /\ dchange' \subseteq dchange \cup {d}
         /\ d \notin dchange' => /\ UNCHANGED drive
                                 /\ ~(d \in late /\ (changeline => line))
         /\ cur # d /\ dirty[d] # {} => inside' \in dirty[d]
         /\ cur = d => UNCHANGED drive
  <1>1. /\ \E told \in Told : dchange' = Marked(d, told)
        /\ play_dj(d) /\ RWzero(d, "read") /\ stage' = next
        /\ reformat' = reformat
    BY DEF getbpb
  <1>2. pc' = "loop" /\ call'.unit = d /\ call'.who = "driver"
    BY <1>1 DEF RWzero, LBA_Transfer, Zero
  <1>3. Types
    BY DEF FloppyInv
  <1>4. /\ dchange \subseteq dchange' /\ dchange' \subseteq dchange \cup {d}
        /\ d \notin dchange' => \E told \in Told : diskchange(d, told) = "not_changed"
    BY <1>1 DEF Marked
  <1>5. d \notin dchange' => cur = d /\ ~(d \in late /\ (changeline => line))
    BY <1>3, <1>4, Diskchange
  <1>6. /\ cur' = d /\ inside' \in Media /\ line' \in {FALSE, changeline}
        /\ late' \subseteq Letters
        /\ cur # d /\ dirty[d] # {} => inside' \in dirty[d]
        /\ cur = d => UNCHANGED drive
    BY <1>1, <1>3, PlayDj
  <1> QED BY <1>1, <1>2, <1>4, <1>5, <1>6

LEMMA mediachkKeeps ==
  ASSUME FloppyInv, mediachk
  PROVE  FloppyInv'
  <1> DEFINE d == op.d
  <1>1. /\ stage = "check" /\ pc = "idle" /\ d \in Letters
        /\ UNCHANGED <<changeline, cache, op, missed>>
    BY DEF mediachk, FloppyInv, Control, ForLetter
  <1>2. Types /\ Control /\ \A e \in Letters \ missed : LetterInv(e)
    BY DEF FloppyInv
  <1>3. CASE /\ d \in reformat
             /\ reformat' = reformat \ {d} /\ Answer("changed", "reformat")
             /\ UNCHANGED <<tvars, drive, dchange, serialno>>
    <2>1. Types' /\ Control'
      BY <1>1, <1>2, <1>3 DEF Types, Control, ForLetter, Answer, tvars, drive, cache
    <2>2. ASSUME NEW e \in Letters \ missed' PROVE LetterInv(e)'
      BY <1>1, <1>2, <1>3, <2>2 DEF LetterInv, Answer, tvars, drive, cache, Right, Noticed, InQuestion, Flagged, Kept, Working
    <2> QED BY <2>1, <2>2 DEF FloppyInv
  <1>4. CASE /\ dchange' = dchange \ {d} /\ Answer("dont_know", "")
             /\ UNCHANGED <<tvars, drive, reformat, serialno>>
    <2>1. Types' /\ Control'
      BY <1>1, <1>2, <1>4 DEF Types, Control, ForLetter, Answer, tvars, drive, cache
    <2>2. ASSUME NEW e \in Letters \ missed' PROVE LetterInv(e)'
      BY <1>1, <1>2, <1>4, <2>2 DEF LetterInv, Answer, tvars, drive, cache, Right, Noticed, InQuestion, Flagged, Kept, Working
    <2> QED BY <2>1, <2>2 DEF FloppyInv
  <1>5. ASSUME NEW told \in Told, d \notin reformat \cup dchange,
               diskchange(d, told) # "dont_know",
               Answer(diskchange(d, told), IF cur # d THEN "letter" ELSE "line"),
               play_dj(d), UNCHANGED <<tvars, marks>>
        PROVE  FloppyInv'
    <2>1. /\ cur' = d /\ inside' \in Media /\ line' \in {FALSE, changeline}
          /\ late' \subseteq Letters
          /\ cur # d => /\ line' = changeline /\ late' = Letters
                        /\ dirty[d] # {} => inside' \in dirty[d]
          /\ cur = d => UNCHANGED drive
      BY <1>1, <1>2, <1>5, PlayDj
    <2>2. stage' = "answer" /\ code' = diskchange(d, told)
      BY <1>5 DEF Answer
    <2>3. code' # "dont_know"
          /\ (code' = "not_changed" => cur = d /\ ~(d \in late /\ (changeline => line)))
      BY <1>1, <1>2, <1>5, <2>2, Diskchange
    <2>4. Types' /\ Control'
      BY <1>1, <1>2, <1>5, <2>1, <2>2 DEF Types, Control, ForLetter, tvars, marks, cache
    <2>5. ASSUME NEW e \in Letters \ missed' PROVE LetterInv(e)'
      <3>1. LetterInv(e) /\ e \in Letters
        BY <1>1, <1>2, <2>5
      <3>2. CASE e # d
        BY <1>1, <1>5, <2>1, <2>2, <3>1, <3>2 DEF LetterInv, tvars, marks, cache, Right, Noticed, InQuestion, Flagged, Kept, Working
      <3>3. CASE e = d
        <4>1. dirty[d] # {} => Right(d)'
          BY <1>1, <2>1, <3>1, <3>3 DEF LetterInv, Right, cache, drive
        <4>2. code' = "not_changed" /\ d \notin force => Right(d)'
          BY <1>1, <1>5, <2>1, <2>3, <3>1, <3>3 DEF LetterInv, InQuestion, Noticed, Right, cache, drive
        <4> QED
          BY <1>1, <1>5, <2>1, <2>2, <2>3, <3>1, <3>3, <4>1, <4>2 DEF LetterInv, tvars, marks, cache, InQuestion, Kept, Working
      <3> QED BY <3>2, <3>3
    <2> QED BY <2>4, <2>5 DEF FloppyInv
  <1>6. ASSUME NEW told \in Told, diskchange(d, told) = "dont_know",
               code' = "dont_know", because' = "", getbpb(d, "serial")
        PROVE  FloppyInv'
    <2>1. cur = d
      BY <1>6 DEF diskchange
    <2>2. /\ pc' = "loop" /\ call'.unit = d /\ call'.who = "driver" /\ stage' = "serial"
          /\ UNCHANGED drive /\ reformat' = reformat
          /\ dchange \subseteq dchange' /\ dchange' \subseteq dchange \cup {d}
          /\ d \notin dchange' => ~(d \in late /\ (changeline => line))
      BY <1>1, <1>6, <2>1, Getbpb
    <2>3. Types' /\ Control'
      BY <1>1, <1>2, <1>6, <2>1, <2>2 DEF Types, Control, ForLetter, drive, cache
    <2>4. ASSUME NEW e \in Letters \ missed' PROVE LetterInv(e)'
      <3>1. LetterInv(e) /\ e \in Letters
        BY <1>1, <1>2, <2>4
      <3>2. CASE e # d
        BY <1>1, <2>1, <2>2, <3>1, <3>2 DEF LetterInv, drive, cache, Right, Noticed, InQuestion, Flagged, Kept, Working
      <3>3. CASE e = d
        <4>1. Right(d) \/ Noticed(d)
          BY <1>1, <2>1, <3>1, <3>3 DEF LetterInv, InQuestion
        <4>2. Right(d) \/ Flagged(d)'
          BY <1>1, <2>1, <2>2, <4>1 DEF Noticed, Flagged, cache, drive
        <4> QED
          BY <1>1, <2>1, <2>2, <3>1, <3>3, <4>1, <4>2 DEF LetterInv, drive, cache, Right, Noticed, InQuestion, Flagged, Working
      <3> QED BY <3>2, <3>3
    <2> QED BY <2>3, <2>4 DEF FloppyInv
  <1> QED BY <1>3, <1>4, <1>5, <1>6 DEF mediachk

LEMMA CompareKeeps ==
  ASSUME FloppyInv, Compare
  PROVE  FloppyInv'
  <1>1. /\ stage = "serial" /\ pc' = "idle" /\ stage' = "answer"
        /\ code' \in {"changed", "dont_know"}
        /\ late' \in {late, late \ {op.d}}
        /\ UNCHANGED <<inside, line, cur, dchange, reformat, changeline, cache, op, missed>>
    BY DEF Compare, Collect, Read, Answer
  <1>2. Types /\ Control /\ \A d \in Letters \ missed : LetterInv(d)
    BY DEF FloppyInv
  <1>3. Types' /\ Control'
    BY <1>1, <1>2 DEF Types, Control, ForLetter, cache
  <1>4. ASSUME NEW d \in Letters \ missed' PROVE LetterInv(d)'
    BY <1>1, <1>2, <1>4 DEF LetterInv, Control, cache, Right, Noticed, InQuestion, Flagged, Kept, Working
  <1> QED BY <1>3, <1>4 DEF FloppyInv

LEMMA CompareFailsKeeps ==
  ASSUME FloppyInv, CompareFails
  PROVE  FloppyInv'
  <1>1. /\ stage = "serial" /\ pc' = "idle"
        /\ stage' = "idle" \/ (stage' \in {"check", "answer"} /\ op' = op)
        /\ late' \in {late, late \ {op.d}}
        /\ UNCHANGED <<inside, line, cur, dchange, reformat, changeline, cache, answer, missed>>
    BY DEF CompareFails, Collect, Return, Read, drive, marks
  <1>2. Types /\ Control /\ \A d \in Letters \ missed : LetterInv(d)
    BY DEF FloppyInv
  <1>3. Types' /\ Control'
    BY <1>1, <1>2 DEF Types, Control, ForLetter, cache, answer
  <1>4. ASSUME NEW d \in Letters \ missed' PROVE LetterInv(d)'
    BY <1>1, <1>2, <1>4 DEF LetterInv, Control, cache, answer, Right, Noticed, InQuestion, Flagged, Kept, Working
  <1> QED BY <1>3, <1>4 DEF FloppyInv

LEMMA KeepKeeps ==
  ASSUME FloppyInv, Keep
  PROVE  FloppyInv'
  <1>1. /\ stage = "answer" /\ stage' = "use" /\ Kept(op.d) /\ op.d \in Letters
        /\ UNCHANGED <<tvars, changeline, drive, marks, cache, op, missed>>
    BY DEF Keep, FloppyInv, Control, ForLetter
  <1>2. Types /\ Control /\ \A d \in Letters \ missed : LetterInv(d)
    BY DEF FloppyInv
  <1>3. Types' /\ Control'
    BY <1>1, <1>2 DEF Types, Control, ForLetter, tvars, drive, marks, cache
  <1>4. ASSUME NEW d \in Letters \ missed' PROVE LetterInv(d)'
    BY <1>1, <1>2, <1>4 DEF LetterInv, tvars, drive, marks, cache, Right, Noticed, InQuestion, Flagged, Kept, Working
  <1> QED BY <1>3, <1>4 DEF FloppyInv

LEMMA RebuildKeeps ==
  ASSUME FloppyInv, Rebuild
  PROVE  FloppyInv'
  <1> DEFINE d == op.d
  <1>1. /\ stage = "answer" /\ d \in Letters
        /\ clean' = [clean EXCEPT ![d] = {}] /\ dirty' = [dirty EXCEPT ![d] = {}]
        /\ getbpb(d, "build")
        /\ UNCHANGED <<changeline, dpb, force, op, missed>>
    BY DEF Rebuild, FloppyInv, Control, ForLetter
  <1>2. Types /\ Control /\ \A e \in Letters \ missed : LetterInv(e)
    BY DEF FloppyInv
  <1>3. /\ pc' = "loop" /\ call'.unit = d /\ call'.who = "driver" /\ stage' = "build"
        /\ cur' = d /\ inside' \in Media /\ line' \in {FALSE, changeline}
        /\ late' \subseteq Letters /\ reformat' = reformat
        /\ dchange \subseteq dchange' /\ dchange' \subseteq dchange \cup {d}
    BY <1>1, Getbpb
  <1>4. Types' /\ Control'
    BY <1>1, <1>2, <1>3 DEF Types, Control, ForLetter
  <1>5. ASSUME NEW e \in Letters \ missed' PROVE LetterInv(e)'
    BY <1>1, <1>2, <1>3, <1>5 DEF LetterInv, Types, Right, Noticed, InQuestion, Flagged, Kept, Working
  <1> QED BY <1>4, <1>5 DEF FloppyInv

LEMMA BuiltKeeps ==
  ASSUME FloppyInv, Built
  PROVE  FloppyInv'
  <1> DEFINE d == op.d
  <1>1. /\ stage = "build" /\ pc' = "idle" /\ stage' = "use" /\ d \in Letters
        /\ late' \in {late, late \ {d}}
        /\ dpb' = [dpb EXCEPT ![d] = inside] /\ force' = force \ {d}
        /\ missed' = missed \ {d}
        /\ UNCHANGED <<inside, line, cur, dchange, reformat, changeline, clean, dirty, op, answer>>
    BY DEF Built, Collect, Read, FloppyInv, Control, ForLetter
  <1>2. Types /\ Control /\ \A e \in Letters \ missed : LetterInv(e)
    BY DEF FloppyInv
  <1>3. Types' /\ Control'
    BY <1>1, <1>2 DEF Types, Control, ForLetter, answer
  <1>4. ASSUME NEW e \in Letters \ missed' PROVE LetterInv(e)'
    <2>1. CASE e = d
      <3>1. clean[d] = {} /\ dirty[d] = {} /\ dpb'[d] = inside /\ inside # None
        BY <1>1, <1>2, LetterAssumption DEF Control, Types
      <3> QED BY <1>1, <2>1, <3>1 DEF LetterInv, Right, Working
    <2>2. CASE e # d
      <3>1. LetterInv(e) /\ cur # e /\ dpb'[e] = dpb[e]
        BY <1>1, <1>2, <1>4, <2>2 DEF Control, Types
      <3> QED BY <1>1, <2>2, <3>1 DEF LetterInv, Working
    <2> QED BY <2>1, <2>2
  <1> QED BY <1>3, <1>4 DEF FloppyInv

LEMMA NotBuiltKeeps ==
  ASSUME FloppyInv, NotBuilt
  PROVE  FloppyInv'
  <1>1. /\ stage = "build" /\ pc' = "idle" /\ stage' = "unbuilt"
        /\ late' \in {late, late \ {op.d}}
        /\ UNCHANGED <<inside, line, cur, dchange, reformat, changeline, cache, op, answer, missed>>
    BY DEF NotBuilt, Collect, Read
  <1>2. Types /\ Control /\ \A d \in Letters \ missed : LetterInv(d)
    BY DEF FloppyInv
  <1>3. Types' /\ Control'
    BY <1>1, <1>2 DEF Types, Control, ForLetter, cache, answer
  <1>4. ASSUME NEW d \in Letters \ missed' PROVE LetterInv(d)'
    BY <1>1, <1>2, <1>4 DEF LetterInv, Control, cache, answer, Right, Noticed, InQuestion, Flagged, Kept, Working
  <1> QED BY <1>3, <1>4 DEF FloppyInv

LEMMA BuildAgainKeeps ==
  ASSUME FloppyInv, BuildAgain
  PROVE  FloppyInv'
  <1> DEFINE d == op.d
  <1>1. /\ stage \in {"build", "unbuilt"} /\ d \in Letters /\ getbpb(d, "build")
        /\ UNCHANGED <<changeline, cache, op, answer, missed>>
    BY DEF BuildAgain, FloppyInv, Control, ForLetter
  <1>2. Types /\ Control /\ \A e \in Letters \ missed : LetterInv(e)
    BY DEF FloppyInv
  <1>3. /\ pc' = "loop" /\ call'.unit = d /\ call'.who = "driver" /\ stage' = "build"
        /\ cur = d /\ UNCHANGED drive /\ reformat' = reformat
        /\ dchange \subseteq dchange' /\ dchange' \subseteq dchange \cup {d}
    BY <1>1, <1>2, Getbpb DEF Control
  <1>4. Types' /\ Control'
    BY <1>1, <1>2, <1>3 DEF Types, Control, ForLetter, drive, cache, answer
  <1>5. ASSUME NEW e \in Letters \ missed' PROVE LetterInv(e)'
    BY <1>1, <1>2, <1>3, <1>5 DEF LetterInv, drive, cache, answer, Right, Noticed, InQuestion, Flagged, Kept, Working
  <1> QED BY <1>4, <1>5 DEF FloppyInv

LEMMA BuildFailsKeeps ==
  ASSUME FloppyInv, BuildFails
  PROVE  FloppyInv'
  <1>1. /\ stage \in {"build", "unbuilt"} /\ pc' = "idle" /\ stage' = "idle" /\ op.d \in Letters
        /\ missed' = missed \cup Unseen(op.d) \cup Misnamed(op.d)
        /\ UNCHANGED <<changeline, drive, marks, cache, answer>>
    BY DEF BuildFails, BuildError, Collect, Return, FloppyInv, Control, ForLetter, tvars
  <1>2. Types /\ Control /\ \A d \in Letters \ missed : LetterInv(d)
    BY DEF FloppyInv
  <1>3. Types' /\ Control'
    BY <1>1, <1>2 DEF Types, Control, ForLetter, Unseen, Misnamed, drive, marks, cache, answer
  <1>4. ASSUME NEW d \in Letters \ missed' PROVE LetterInv(d)'
    <2>1. LetterInv(d) /\ (d = op.d => Fresh(d) \/ Noticed(d))
      BY <1>1, <1>2, <1>4 DEF Unseen
    <2> QED
      BY <1>1, <1>2, <2>1 DEF LetterInv, Fresh, drive, marks, cache, answer, Right, Noticed, InQuestion, Flagged, Kept, Working
  <1> QED BY <1>3, <1>4 DEF FloppyInv

LEMMA BuildIgnoredKeeps ==
  ASSUME FloppyInv, BuildIgnored
  PROVE  FloppyInv'
  <1> DEFINE d == op.d
  <1>1. /\ stage \in {"build", "unbuilt"} /\ pc' = "idle" /\ stage' = "use" /\ d \in Letters
        /\ \E m \in Media \cup {None} : dpb' = [dpb EXCEPT ![d] = m]
        /\ force' = force \ {d} /\ missed' = missed \cup {d}
        /\ UNCHANGED <<changeline, drive, marks, clean, dirty, op, answer>>
    BY DEF BuildIgnored, BuildError, Collect, FloppyInv, Control, ForLetter, tvars
  <1>2. Types /\ Control /\ \A e \in Letters \ missed : LetterInv(e)
    BY DEF FloppyInv
  <1>3. Types' /\ Control'
    BY <1>1, <1>2 DEF Types, Control, ForLetter, drive, marks, answer
  <1>4. ASSUME NEW e \in Letters \ missed' PROVE LetterInv(e)'
    <2>1. LetterInv(e) /\ cur # e /\ dpb'[e] = dpb[e] /\ e # d
      BY <1>1, <1>2, <1>4 DEF Control, Types
    <2> QED BY <1>1, <2>1 DEF LetterInv, drive, marks, Working
  <1> QED BY <1>3, <1>4 DEF FloppyInv

-----------------------------------------------------------------------------
(* Calls *)

LEMMA BeginKeeps ==
  ASSUME FloppyInv, NEW d \in Letters, Check(d) \/ Commit(d) \/ GetDPB(d)
  PROVE  FloppyInv'
  <1>1. /\ stage = "idle" /\ stage' \in {"check", "use"} /\ op'.d = d
        /\ stage' = "use" => op'.what # "path"
        /\ UNCHANGED <<changeline, drive, cache, answer, tvars, marks, missed>>
    BY DEF Check, Commit, GetDPB, Begin
  <1>2. Types /\ Control /\ \A e \in Letters \ missed : LetterInv(e)
    BY DEF FloppyInv
  <1>3. Types' /\ Control'
    BY <1>1, <1>2 DEF Types, Control, ForLetter, drive, cache, answer, tvars, marks
  <1>4. ASSUME NEW e \in Letters \ missed' PROVE LetterInv(e)'
    BY <1>1, <1>2, <1>4 DEF LetterInv, drive, cache, answer, tvars, marks, Right, Noticed, InQuestion, Flagged, Kept, Working
  <1> QED BY <1>3, <1>4 DEF FloppyInv

LEMMA DirectKeeps ==
  ASSUME FloppyInv, NEW r \in Requests, Direct(r)
  PROVE  FloppyInv'
  <1>1. /\ stage = "idle" /\ stage' = "direct" /\ op'.d = r.unit
        /\ pc' = "blockio" /\ call' = r
        /\ UNCHANGED <<changeline, drive, cache, answer, marks, missed>>
    BY DEF Direct, Begin, dskxfer
  <1>2. Types /\ Control /\ \A e \in Letters \ missed : LetterInv(e)
    BY DEF FloppyInv
  <1>3. Types' /\ Control'
    BY <1>1, <1>2 DEF Types, Control, ForLetter, drive, cache, answer, marks
  <1>4. ASSUME NEW e \in Letters \ missed' PROVE LetterInv(e)'
    BY <1>1, <1>2, <1>4 DEF LetterInv, drive, cache, answer, marks, Right, Noticed, InQuestion, Flagged, Kept, Working
  <1> QED BY <1>3, <1>4 DEF FloppyInv

LEMMA DirectEndsKeeps ==
  ASSUME FloppyInv, DirectEnds
  PROVE  FloppyInv'
  <1>1. /\ stage = "direct" /\ pc' = "idle" /\ stage' = "idle"
        /\ missed' = missed \cup (IF op.d \in Letters
                                  THEN Unseen(op.d) \cup Untouched(op.d) ELSE {})
        /\ UNCHANGED <<changeline, drive, marks, cache, answer>>
    BY DEF DirectEnds, Collect, Return
  <1>2. Types /\ Control /\ \A d \in Letters \ missed : LetterInv(d)
    BY DEF FloppyInv
  <1>3. Types' /\ Control'
    BY <1>1, <1>2 DEF Types, Control, ForLetter, Unseen, Untouched, drive, marks, cache, answer
  <1>4. ASSUME NEW d \in Letters \ missed' PROVE LetterInv(d)'
    <2>1. LetterInv(d) /\ (d = op.d => Fresh(d) \/ Noticed(d))
      BY <1>1, <1>2, <1>4 DEF Unseen
    <2> QED
      BY <1>1, <2>1 DEF LetterInv, Fresh, drive, marks, cache, answer, Right, Noticed, InQuestion, Flagged, Kept, Working
  <1> QED BY <1>3, <1>4 DEF FloppyInv

LEMMA GetSerialKeeps ==
  ASSUME FloppyInv, NEW d \in Letters, GetSerial(d)
  PROVE  FloppyInv'
  <1>1. /\ stage = "idle" /\ op'.d = d /\ getbpb(d, "ioctl")
        /\ UNCHANGED <<changeline, cache, answer, missed>>
    BY DEF GetSerial
  <1>2. Types /\ Control /\ \A e \in Letters \ missed : LetterInv(e)
    BY DEF FloppyInv
  <1>3. /\ pc' = "loop" /\ call'.unit = d /\ call'.who = "driver" /\ stage' = "ioctl"
        /\ cur' = d /\ inside' \in Media /\ line' \in {FALSE, changeline}
        /\ late' \subseteq Letters /\ reformat' = reformat
        /\ dchange \subseteq dchange' /\ dchange' \subseteq dchange \cup {d}
        /\ d \notin dchange' => /\ UNCHANGED drive
                                /\ ~(d \in late /\ (changeline => line))
        /\ cur # d /\ dirty[d] # {} => inside' \in dirty[d]
        /\ cur = d => UNCHANGED drive
    BY <1>1, Getbpb
  <1>4. Types' /\ Control'
    BY <1>1, <1>2, <1>3 DEF Types, Control, ForLetter, cache, answer
  <1>5. ASSUME NEW e \in Letters \ missed' PROVE LetterInv(e)'
    <2>1. LetterInv(e) /\ e \in Letters
      BY <1>1, <1>2, <1>5
    <2>2. CASE e # d
      BY <1>1, <1>3, <2>1, <2>2 DEF LetterInv, cache, answer, Right, Noticed, InQuestion, Flagged, Kept, Working
    <2>3. CASE e = d
      <3>1. dirty[d] # {} => Right(d)'
        BY <1>1, <1>3, <2>1, <2>3 DEF LetterInv, Right, cache, drive
      <3>2. Flagged(d)' \/ Right(d)'
        <4>1. CASE d \in dchange'
          BY <4>1 DEF Flagged
        <4>2. CASE d \notin dchange'
          <5>1. \/ cur = d /\ inside' = inside /\ ~InQuestion(d) /\ Right(d)
              \/ Noticed(d)
            BY <1>1, <1>3, <2>1, <2>3, <4>2 DEF LetterInv, InQuestion, drive
          <5> QED
            BY <1>1, <1>3, <2>1, <2>3, <4>2, <5>1 DEF LetterInv, InQuestion, Noticed, Right, Flagged, cache, drive
        <4> QED BY <4>1, <4>2
      <3> QED
        BY <1>1, <1>3, <2>1, <2>3, <3>1, <3>2 DEF LetterInv, cache, Right, Noticed, InQuestion, Flagged, Working
    <2> QED BY <2>2, <2>3
  <1> QED BY <1>4, <1>5 DEF FloppyInv

LEMMA GetSerialEndsKeeps ==
  ASSUME FloppyInv, GetSerialEnds
  PROVE  FloppyInv'
  <1>1. /\ stage = "ioctl" /\ pc' = "idle" /\ stage' = "idle"
        /\ late' \in {late, late \ {op.d}}
        /\ UNCHANGED <<inside, line, cur, dchange, reformat, changeline, cache, answer, missed>>
    BY DEF GetSerialEnds, Collect, Return, Read, drive, marks
  <1>2. Types /\ Control /\ \A d \in Letters \ missed : LetterInv(d)
    BY DEF FloppyInv
  <1>3. Types' /\ Control'
    BY <1>1, <1>2 DEF Types, Control, ForLetter, cache, answer
  <1>4. ASSUME NEW d \in Letters \ missed' PROVE LetterInv(d)'
    BY <1>1, <1>2, <1>4 DEF LetterInv, Control, cache, answer, Right, Noticed, InQuestion, Flagged, Kept, Working
  <1> QED BY <1>3, <1>4 DEF FloppyInv

LEMMA SetParametersKeeps ==
  ASSUME FloppyInv, NEW d \in Letters, SetParameters(d)
  PROVE  FloppyInv'
  <1>1. /\ stage = "idle" /\ reformat' = reformat \cup {d}
        /\ UNCHANGED <<tvars, changeline, drive, dchange, cache, stage, op, answer, missed>>
    BY DEF SetParameters
  <1>2. Types /\ Control /\ \A e \in Letters \ missed : LetterInv(e)
    BY DEF FloppyInv
  <1>3. Types' /\ Control'
    BY <1>1, <1>2 DEF Types, Control, ForLetter, tvars, drive, cache, answer
  <1>4. ASSUME NEW e \in Letters \ missed' PROVE LetterInv(e)'
    BY <1>1, <1>2, <1>4 DEF LetterInv, tvars, drive, cache, answer, Right, Noticed, InQuestion, Flagged, Kept, Working
  <1> QED BY <1>3, <1>4 DEF FloppyInv

LEMMA SetlogdevKeeps ==
  ASSUME FloppyInv, NEW d \in Letters, Setlogdev(d)
  PROVE  FloppyInv'
  <1>1. /\ stage = "idle" /\ cur' = d
        /\ UNCHANGED <<tvars, changeline, inside, line, late, marks, cache, stage, op, answer>>
        /\ missed \subseteq missed' /\ missed' \subseteq missed \cup {d}
        /\ d \notin missed' => dirty[d] = {} /\ (Fresh(d) \/ Noticed(d)')
    BY DEF Setlogdev
  <1>2. Types /\ Control /\ \A e \in Letters \ missed : LetterInv(e)
    BY DEF FloppyInv
  <1>3. Types' /\ Control'
    BY <1>1, <1>2 DEF Types, Control, ForLetter, tvars, marks, cache, answer
  <1>4. ASSUME NEW e \in Letters \ missed' PROVE LetterInv(e)'
    <2>1. LetterInv(e) /\ (e = d => dirty[d] = {} /\ (Fresh(d) \/ Noticed(d)'))
      BY <1>1, <1>2, <1>4
    <2>2. e = d => Right(d)' \/ Noticed(d)'
      BY <1>1, <2>1 DEF Fresh, Right, cache
    <2> QED
      BY <1>1, <2>1, <2>2 DEF LetterInv, tvars, marks, cache, answer, Right, Noticed, InQuestion, Flagged, Kept, Working
  <1> QED BY <1>3, <1>4 DEF FloppyInv

LEMMA GetBlockKeeps ==
  ASSUME FloppyInv, NEW r \in Requests, GetBlock(r)
  PROVE  FloppyInv'
  <1>1. /\ stage = "use" /\ stage' = "moving" /\ op.what = "path" /\ r.unit = op.d
        /\ pc' = "blockio" /\ call' = r
        /\ UNCHANGED <<changeline, drive, marks, cache, op, answer, missed>>
    BY DEF GetBlock, dskxfer
  <1>2. Types /\ Control /\ \A d \in Letters \ missed : LetterInv(d)
    BY DEF FloppyInv
  <1>3. Types' /\ Control'
    BY <1>1, <1>2 DEF Types, Control, ForLetter, drive, marks, cache, answer
  <1>4. ASSUME NEW d \in Letters \ missed' PROVE LetterInv(d)'
    BY <1>1, <1>2, <1>4 DEF LetterInv, drive, marks, cache, answer, Right, Noticed, InQuestion, Flagged, Kept, Working
  <1> QED BY <1>3, <1>4 DEF FloppyInv

LEMMA GotBlockKeeps ==
  ASSUME FloppyInv, GotBlock
  PROVE  FloppyInv'
  <1> DEFINE d == op.d
  <1>1. /\ stage = "moving" /\ pc' = "idle" /\ d \in Letters /\ op.what = "path"
        /\ stage' = "idle" \/ (stage' = "use" /\ op' = op)
        /\ clean' = IF pc = "ok" THEN [clean EXCEPT ![d] = @ \cup {inside}] ELSE clean
        /\ UNCHANGED <<changeline, drive, marks, dpb, force, dirty, answer, missed>>
    BY DEF GotBlock, Collect, GoOn, Return, FloppyInv, Control, ForLetter
  <1>2. Types /\ Control /\ \A e \in Letters \ missed : LetterInv(e)
    BY DEF FloppyInv
  <1>3. Types' /\ Control'
    BY <1>1, <1>2 DEF Types, Control, ForLetter, drive, marks, answer
  <1>4. ASSUME NEW e \in Letters \ missed' PROVE LetterInv(e)'
    <2>1. LetterInv(e) /\ e \in Letters
      BY <1>1, <1>2, <1>4
    <2>2. clean'[e] \subseteq clean[e] \/ (e = d /\ pc = "ok" /\ clean'[e] = clean[e] \cup {inside})
      BY <1>1, <1>2, <2>1 DEF Types
    <2>3. e = d /\ pc = "ok" => cur = d /\ Right(d)
      BY <1>1, <1>2, <2>1 DEF Control, LetterInv, Working
    <2>4. clean'[e] \cup dirty'[e] \subseteq {dpb'[e]}
      BY <1>1, <2>1, <2>2, <2>3 DEF LetterInv, Right
    <2> QED
      BY <1>1, <2>1, <2>4 DEF LetterInv, drive, marks, answer, Right, Noticed, InQuestion, Flagged, Kept, Working
  <1> QED BY <1>3, <1>4 DEF FloppyInv

LEMMA ModifyKeeps ==
  ASSUME FloppyInv, Modify
  PROVE  FloppyInv'
  <1> DEFINE d == op.d
  <1>1. /\ stage = "use" /\ op.what = "path" /\ d \in Letters
        /\ \E m \in clean[d] : dirty' = [dirty EXCEPT ![d] = {m}]
        /\ UNCHANGED <<tvars, changeline, drive, marks, dpb, force, clean, stage, op, answer, missed>>
    BY DEF Modify, FloppyInv, Control, ForLetter
  <1>2. Types /\ Control /\ \A e \in Letters \ missed : LetterInv(e)
    BY DEF FloppyInv
  <1>3. Types' /\ Control'
    <2>1. PICK m \in clean[d] : dirty' = [dirty EXCEPT ![d] = {m}]
      BY <1>1
    <2>2. m \in Media
      BY <1>1, <1>2 DEF Types
    <2>3. Types'
      BY <1>1, <1>2, <2>1, <2>2 DEF Types, tvars, drive, marks
    <2>4. Control'
      BY <1>1, <1>2 DEF Control, ForLetter, tvars, drive, answer
    <2> QED BY <2>3, <2>4
  <1>4. ASSUME NEW e \in Letters \ missed' PROVE LetterInv(e)'
    <2>1. LetterInv(e) /\ e \in Letters
      BY <1>1, <1>2, <1>4
    <2>2. CASE e = d
      <3>1. dirty'[d] \subseteq clean[d]
        BY <1>1, <1>2 DEF Types
      <3> QED
        BY <1>1, <2>1, <2>2, <3>1 DEF LetterInv, tvars, drive, marks, answer, Right, Noticed, InQuestion, Flagged, Working
    <2>3. CASE e # d
      <3>1. dirty'[e] = dirty[e]
        BY <1>1, <1>2, <2>1, <2>3 DEF Types
      <3> QED
        BY <1>1, <2>1, <2>3, <3>1 DEF LetterInv, tvars, drive, marks, answer, Right, Noticed, InQuestion, Flagged, Kept, Working
    <2> QED BY <2>2, <2>3
  <1> QED BY <1>3, <1>4 DEF FloppyInv

LEMMA flush1Keeps ==
  ASSUME FloppyInv, NEW r \in Requests, flush1(r)
  PROVE  FloppyInv'
  <1>1. /\ stage = "use" /\ stage' = "writing" /\ r.unit \in Letters /\ dirty[r.unit] # {}
        /\ pc' = "blockio" /\ call' = r
        /\ UNCHANGED <<changeline, drive, marks, cache, op, answer, missed>>
    BY DEF flush1, dskxfer
  <1>2. Types /\ Control /\ \A d \in Letters \ missed : LetterInv(d)
    BY DEF FloppyInv
  <1>3. Types' /\ Control'
    BY <1>1, <1>2 DEF Types, Control, ForLetter, drive, marks, cache, answer
  <1>4. ASSUME NEW d \in Letters \ missed' PROVE LetterInv(d)'
    BY <1>1, <1>2, <1>4 DEF LetterInv, drive, marks, cache, answer, Right, Noticed, InQuestion, Flagged, Kept, Working
  <1> QED BY <1>3, <1>4 DEF FloppyInv

LEMMA WrittenKeeps ==
  ASSUME FloppyInv, Written
  PROVE  FloppyInv'
  <1> DEFINE u == call.unit
  <1>1. /\ stage = "writing" /\ pc' = "idle" /\ u \in Letters
        /\ stage' = "idle" \/ (stage' = "use" /\ op' = op)
        /\ dirty' = [dirty EXCEPT ![u] = {}]
        /\ clean' = IF pc = "error" THEN clean ELSE [clean EXCEPT ![u] = @ \cup dirty[u]]
        /\ UNCHANGED <<changeline, drive, marks, dpb, force, answer, missed>>
    BY DEF Written, Collect, GoOn, Return, FloppyInv, Control
  <1>2. Types /\ Control /\ \A e \in Letters \ missed : LetterInv(e)
    BY DEF FloppyInv
  <1>3. Types' /\ Control'
    BY <1>1, <1>2 DEF Types, Control, ForLetter, drive, marks, answer
  <1>4. ASSUME NEW e \in Letters \ missed' PROVE LetterInv(e)'
    <2>1. LetterInv(e) /\ e \in Letters
      BY <1>1, <1>2, <1>4
    <2>2. dirty'[e] \subseteq dirty[e] /\ clean'[e] \subseteq clean[e] \cup dirty[e]
      BY <1>1, <1>2, <2>1 DEF Types
    <2> QED
      BY <1>1, <2>1, <2>2 DEF LetterInv, drive, marks, answer, Right, Noticed, InQuestion, Flagged, Kept, Working
  <1> QED BY <1>3, <1>4 DEF FloppyInv

LEMMA FinishKeeps ==
  ASSUME FloppyInv, Finish
  PROVE  FloppyInv'
  <1>1. /\ stage = "use" /\ op.d \in Letters
        /\ \/ stage' = "check" /\ op'.d = op.d /\ force' = force \cup {op.d}
           \/ stage' = "idle" /\ force' = force
        /\ UNCHANGED <<tvars, changeline, drive, marks, dpb, clean, dirty, answer, missed>>
    BY DEF Finish, Return, FloppyInv, Control, ForLetter
  <1>2. Types /\ Control /\ \A d \in Letters \ missed : LetterInv(d)
    BY DEF FloppyInv
  <1>3. Types' /\ Control'
    BY <1>1, <1>2 DEF Types, Control, ForLetter, tvars, drive, marks, answer
  <1>4. ASSUME NEW d \in Letters \ missed' PROVE LetterInv(d)'
    BY <1>1, <1>2, <1>4 DEF LetterInv, tvars, drive, marks, answer, Right, Noticed, InQuestion, Flagged, Kept, Working
  <1> QED BY <1>3, <1>4 DEF FloppyInv

LEMMA StutterKeeps ==
  ASSUME FloppyInv, UNCHANGED vars
  PROVE  FloppyInv'
  <1> USE DEF FloppyInv, vars, tvars, fvars, drive, marks, cache, answer
  <1>1. Types'
    BY DEF Types
  <1>2. Control'
    BY DEF Control, ForLetter
  <1>3. ASSUME NEW d \in Letters \ missed' PROVE LetterInv(d)'
    BY <1>3 DEF LetterInv, Right, Noticed, InQuestion, Flagged, Kept, Working
  <1> QED BY <1>1, <1>2, <1>3

LEMMA FloppyNext == FloppyInv /\ [Next]_vars => FloppyInv'
  <1> SUFFICES ASSUME FloppyInv, [Next]_vars PROVE FloppyInv'
    OBVIOUS
  <1>1. CASE Swap \/ Wait \/ Start \/ Outside \/ Access \/ Proceed
    BY <1>1, SwapKeeps, WaitKeeps, StartKeeps, OutsideKeeps, AccessKeeps, ProceedKeeps
  <1>2. CASE Driver
    BY <1>2, mediachkKeeps, CompareKeeps, CompareFailsKeeps, KeepKeeps, RebuildKeeps,
       BuiltKeeps, NotBuiltKeeps, BuildAgainKeeps, BuildFailsKeeps, BuildIgnoredKeeps DEF Driver
  <1>3. CASE \E d \in Letters : Call(d)
    BY <1>3, BeginKeeps, GetSerialKeeps, SetParametersKeeps, SetlogdevKeeps DEF Call
  <1>4. CASE \E r \in Requests : Work(r)
    BY <1>4, DirectKeeps, GetBlockKeeps, flush1Keeps DEF Work
  <1>5. CASE DirectEnds \/ GetSerialEnds \/ GotBlock \/ Modify \/ Written \/ Finish
    BY <1>5, DirectEndsKeeps, GetSerialEndsKeeps, GotBlockKeeps, ModifyKeeps, WrittenKeeps, FinishKeeps
  <1> QED BY <1>1, <1>2, <1>3, <1>4, <1>5, StutterKeeps DEF Next

-----------------------------------------------------------------------------
(* The theorems about letters and diskettes *)

\* What the cached data of every letter, the media check and the driver's marks
\* rely on, in the middle of calls and transfers too.
THEOREM FloppyInvariance == Spec => []FloppyInv
  BY FloppyInit, FloppyNext, PTL DEF Spec

\* For any diskettes, letters and requests: after a change nothing of the old
\* diskette is used (mediachk and getbpb in dsk.c, media_check in fatfs.c).
THEOREM CacheAlwaysTrue == Spec => []CacheTrue
  <1>1. FloppyInv => CacheTrue
    BY DEF FloppyInv, Types, LetterInv, CacheTrue, Fresh, Right, Noticed, InQuestion, Working
  <1> QED BY <1>1, FloppyInvariance, PTL

\* For any diskettes, letters and requests: unwritten data goes to the diskette it
\* belongs to (play_dj and LBA_Transfer in dsk.c).
THEOREM WritesAlwaysRight == Spec => []WritesRight
  <1>1. FloppyInv => WritesRight
    <2> SUFFICES ASSUME FloppyInv, pc = "bios", stage = "writing", call.unit \notin missed
                 PROVE  dirty[call.unit] = {inside}
      BY DEF WritesRight
    <2>1. call.unit \in Letters /\ dirty[call.unit] # {} /\ cur = call.unit
      BY DEF FloppyInv, Control
    <2> QED BY <2>1 DEF FloppyInv, LetterInv, Right
  <1> QED BY <1>1, FloppyInvariance, PTL

-----------------------------------------------------------------------------
(* Unwritten data that is given up *)

\* A diskette has fewer than 1024 cylinders: LBA_to_CHS reaches all of it.
Reached ==
  \A d \in Letters :
     Geometry[d].lba \/ Geometry[d].first + Geometry[d].size <= Geometry[d].chsEnd

Answering(d) == stage = "answer" /\ op.d = d

\* Nothing of letter d is unwritten, or may soon be without another media check.
Settled(d) ==
  /\ dirty[d] = {}
  /\ ~(Working(d) /\ op.what = "path") /\ ~(Answering(d) /\ Kept(d))

SerialOk(d) == dpb[d] # None /\ Serial[dpb[d]] \in {NoBoot, serialno[d]}

\* The change line is active for the current letter only while nothing hangs on
\* it and the time is up, from a prompt to the access that follows or to the answer
\* "changed", or while an absolute access is under way.
LineInv(d) ==
  (cur = d /\ line) =>
    \/ Settled(d) /\ d \in late
    \/ pc \in {"loop", "bios"} /\ call.unit = d
    \/ stage = "direct" /\ op.d = d
    \/ Answering(d) /\ code = "changed"

\* The serial number is the one of the DPB's diskette, or will not be compared
\* before the DPB is built again.
SerialInv(d) ==
  SerialOk(d) \/ (Settled(d) /\ (Flagged(d) \/ (stage \in {"answer", "build", "unbuilt"} /\ op.d = d)))

DropRight(d) ==
  (Answering(d) /\ ~Kept(d) /\ dirty[d] # {}) => because \in {"letter", "reformat"}

LetterDrop(d) ==
  /\ LineInv(d) /\ SerialInv(d) /\ DropRight(d)
  /\ d \in force => dirty[d] = {}

\* A sector was moved only after the change line was cleared.
Passing ==
  /\ (pc \in {"loop", "ok"} /\ call.unit \in Letters /\ transferred # 0) => ~line
  /\ stage \in {"moving", "writing"} => call.who = "kernel"

DropInv == Passing /\ \A d \in Letters \ missed : LetterDrop(d)

SerialNumbers == {Serial[m] : m \in Media} \cup {None}
Numbered == serialno \in [Letters -> SerialNumbers]

\* What is known on the way.
Known == FloppyInv /\ TransferInv /\ Numbered

LEMMA NumberedNext ==
  ASSUME Numbered, Types, ForLetter, [Next]_vars
  PROVE  Numbered'
  <1>1. CASE UNCHANGED serialno
    BY <1>1 DEF Numbered
  <1>2. CASE \E d \in Letters : Read(d)
    BY <1>2 DEF Read, Numbered, SerialNumbers, Types
  <1>3. CASE Swap \/ Wait \/ Start \/ Outside \/ Access \/ Proceed \/ UNCHANGED vars
    BY <1>1, <1>3 DEF Swap, Wait, Start, Outside, Access, Proceed, Rest, fvars, vars, marks
  <1>4. CASE mediachk \/ Keep \/ Rebuild \/ BuildAgain \/ BuildFails \/ BuildIgnored
    BY <1>1, <1>4 DEF mediachk, Keep, Rebuild, BuildAgain, BuildFails,
       BuildIgnored, getbpb, marks
  <1>5. CASE Compare \/ CompareFails \/ Built \/ NotBuilt \/ GetSerialEnds
    BY <1>1, <1>2, <1>5 DEF ForLetter, Compare, CompareFails, Built, NotBuilt, GetSerialEnds, marks
  <1>6. CASE (\E d \in Letters : Call(d)) \/ \E r \in Requests : Work(r)
    BY <1>1, <1>6 DEF Call, Work, Check, Commit, GetDPB, GetSerial, SetParameters,
       Setlogdev, Begin, getbpb, Direct, GetBlock, flush1, marks
  <1>7. CASE DirectEnds \/ GotBlock \/ Modify \/ Written \/ Finish
    BY <1>1, <1>7 DEF DirectEnds, GotBlock, Modify, Written, Finish, marks
  <1> QED BY <1>3, <1>4, <1>5, <1>6, <1>7 DEF Next, Driver

LEMMA DropInit == Init => DropInv
  <1> SUFFICES ASSUME Init PROVE DropInv
    OBVIOUS
  <1>1. Passing
    BY DEF Init, TransferInit, Passing
  <1>2. \A d \in Letters : LetterDrop(d)
    BY DEF Init, TransferInit, LetterDrop, LineInv, SerialInv, DropRight, Settled, Answering, Working, Flagged
  <1> QED BY <1>1, <1>2 DEF DropInv

\* The driver's own transfers and the kernel's ask for at least one sector.
LEMMA AsksForOne ==
  ASSUME NEW r \in Calls, r.who # "int25"
  PROVE  r.n > 0
  <1>1. CASE r \in Requests
    BY <1>1, RequestAssumption
  <1>2. CASE r \in {Zero(u, m) : u \in Units, m \in Modes}
    BY <1>2 DEF Zero
  <1> QED BY <1>1, <1>2 DEF Calls

\* All of a diskette can be reached.
LEMMA NotTooFar ==
  ASSUME Reached, TransferInv, pc = "bios", OnFloppy
  PROVE  ~TooFar
  <1>1. /\ call.start + call.n <= geo.size /\ transferred + totaltodo = call.n
        /\ LBA_address = First + transferred /\ totaltodo >= 1
        /\ totaltodo \in Nat /\ transferred \in Nat /\ call \in Calls
    BY DEF TransferInv, UnderWay, Moving, ChunkChosen, Numbers
  <1>2. call.start \in Nat /\ call.n \in Nat /\ geo.first \in Nat /\ geo.size \in Nat
    BY <1>1, CallFacts, UnitFacts DEF geo
  <1>3. geo.lba \/ (geo.first + geo.size <= geo.chsEnd /\ geo.chsEnd \in Nat)
    BY <1>1, CallFacts, GeometryAssumption DEF Reached, OnFloppy, geo
  <1> QED BY <1>1, <1>2, <1>3 DEF TooFar, First

\* Nothing of letter d changes in a step that leaves its marks and data alone.
LEMMA DropStays ==
  ASSUME NEW d \in Letters \ missed, DropInv, stage' = stage, op' = op,
         UNCHANGED <<marks, cache, answer>>,
         cur' = d /\ line' => LineInv(d)'
  PROVE  LetterDrop(d)'
  BY DEF DropInv, LetterDrop, LineInv, SerialInv, SerialOk, DropRight, Settled,
         Answering, Working, Flagged, Kept, marks, cache, answer

LEMMA SwapDrops ==
  ASSUME Known, DropInv, Swap
  PROVE  DropInv'
  <1>1. Passing'
    BY DEF Swap, Known, FloppyInv, Control, DropInv, Passing, tvars
  <1>2. ASSUME NEW d \in Letters \ missed' PROVE LetterDrop(d)'
    BY <1>2 DEF Swap, tvars, DropInv, LetterDrop, LineInv, SerialInv, SerialOk, DropRight,
       Settled, Answering, Working, Flagged, Kept, marks, cache, answer
  <1> QED BY <1>1, <1>2 DEF DropInv

LEMMA WaitDrops ==
  ASSUME Known, DropInv, Wait
  PROVE  DropInv'
  <1>1. Passing'
    BY DEF Wait, DropInv, Passing, tvars
  <1>2. ASSUME NEW d \in Letters \ missed' PROVE LetterDrop(d)'
    BY <1>2 DEF Wait, tvars, DropInv, LetterDrop, LineInv, SerialInv, SerialOk, DropRight,
       Settled, Answering, Working, Flagged, Kept, marks, cache, answer
  <1> QED BY <1>1, <1>2 DEF DropInv

LEMMA StartDrops ==
  ASSUME Known, DropInv, Start
  PROVE  DropInv'
  <1>1. /\ pc = "blockio" /\ pc' = "loop" /\ call' = call /\ transferred' = 0
        /\ UNCHANGED Rest
    BY DEF Start, blockio, LBA_Transfer
  <1>2. stage \in {"moving", "writing", "direct"}
    BY <1>1 DEF Known, FloppyInv, Control
  <1>3. Passing'
    BY <1>1 DEF Rest, DropInv, Passing
  <1>4. \/ ~OnFloppy /\ UNCHANGED drive
        \/ OnFloppy /\ cur' = call.unit
    BY DEF Start, play_dj
  <1>5. ASSUME NEW d \in Letters \ missed' PROVE LetterDrop(d)'
    <2>1. LineInv(d)'
      <3>1. LineInv(d)
        BY <1>1, <1>5 DEF DropInv, LetterDrop, Rest
      <3> QED
        BY <1>1, <1>2, <1>4, <3>1 DEF LineInv, Settled, Answering, Working, Kept, Rest, cache, drive
    <2> QED BY <1>1, <1>5, <2>1, DropStays DEF Rest
  <1> QED BY <1>3, <1>5 DEF DropInv

LEMMA OutsideDrops ==
  ASSUME Known, DropInv, Outside
  PROVE  DropInv'
  <1>1. /\ pc = "blockio" /\ pc' = "failed" /\ call' = call
        /\ late' = late \ {call.unit}
        /\ UNCHANGED <<inside, line, cur, Rest>>
    BY DEF Outside, OutOfRange
  <1>2. Passing'
    BY <1>1 DEF Rest, DropInv, Passing
  <1>3. ASSUME NEW d \in Letters \ missed' PROVE LetterDrop(d)'
    <2>1. LineInv(d)'
      <3>1. LineInv(d)
        BY <1>1, <1>3 DEF DropInv, LetterDrop, Rest
      <3>2. CASE d # call.unit
        BY <1>1, <3>1, <3>2 DEF LineInv, Settled, Answering, Working, Kept, Rest, cache, answer
      <3>3. CASE d = call.unit
        <4>1. (stage = "direct" /\ op.d = d) \/ ~Settled(d)
          BY <1>1, <3>3 DEF Known, FloppyInv, Control, Settled, Working
        <4> QED BY <1>1, <3>1, <4>1 DEF LineInv, Answering, Rest, answer
      <3> QED BY <3>2, <3>3
    <2> QED BY <1>1, <1>3, <2>1, DropStays DEF Rest
  <1> QED BY <1>2, <1>3 DEF DropInv

LEMMA AccessDrops ==
  ASSUME Known, DropInv, Access
  PROVE  DropInv'
  <1>1. /\ pc = "bios" /\ pc' \in {"loop", "bios", "failed"} /\ call' = call
        /\ UNCHANGED <<inside, late, cur, Rest>>
        /\ IF OnFloppy /\ line THEN line' = FALSE ELSE line' = line
    BY DEF Access, BiosOk, BiosError
  <1>2. Passing'
    <2>1. pc' = "loop" /\ call'.unit \in Letters => ~line'
      BY <1>1 DEF OnFloppy, Known, FloppyInv, Types
    <2>2. pc' # "ok"
      BY <1>1
    <2> QED BY <1>1, <2>1, <2>2 DEF Rest, DropInv, Passing
  <1>3. ASSUME NEW d \in Letters \ missed' PROVE LetterDrop(d)'
    <2>1. LineInv(d)'
      <3>1. LineInv(d)
        BY <1>1, <1>3 DEF DropInv, LetterDrop, Rest
      <3> QED
        BY <1>1, <3>1 DEF LineInv, Settled, Answering, Working, Kept, Rest, cache, answer, OnFloppy
    <2> QED BY <1>1, <1>3, <2>1, DropStays DEF Rest
  <1> QED BY <1>2, <1>3 DEF DropInv

LEMMA ProceedDrops ==
  ASSUME Reached, Known, DropInv, Proceed
  PROVE  DropInv'
  <1>1. /\ call' = call /\ transferred' = transferred /\ UNCHANGED fvars
        /\ \/ pc = "loop" /\ pc' = "bios"
           \/ pc = "bios" /\ TooFar /\ pc' = "failed"
           \/ pc = "loop" /\ totaltodo = 0 /\ pc' = "ok"
           \/ pc = "failed" /\ pc' \in {"blockio", "error", "ignored"}
    BY DEF Proceed, Chunk, BiosTooFar, Done, Fail, Retry, Ignore, End, progress
  <1>2. Passing'
    BY <1>1 DEF fvars, drive, DropInv, Passing
  <1>3. ASSUME NEW d \in Letters \ missed' PROVE LetterDrop(d)'
    <2>1. LineInv(d) /\ d \in Letters
      BY <1>1, <1>3 DEF DropInv, LetterDrop, fvars
    <2>2. CASE pc = "loop" /\ pc' = "bios"
      <3>1. LineInv(d)'
        BY <1>1, <2>1, <2>2 DEF LineInv, Settled, Answering, Working, Kept, fvars, drive, cache, answer
      <3> QED BY <1>1, <1>3, <3>1, DropStays DEF fvars
    <2>3. CASE pc = "bios" /\ TooFar /\ pc' = "failed"
      <3>1. ~OnFloppy
        BY <2>3, NotTooFar DEF Known
      <3>2. LineInv(d)'
        BY <1>1, <2>1, <2>3, <3>1 DEF LineInv, Settled, Answering, Working, Kept, fvars, drive, cache, answer, OnFloppy
      <3> QED BY <1>1, <1>3, <3>2, DropStays DEF fvars
    <2>4. CASE pc = "loop" /\ totaltodo = 0 /\ pc' = "ok"
      <3>1. cur = d /\ line /\ call.unit = d => stage = "direct" /\ op.d = d
        <4> SUFFICES ASSUME cur = d, line, call.unit = d PROVE stage = "direct" /\ op.d = d
          OBVIOUS
        <4>1. transferred = 0
          BY <2>1, <2>4 DEF DropInv, Passing
        <4>2. call.n = 0 /\ call \in Calls
          BY <2>4, <4>1 DEF Known, TransferInv, UnderWay, Moving
        <4>3. call.who = "int25"
          BY <4>2, AsksForOne
        <4> QED BY <2>4, <4>3 DEF Known, FloppyInv, Control, DropInv, Passing
      <3>2. LineInv(d)'
        BY <1>1, <2>1, <2>4, <3>1 DEF LineInv, Settled, Answering, Working, Kept, fvars, drive, cache, answer
      <3> QED BY <1>1, <1>3, <3>2, DropStays DEF fvars
    <2>5. CASE pc = "failed" /\ pc' \in {"blockio", "error", "ignored"}
      <3>1. LineInv(d)'
        BY <1>1, <2>1, <2>5 DEF LineInv, Settled, Answering, Working, Kept, fvars, drive, cache, answer
      <3> QED BY <1>1, <1>3, <3>1, DropStays DEF fvars
    <2> QED BY <1>1, <2>2, <2>3, <2>4, <2>5
  <1> QED BY <1>2, <1>3 DEF DropInv

\* A step that collects the result of a transfer leaves Passing true.
LEMMA CollectPasses ==
  ASSUME Collect, stage' \notin {"moving", "writing"}
  PROVE  Passing'
  BY DEF Collect, Passing

\* So does the end of C_BLDBPB after an error.
LEMMA BuildErrorPasses ==
  ASSUME Known, BuildError, stage' \notin {"moving", "writing"}
  PROVE  Passing'
  <1>1. CASE Collect
    BY <1>1, CollectPasses
  <1>2. CASE stage = "unbuilt" /\ UNCHANGED tvars
    BY <1>2 DEF Known, FloppyInv, Control, Passing, tvars
  <1> QED BY <1>1, <1>2 DEF BuildError

\* A transfer of the driver begins with nothing moved.
LEMMA GetbpbPasses ==
  ASSUME NEW d, NEW next, next \notin {"moving", "writing"}, getbpb(d, next)
  PROVE  Passing'
  BY DEF getbpb, RWzero, LBA_Transfer, Passing

\* The driver's own transfer went well only after the change line was cleared.
LEMMA DriverClears ==
  ASSUME Known, DropInv, pc = "ok", stage \in {"serial", "build", "ioctl"}
  PROVE  ~line
  <1>1. call.who = "driver" /\ call.unit \in Letters /\ call \in Calls
    BY DEF Known, FloppyInv, TransferInv, Control, ForLetter
  <1>2. call.n > 0 /\ call.n \in Nat
    BY <1>1, AsksForOne, CallFacts
  <1>3. transferred + totaltodo = call.n /\ totaltodo = 0 /\ transferred \in Nat
    BY DEF Known, TransferInv, UnderWay, Moving, Numbers
  <1>4. transferred # 0
    BY <1>2, <1>3
  <1> QED BY <1>1, <1>4 DEF DropInv, Passing

LEMMA mediachkDrops ==
  ASSUME Known, DropInv, mediachk
  PROVE  DropInv'
  <1> DEFINE d == op.d
  <1>1. /\ stage = "check" /\ pc = "idle" /\ d \in Letters
        /\ UNCHANGED <<changeline, cache, op, missed>>
    BY DEF mediachk, Known, FloppyInv, Control, ForLetter
  <1>2. Types /\ Control /\ \A e \in Letters \ missed : LetterInv(e) /\ LetterDrop(e)
    BY DEF Known, FloppyInv, DropInv
  <1>3. CASE /\ d \in reformat
             /\ reformat' = reformat \ {d} /\ Answer("changed", "reformat")
             /\ UNCHANGED <<tvars, drive, dchange, serialno>>
    <2>1. Passing'
      BY <1>1, <1>3 DEF Answer, tvars, Passing
    <2>2. ASSUME NEW e \in Letters \ missed' PROVE LetterDrop(e)'
      BY <1>1, <1>2, <1>3, <2>2 DEF Answer, tvars, drive, LetterDrop, LineInv, SerialInv,
         SerialOk, DropRight, Settled, Answering, Working, Flagged, Kept, cache
    <2> QED BY <2>1, <2>2 DEF DropInv
  <1>4. CASE /\ d \notin reformat /\ d \in dchange
             /\ dchange' = dchange \ {d} /\ Answer("dont_know", "")
             /\ UNCHANGED <<tvars, drive, reformat, serialno>>
    <2>1. Passing'
      BY <1>1, <1>4 DEF Answer, tvars, Passing
    <2>2. ASSUME NEW e \in Letters \ missed' PROVE LetterDrop(e)'
      BY <1>1, <1>2, <1>4, <2>2 DEF Answer, tvars, drive, LetterDrop, LineInv, SerialInv,
         SerialOk, DropRight, Settled, Answering, Working, Flagged, Kept, cache
    <2> QED BY <2>1, <2>2 DEF DropInv
  <1>5. ASSUME NEW told \in Told, d \notin reformat \cup dchange,
               diskchange(d, told) # "dont_know",
               Answer(diskchange(d, told), IF cur # d THEN "letter" ELSE "line"),
               play_dj(d), UNCHANGED <<tvars, marks>>
        PROVE  DropInv'
    <2>1. Passing'
      BY <1>1, <1>5 DEF Answer, tvars, Passing
    <2>2. /\ cur' = d /\ (cur = d => UNCHANGED drive)
          /\ stage' = "answer" /\ code' = diskchange(d, told)
          /\ because' = IF cur # d THEN "letter" ELSE "line"
      BY <1>5 DEF Answer, play_dj, drive
    <2>3. /\ code' \in {"changed", "not_changed"}
          /\ code' = "changed" => cur # d \/ line
          /\ code' = "not_changed" => cur = d /\ ~(line /\ d \in late)
      BY <1>2, <1>5, <2>2, Diskchange
    <2>4. ASSUME NEW e \in Letters \ missed' PROVE LetterDrop(e)'
      <3>1. LetterDrop(e) /\ e \in Letters
        BY <1>1, <1>2, <2>4
      <3>2. CASE e # d
        BY <1>1, <1>5, <2>2, <3>1, <3>2 DEF LetterDrop, LineInv, SerialInv, SerialOk,
           DropRight, Settled, Answering, Working, Flagged, Kept, tvars, marks, cache
      <3>3. CASE e = d
        <4>0. cur = d /\ line => Settled(d) /\ d \in late
          BY <1>1, <3>1, <3>3 DEF LetterDrop, LineInv, Answering
        <4>1. LineInv(e)'
          BY <1>1, <2>2, <2>3, <3>3, <4>0 DEF LineInv, Answering, drive
        <4>2. SerialInv(e)'
          BY <1>1, <1>5, <2>2, <2>3, <3>1, <3>3 DEF LetterDrop, SerialInv, SerialOk, Settled,
             Answering, Working, Flagged, Kept, marks, cache
        <4>3. cur = d /\ line => dirty[d] = {}
          BY <4>0 DEF Settled
        <4>4. DropRight(e)'
          BY <1>1, <2>2, <2>3, <3>1, <3>3, <4>3 DEF LetterDrop, DropRight, Answering, Kept, cache
        <4> QED BY <1>1, <3>1, <4>1, <4>2, <4>4 DEF LetterDrop, cache
      <3> QED BY <3>2, <3>3
    <2> QED BY <2>1, <2>4 DEF DropInv
  <1>6. ASSUME NEW told \in Told, d \notin reformat \cup dchange,
               diskchange(d, told) = "dont_know",
               code' = "dont_know", because' = "", getbpb(d, "serial")
        PROVE  DropInv'
    <2>1. Passing'
      BY <1>6, GetbpbPasses
    <2>2. cur = d
      BY <1>6 DEF diskchange
    <2>3. /\ stage' = "serial" /\ pc' = "loop" /\ call'.unit = d /\ UNCHANGED drive
          /\ UNCHANGED <<reformat, serialno>> /\ dchange \subseteq dchange'
      BY <1>6, <2>2 DEF getbpb, play_dj, Marked, RWzero, LBA_Transfer, Zero
    <2>5. ASSUME NEW e \in Letters \ missed' PROVE LetterDrop(e)'
      BY <1>1, <1>2, <1>6, <2>2, <2>3, <2>5 DEF drive, LetterDrop, LineInv, SerialInv,
         SerialOk, DropRight, Settled, Answering, Working, Flagged, Kept, cache
    <2> QED BY <2>1, <2>5 DEF DropInv
  <1> QED BY <1>3, <1>4, <1>5, <1>6 DEF mediachk

LEMMA CompareDrops ==
  ASSUME Known, DropInv, Compare
  PROVE  DropInv'
  <1> DEFINE d == op.d
  <1>1. /\ stage = "serial" /\ pc = "ok" /\ stage' = "answer" /\ d \in Letters /\ cur = d
        /\ UNCHANGED <<inside, line, cur, dchange, reformat, changeline, cache, op, missed>>
        /\ serialno' = IF Serial[inside] = NoBoot THEN serialno
                       ELSE [serialno EXCEPT ![d] = Serial[inside]]
        /\ IF serialno'[d] # serialno[d] THEN Answer("changed", "serial")
           ELSE Answer("dont_know", "")
    BY DEF Compare, Read, Answer, Known, FloppyInv, Control, ForLetter
  <1>2. Types /\ Control /\ \A e \in Letters \ missed : LetterInv(e) /\ LetterDrop(e)
    BY DEF Known, FloppyInv, DropInv
  <1>3. Passing'
    BY <1>1, CollectPasses DEF Compare
  <1>4. ASSUME NEW e \in Letters \ missed' PROVE LetterDrop(e)'
    <2>1. LetterInv(e) /\ LetterDrop(e) /\ e \in Letters
      BY <1>1, <1>2, <1>4
    <2>2. CASE e # d
      <3>1. serialno'[e] = serialno[e]
        BY <1>1, <2>1, <2>2 DEF Known, Numbered
      <3> QED
        BY <1>1, <2>1, <2>2, <3>1 DEF LetterDrop, LineInv, SerialInv, SerialOk, DropRight,
           Settled, Answering, Working, Flagged, Kept, cache
    <2>3. CASE e = d
      <3>1. Right(d) => dpb[d] # None /\ Serial[dpb[d]] \in {NoBoot, serialno'[d]}
        BY <1>1, <1>2, LetterAssumption DEF Known, Numbered, Right, Types
      <3>2. dirty[d] # {} => /\ Right(d) /\ d \notin force
                             /\ Serial[inside] \in {NoBoot, serialno[d]}
        BY <1>1, <2>1, <2>3 DEF LetterInv, LetterDrop, SerialInv, SerialOk, Settled, Right
      <3>3. dirty[d] # {} => code' = "dont_know"
        BY <1>1, <1>2, <3>2 DEF Known, Numbered, Answer
      <3>4. ~line
        BY <1>1, DriverClears
      <3>5. SerialInv(d)'
        BY <1>1, <2>3, <3>1, <3>2 DEF SerialInv, SerialOk, Settled, Answering, Working, Kept,
           Answer, cache
      <3>6. DropRight(d)'
        BY <1>1, <2>1, <2>3, <3>2, <3>3 DEF DropRight, Kept, cache
      <3> QED
        BY <1>1, <2>1, <2>3, <3>4, <3>5, <3>6 DEF LetterDrop, LineInv, cache
    <2> QED BY <2>2, <2>3
  <1> QED BY <1>3, <1>4 DEF DropInv

LEMMA CompareFailsDrops ==
  ASSUME Known, DropInv, CompareFails
  PROVE  DropInv'
  <1>1. /\ stage = "serial" /\ code = "dont_know" /\ op.d \in Letters /\ cur = op.d
        /\ stage' = "idle" \/ (stage' \in {"check", "answer"} /\ op' = op)
        /\ UNCHANGED <<inside, line, cur, dchange, reformat, changeline, cache, answer, missed>>
        /\ \/ pc = "error" /\ serialno' = serialno /\ late' = late
           \/ pc = "ok" /\ serialno' \in {serialno, [serialno EXCEPT ![op.d] = Serial[inside]]}
    BY DEF CompareFails, Return, Read, drive, marks, Known, FloppyInv, Control, ForLetter
  <1>2. Passing'
    BY <1>1, CollectPasses DEF CompareFails
  <1>3. Types /\ \A e \in Letters \ missed : LetterInv(e) /\ LetterDrop(e)
    BY DEF Known, FloppyInv, DropInv
  <1>4. ASSUME NEW d \in Letters \ missed' PROVE LetterDrop(d)'
    <2>1. LetterInv(d) /\ LetterDrop(d) /\ d \in Letters
      BY <1>1, <1>3, <1>4
    <2>2. LineInv(d)'
      <3>1. CASE pc = "error"
        BY <1>1, <2>1, <3>1 DEF LetterDrop, LineInv, Settled, Answering, Working, Kept, cache, answer
      <3>2. CASE pc = "ok"
        <4>1. ~line
          BY <1>1, <3>2, DriverClears
        <4> QED BY <1>1, <4>1 DEF LineInv
      <3> QED BY <1>1, <3>1, <3>2
    <2>3. SerialInv(d)'
      <3>1. CASE serialno'[d] = serialno[d]
        BY <1>1, <2>1, <3>1 DEF LetterDrop, SerialInv, SerialOk, Settled, Answering, Working,
           Flagged, Kept, cache, answer
      <3>2. CASE serialno'[d] # serialno[d]
        <4>1. d = op.d /\ serialno'[d] = Serial[inside]
          BY <1>1, <2>1, <3>2 DEF Known, Numbered
        <4>2. Right(d) => SerialOk(d)'
          BY <1>1, <1>3, <4>1, LetterAssumption DEF Right, SerialOk, Types, cache
        <4>3. ~Right(d) => dirty[d] = {} /\ Flagged(d)
          BY <1>1, <2>1, <4>1 DEF LetterInv
        <4> QED
          BY <1>1, <4>1, <4>2, <4>3 DEF SerialInv, Settled, Answering, Working, Flagged, Kept, cache, answer
      <3> QED BY <3>1, <3>2
    <2>4. DropRight(d)'
      BY <1>1, <2>1 DEF LetterDrop, DropRight, Answering, Kept, cache, answer
    <2> QED BY <1>1, <2>1, <2>2, <2>3, <2>4 DEF LetterDrop, cache
  <1> QED BY <1>2, <1>4 DEF DropInv

LEMMA KeepDrops ==
  ASSUME Known, DropInv, Keep
  PROVE  DropInv'
  <1>1. /\ stage = "answer" /\ stage' = "use" /\ Kept(op.d)
        /\ UNCHANGED <<tvars, changeline, drive, marks, cache, op, missed>>
    BY DEF Keep
  <1>2. Passing'
    BY <1>1 DEF Known, FloppyInv, Control, Passing, tvars
  <1>3. ASSUME NEW d \in Letters \ missed' PROVE LetterDrop(d)'
    <2>1. LetterDrop(d) /\ pc = "idle"
      BY <1>1, <1>3 DEF DropInv, Known, FloppyInv, Control
    <2>2. LineInv(d)'
      BY <1>1, <2>1 DEF LetterDrop, LineInv, Settled, Answering, Working, Kept, drive, cache, tvars
    <2>3. SerialInv(d)'
      BY <1>1, <2>1 DEF LetterDrop, SerialInv, SerialOk, Settled, Answering, Working, Flagged, Kept, marks, cache
    <2> QED BY <1>1, <2>1, <2>2, <2>3 DEF LetterDrop, DropRight, Answering, cache
  <1> QED BY <1>2, <1>3 DEF DropInv

LEMMA RebuildDrops ==
  ASSUME Known, DropInv, Rebuild
  PROVE  DropInv'
  <1> DEFINE d == op.d
  <1>1. /\ stage = "answer" /\ pc = "idle" /\ d \in Letters /\ ~Kept(d)
        /\ clean' = [clean EXCEPT ![d] = {}] /\ dirty' = [dirty EXCEPT ![d] = {}]
        /\ getbpb(d, "build")
        /\ UNCHANGED <<changeline, dpb, force, op, missed>>
    BY DEF Rebuild, Known, FloppyInv, Control, ForLetter
  <1>2. Types /\ \A e \in Letters \ missed : LetterDrop(e)
    BY DEF Known, FloppyInv, DropInv
  <1>3. /\ stage' = "build" /\ cur' = d /\ UNCHANGED <<reformat, serialno>>
        /\ pc' = "loop" /\ call'.unit = d
        /\ dchange \subseteq dchange' /\ dchange' \subseteq dchange \cup {d}
    BY <1>1 DEF getbpb, Marked, play_dj, drive, RWzero, LBA_Transfer, Zero
  <1>4. Passing'
    BY <1>1, GetbpbPasses
  <1>5. ASSUME NEW e \in Letters \ missed' PROVE LetterDrop(e)'
    <2>1. LetterDrop(e) /\ e \in Letters
      BY <1>1, <1>2, <1>5
    <2>2. CASE e = d
      <3>1. dirty'[d] = {}
        BY <1>1, <1>2 DEF Types
      <3>2. Settled(d)'
        BY <1>1, <1>3, <3>1 DEF Settled, Working, Answering
      <3>3. LineInv(d)'
        BY <1>3 DEF LineInv
      <3> QED
        BY <1>1, <1>3, <2>2, <3>1, <3>2, <3>3 DEF LetterDrop, SerialInv, DropRight, Answering
    <2>3. CASE e # d
      <3>1. dirty'[e] = dirty[e]
        BY <1>1, <1>2, <2>1, <2>3 DEF Types
      <3> QED
        BY <1>1, <1>3, <2>1, <2>3, <3>1 DEF LetterDrop, LineInv, SerialInv, SerialOk, DropRight,
           Settled, Answering, Working, Flagged, Kept
    <2> QED BY <2>2, <2>3
  <1> QED BY <1>4, <1>5 DEF DropInv

LEMMA BuiltDrops ==
  ASSUME Known, DropInv, Built
  PROVE  DropInv'
  <1> DEFINE d == op.d
  <1>1. /\ stage = "build" /\ pc = "ok" /\ stage' = "use" /\ d \in Letters
        /\ cur = d /\ dirty[d] = {}
        /\ serialno' = IF Serial[inside] = NoBoot THEN serialno
                       ELSE [serialno EXCEPT ![d] = Serial[inside]]
        /\ dpb' = [dpb EXCEPT ![d] = inside] /\ force' = force \ {d}
        /\ missed' = missed \ {d}
        /\ UNCHANGED <<inside, line, cur, dchange, reformat, changeline, clean, dirty, op, answer>>
    BY DEF Built, Read, Known, FloppyInv, Control, ForLetter
  <1>2. Types /\ \A e \in Letters \ missed : LetterDrop(e)
    BY DEF Known, FloppyInv, DropInv
  <1>3. Passing'
    BY <1>1, CollectPasses DEF Built
  <1>4. ~line
    BY <1>1, DriverClears
  <1>5. ASSUME NEW e \in Letters \ missed' PROVE LetterDrop(e)'
    <2>1. CASE e = d
      <3>1. SerialOk(d)'
        BY <1>1, <1>2, LetterAssumption DEF SerialOk, Types, Known, Numbered
      <3> QED
        BY <1>1, <1>4, <2>1, <3>1 DEF LetterDrop, LineInv, SerialInv, DropRight, Answering
    <2>2. CASE e # d
      <3>1. LetterDrop(e) /\ e \in Letters
        BY <1>1, <1>2, <1>5, <2>2
      <3>2. dpb'[e] = dpb[e] /\ serialno'[e] = serialno[e]
        BY <1>1, <1>2, <2>2, <3>1 DEF Types, Known, Numbered
      <3> QED
        BY <1>1, <2>2, <3>1, <3>2 DEF LetterDrop, LineInv, SerialInv, SerialOk, DropRight,
           Settled, Answering, Working, Flagged, Kept, answer
    <2> QED BY <2>1, <2>2
  <1> QED BY <1>3, <1>5 DEF DropInv

LEMMA NotBuiltDrops ==
  ASSUME Known, DropInv, NotBuilt
  PROVE  DropInv'
  <1> DEFINE d == op.d
  <1>1. /\ stage = "build" /\ pc = "ok" /\ stage' = "unbuilt" /\ d \in Letters
        /\ cur = d /\ dirty[d] = {}
        /\ serialno' \in {serialno, [serialno EXCEPT ![d] = Serial[inside]]}
        /\ UNCHANGED <<inside, line, cur, dchange, reformat, changeline, cache, op, answer, missed>>
    BY DEF NotBuilt, Read, Known, FloppyInv, Control, ForLetter
  <1>2. \A e \in Letters \ missed : LetterDrop(e)
    BY DEF DropInv
  <1>3. Passing'
    BY <1>1, CollectPasses DEF NotBuilt
  <1>4. ~line
    BY <1>1, DriverClears
  <1>5. ASSUME NEW e \in Letters \ missed' PROVE LetterDrop(e)'
    <2>1. LetterDrop(e) /\ e \in Letters
      BY <1>1, <1>2, <1>5
    <2>2. CASE e = d
      <3>1. Settled(d)'
        BY <1>1 DEF Settled, Working, Answering, cache
      <3> QED
        BY <1>1, <1>4, <2>1, <2>2, <3>1 DEF LetterDrop, LineInv, SerialInv, DropRight, Answering, cache
    <2>3. CASE e # d
      <3>1. serialno'[e] = serialno[e]
        BY <1>1, <2>1, <2>3 DEF Known, Numbered
      <3> QED
        BY <1>1, <2>1, <2>3, <3>1 DEF LetterDrop, LineInv, SerialInv, SerialOk, DropRight,
           Settled, Answering, Working, Flagged, Kept, cache, answer
    <2> QED BY <2>2, <2>3
  <1> QED BY <1>3, <1>5 DEF DropInv

LEMMA BuildAgainDrops ==
  ASSUME Known, DropInv, BuildAgain
  PROVE  DropInv'
  <1> DEFINE d == op.d
  <1>1. /\ stage \in {"build", "unbuilt"} /\ d \in Letters /\ cur = d /\ getbpb(d, "build")
        /\ UNCHANGED <<changeline, cache, op, answer, missed>>
    BY DEF BuildAgain, Known, FloppyInv, Control, ForLetter
  <1>2. /\ stage' = "build" /\ UNCHANGED drive /\ UNCHANGED <<reformat, serialno>>
        /\ dchange \subseteq dchange' /\ dchange' \subseteq dchange \cup {d}
        /\ pc' = "loop" /\ call'.unit = d
    BY <1>1 DEF getbpb, Marked, play_dj, RWzero, LBA_Transfer, Zero
  <1>3. Passing'
    BY <1>1, GetbpbPasses
  <1>4. ASSUME NEW e \in Letters \ missed' PROVE LetterDrop(e)'
    <2>1. LetterDrop(e)
      BY <1>1, <1>4 DEF DropInv
    <2> QED
      BY <1>1, <1>2, <2>1 DEF LetterDrop, LineInv, SerialInv, SerialOk, DropRight,
         Settled, Answering, Working, Flagged, Kept, cache, drive, answer
  <1> QED BY <1>3, <1>4 DEF DropInv

LEMMA BuildFailsDrops ==
  ASSUME Known, DropInv, BuildFails
  PROVE  DropInv'
  <1>1. /\ stage \in {"build", "unbuilt"} /\ pc \in {"idle", "error"} /\ stage' = "idle"
        /\ op.d \in Letters
        /\ dirty[op.d] = {}
        /\ missed' = missed \cup Unseen(op.d) \cup Misnamed(op.d)
        /\ UNCHANGED <<changeline, drive, marks, cache, answer>>
    BY DEF BuildFails, BuildError, Return, Known, FloppyInv, Control, ForLetter
  <1>2. Passing'
    BY <1>1, BuildErrorPasses DEF BuildFails
  <1>3. ASSUME NEW d \in Letters \ missed' PROVE LetterDrop(d)'
    <2>1. LetterDrop(d) /\ (d = op.d => Named(d))
      BY <1>1, <1>3 DEF DropInv, Misnamed
    <2>2. d = op.d => Settled(d)'
      BY <1>1 DEF Settled, Working, Answering, cache
    <2>3. d = op.d => SerialInv(d)'
      BY <1>1, <2>1, <2>2 DEF SerialInv, SerialOk, Named, Flagged, cache, marks
    <2> QED
      BY <1>1, <2>1, <2>2, <2>3 DEF LetterDrop, LineInv, SerialInv, SerialOk, DropRight,
         Settled, Answering, Working, Flagged, Kept, drive, marks, cache, answer
  <1> QED BY <1>2, <1>3 DEF DropInv

LEMMA BuildIgnoredDrops ==
  ASSUME Known, DropInv, BuildIgnored
  PROVE  DropInv'
  <1> DEFINE d == op.d
  <1>1. /\ stage \in {"build", "unbuilt"} /\ pc \in {"idle", "error"} /\ stage' = "use"
        /\ d \in Letters
        /\ \E m \in Media \cup {None} : dpb' = [dpb EXCEPT ![d] = m]
        /\ force' = force \ {d} /\ missed' = missed \cup {d}
        /\ UNCHANGED <<changeline, drive, marks, clean, dirty, op, answer>>
    BY DEF BuildIgnored, BuildError, Known, FloppyInv, Control, ForLetter
  <1>2. Passing'
    BY <1>1, BuildErrorPasses DEF BuildIgnored
  <1>3. ASSUME NEW e \in Letters \ missed' PROVE LetterDrop(e)'
    <2>1. LetterDrop(e) /\ e \in Letters /\ e # d
      BY <1>1, <1>3 DEF DropInv
    <2>2. dpb'[e] = dpb[e]
      BY <1>1, <2>1 DEF Known, FloppyInv, Types
    <2> QED
      BY <1>1, <2>1, <2>2 DEF LetterDrop, LineInv, SerialInv, SerialOk, DropRight,
         Settled, Answering, Working, Flagged, Kept, drive, marks, answer
  <1> QED BY <1>2, <1>3 DEF DropInv

LEMMA BeginDrops ==
  ASSUME Known, DropInv, NEW d \in Letters, Check(d) \/ Commit(d) \/ GetDPB(d)
  PROVE  DropInv'
  <1>1. /\ stage = "idle" /\ pc = "idle"
        /\ \/ stage' = "check" /\ op' = [what |-> "path", d |-> d]
           \/ stage' = "use" /\ op' = [what |-> "commit", d |-> d]
           \/ stage' = "use" /\ op' = [what |-> "getdpb", d |-> d]
        /\ UNCHANGED <<tvars, changeline, drive, marks, cache, answer, missed>>
    BY DEF Check, Commit, GetDPB, Begin, Known, FloppyInv, Control
  <1>2. Passing'
    BY <1>1 DEF Passing, tvars
  <1>3. ASSUME NEW e \in Letters \ missed' PROVE LetterDrop(e)'
    <2>1. LetterDrop(e)
      BY <1>1, <1>3 DEF DropInv
    <2> QED
      BY <1>1, <2>1 DEF LetterDrop, LineInv, SerialInv, SerialOk, DropRight,
         Settled, Answering, Working, Flagged, Kept, tvars, drive, marks, cache, answer
  <1> QED BY <1>2, <1>3 DEF DropInv

LEMMA DirectDrops ==
  ASSUME Known, DropInv, NEW r \in Requests, Direct(r)
  PROVE  DropInv'
  <1>1. /\ stage = "idle" /\ pc' = "blockio" /\ stage' = "direct"
        /\ UNCHANGED <<changeline, drive, marks, cache, answer, missed>>
        /\ pc = "idle"
    BY DEF Direct, Begin, dskxfer, Known, FloppyInv, Control
  <1>2. Passing'
    BY <1>1 DEF Passing
  <1>3. ASSUME NEW d \in Letters \ missed' PROVE LetterDrop(d)'
    <2>1. LetterDrop(d)
      BY <1>1, <1>3 DEF DropInv
    <2> QED
      BY <1>1, <2>1 DEF LetterDrop, LineInv, SerialInv, SerialOk, DropRight,
         Settled, Answering, Working, Flagged, Kept, drive, marks, cache, answer
  <1> QED BY <1>2, <1>3 DEF DropInv

LEMMA DirectEndsDrops ==
  ASSUME Known, DropInv, DirectEnds
  PROVE  DropInv'
  <1>1. /\ stage = "direct" /\ pc \in Outcomes /\ stage' = "idle"
        /\ missed' = missed \cup (IF op.d \in Letters
                                  THEN Unseen(op.d) \cup Untouched(op.d) ELSE {})
        /\ UNCHANGED <<changeline, drive, marks, cache, answer>>
    BY DEF DirectEnds, Collect, Return
  <1>2. Passing'
    BY <1>1, CollectPasses DEF DirectEnds
  <1>3. ASSUME NEW d \in Letters \ missed' PROVE LetterDrop(d)'
    <2>1. LetterDrop(d) /\ (d = op.d => (cur = d /\ line => dirty[d] = {} /\ d \in late))
      BY <1>1, <1>3 DEF DropInv, Untouched
    <2>2. Settled(d)' <=> dirty[d] = {}
      BY <1>1 DEF Settled, Working, Answering, cache
    <2>3. LineInv(d)'
      BY <1>1, <2>1, <2>2 DEF LetterDrop, LineInv, Settled, Answering, drive, Outcomes
    <2> QED
      BY <1>1, <2>1, <2>2, <2>3 DEF LetterDrop, SerialInv, SerialOk, DropRight,
         Settled, Answering, Working, Flagged, Kept, marks, cache, answer
  <1> QED BY <1>2, <1>3 DEF DropInv

LEMMA GetSerialDrops ==
  ASSUME Known, DropInv, NEW d \in Letters, GetSerial(d)
  PROVE  DropInv'
  <1>1. /\ stage = "idle" /\ pc = "idle" /\ op'.d = d /\ getbpb(d, "ioctl")
        /\ UNCHANGED <<changeline, cache, answer, missed>>
    BY DEF GetSerial, Known, FloppyInv, Control
  <1>2. /\ stage' = "ioctl" /\ cur' = d /\ UNCHANGED <<reformat, serialno>>
        /\ dchange \subseteq dchange' /\ dchange' \subseteq dchange \cup {d}
        /\ pc' = "loop" /\ call'.unit = d
    BY <1>1 DEF getbpb, Marked, play_dj, drive, RWzero, LBA_Transfer, Zero
  <1>3. Passing'
    BY <1>1, GetbpbPasses
  <1>4. ASSUME NEW e \in Letters \ missed' PROVE LetterDrop(e)'
    <2>1. LetterDrop(e)
      BY <1>1, <1>4 DEF DropInv
    <2> QED
      BY <1>1, <1>2, <2>1 DEF LetterDrop, LineInv, SerialInv, SerialOk, DropRight,
         Settled, Answering, Working, Flagged, Kept, cache, answer
  <1> QED BY <1>3, <1>4 DEF DropInv

LEMMA GetSerialEndsDrops ==
  ASSUME Known, DropInv, GetSerialEnds
  PROVE  DropInv'
  <1> DEFINE d == op.d
  <1>1. /\ stage = "ioctl" /\ stage' = "idle" /\ d \in Letters /\ cur = d
        /\ UNCHANGED <<inside, line, cur, dchange, reformat, changeline, cache, answer, missed>>
        /\ \/ serialno' = serialno
           \/ pc = "ok" /\ Serial[inside] # NoBoot /\ serialno' = [serialno EXCEPT ![d] = Serial[inside]]
        /\ pc = "ok" \/ (pc = "error" /\ late' = late)
    BY DEF GetSerialEnds, Collect, Return, Read, drive, marks, Known, FloppyInv, Control, ForLetter, Outcomes
  <1>2. Types /\ \A e \in Letters \ missed : LetterInv(e) /\ LetterDrop(e)
    BY DEF Known, FloppyInv, DropInv
  <1>3. Passing'
    BY <1>1, CollectPasses DEF GetSerialEnds
  <1>4. ASSUME NEW e \in Letters \ missed' PROVE LetterDrop(e)'
    <2>1. LetterInv(e) /\ LetterDrop(e) /\ e \in Letters
      BY <1>1, <1>2, <1>4
    <2>2. Settled(e)' <=> dirty[e] = {}
      BY <1>1 DEF Settled, Working, Answering, cache
    <2>3. LineInv(e)'
      <3>1. CASE pc = "ok"
        BY <1>1, <3>1, DriverClears DEF LineInv
      <3>2. CASE pc = "error" /\ late' = late
        BY <1>1, <2>1, <2>2, <3>2 DEF LetterDrop, LineInv, Settled, Answering
      <3> QED BY <1>1, <3>1, <3>2
    <2>4. SerialInv(e)'
      <3>1. CASE serialno'[e] = serialno[e]
        BY <1>1, <2>1, <2>2, <3>1 DEF LetterDrop, SerialInv, SerialOk, Settled, Flagged, cache
      <3>2. CASE serialno'[e] # serialno[e]
        <4>1. e = d /\ serialno'[e] = Serial[inside]
          BY <1>1, <2>1, <3>2 DEF Known, Numbered
        <4>2. Right(e) => SerialOk(e)'
          BY <1>1, <1>2, <4>1, LetterAssumption DEF Right, SerialOk, Types, cache
        <4>3. ~Right(e) => dirty[e] = {} /\ Flagged(e)
          BY <1>1, <2>1, <4>1 DEF LetterInv
        <4> QED BY <1>1, <2>2, <4>1, <4>2, <4>3 DEF SerialInv, Flagged, cache
      <3> QED BY <3>1, <3>2
    <2> QED
      BY <1>1, <2>1, <2>3, <2>4 DEF LetterDrop, DropRight, Answering, cache
  <1> QED BY <1>3, <1>4 DEF DropInv

LEMMA SetParametersDrops ==
  ASSUME Known, DropInv, NEW d \in Letters, SetParameters(d)
  PROVE  DropInv'
  <1>1. /\ stage = "idle" /\ reformat' = reformat \cup {d}
        /\ UNCHANGED <<tvars, changeline, drive, dchange, serialno, cache, stage, op, answer, missed>>
    BY DEF SetParameters
  <1>2. Passing'
    BY <1>1 DEF Passing, DropInv, tvars, drive
  <1>3. ASSUME NEW e \in Letters \ missed' PROVE LetterDrop(e)'
    <2>1. LetterDrop(e)
      BY <1>1, <1>3 DEF DropInv
    <2> QED
      BY <1>1, <2>1 DEF LetterDrop, LineInv, SerialInv, SerialOk, DropRight,
         Settled, Answering, Working, Flagged, Kept, tvars, drive, cache, answer
  <1> QED BY <1>2, <1>3 DEF DropInv

LEMMA SetlogdevDrops ==
  ASSUME Known, DropInv, NEW d \in Letters, Setlogdev(d)
  PROVE  DropInv'
  <1>1. /\ stage = "idle" /\ pc = "idle" /\ cur' = d
        /\ UNCHANGED <<tvars, changeline, inside, line, late, marks, cache, stage, op, answer>>
        /\ missed \subseteq missed'
        /\ d \notin missed' => dirty[d] = {} /\ (line => d \in late)
    BY DEF Setlogdev, Known, FloppyInv, Control
  <1>2. Passing'
    BY <1>1 DEF Passing, tvars
  <1>3. ASSUME NEW e \in Letters \ missed' PROVE LetterDrop(e)'
    <2>1. LetterDrop(e) /\ (e = d => dirty[e] = {} /\ (line => d \in late))
      BY <1>1, <1>3 DEF DropInv
    <2> QED
      BY <1>1, <2>1 DEF LetterDrop, LineInv, SerialInv, SerialOk, DropRight,
         Settled, Answering, Working, Flagged, Kept, tvars, marks, cache, answer
  <1> QED BY <1>2, <1>3 DEF DropInv

LEMMA GetBlockDrops ==
  ASSUME Known, DropInv, NEW r \in Requests, GetBlock(r)
  PROVE  DropInv'
  <1>1. /\ stage = "use" /\ stage' = "moving" /\ pc = "idle" /\ pc' = "blockio"
        /\ call' = r /\ r.who = "kernel"
        /\ UNCHANGED <<changeline, drive, marks, cache, op, answer, missed>>
    BY DEF GetBlock, dskxfer, Known, FloppyInv, Control
  <1>2. Passing'
    BY <1>1 DEF Passing
  <1>3. ASSUME NEW d \in Letters \ missed' PROVE LetterDrop(d)'
    <2>1. LetterDrop(d)
      BY <1>1, <1>3 DEF DropInv
    <2> QED
      BY <1>1, <2>1 DEF LetterDrop, LineInv, SerialInv, SerialOk, DropRight,
         Settled, Answering, Working, Flagged, Kept, drive, marks, cache, answer
  <1> QED BY <1>2, <1>3 DEF DropInv

LEMMA flush1Drops ==
  ASSUME Known, DropInv, NEW r \in Requests, flush1(r)
  PROVE  DropInv'
  <1>1. /\ stage = "use" /\ stage' = "writing" /\ pc = "idle" /\ pc' = "blockio"
        /\ call' = r /\ r.who = "kernel"
        /\ UNCHANGED <<changeline, drive, marks, cache, op, answer, missed>>
    BY DEF flush1, dskxfer, Known, FloppyInv, Control
  <1>2. Passing'
    BY <1>1 DEF Passing
  <1>3. ASSUME NEW d \in Letters \ missed' PROVE LetterDrop(d)'
    <2>1. LetterDrop(d)
      BY <1>1, <1>3 DEF DropInv
    <2> QED
      BY <1>1, <2>1 DEF LetterDrop, LineInv, SerialInv, SerialOk, DropRight,
         Settled, Answering, Working, Flagged, Kept, drive, marks, cache, answer
  <1> QED BY <1>2, <1>3 DEF DropInv

LEMMA GotBlockDrops ==
  ASSUME Known, DropInv, GotBlock
  PROVE  DropInv'
  <1>1. /\ stage = "moving" /\ pc \in Outcomes
        /\ stage' = "idle" \/ (stage' = "use" /\ op' = op)
        /\ UNCHANGED <<changeline, drive, marks, dpb, force, dirty, answer, missed>>
    BY DEF GotBlock, Collect, GoOn, Return
  <1>2. Passing'
    BY <1>1, CollectPasses DEF GotBlock
  <1>3. ASSUME NEW d \in Letters \ missed' PROVE LetterDrop(d)'
    <2>1. LetterDrop(d)
      BY <1>1, <1>3 DEF DropInv
    <2> QED
      BY <1>1, <2>1 DEF LetterDrop, LineInv, SerialInv, SerialOk, DropRight,
         Settled, Answering, Working, Flagged, Kept, drive, marks, answer, Outcomes
  <1> QED BY <1>2, <1>3 DEF DropInv

LEMMA ModifyDrops ==
  ASSUME Known, DropInv, Modify
  PROVE  DropInv'
  <1> DEFINE d == op.d
  <1>1. /\ stage = "use" /\ op.what = "path" /\ pc = "idle" /\ d \in Letters
        /\ \E m \in clean[d] : dirty' = [dirty EXCEPT ![d] = {m}]
        /\ UNCHANGED <<tvars, changeline, drive, marks, dpb, force, clean, stage, op, answer, missed>>
    BY DEF Modify, Known, FloppyInv, Control, ForLetter
  <1>2. Passing'
    BY <1>1 DEF Passing, DropInv, tvars, drive
  <1>3. ASSUME NEW e \in Letters \ missed' PROVE LetterDrop(e)'
    <2>1. LetterDrop(e) /\ LetterInv(e) /\ e \in Letters
      BY <1>1, <1>3 DEF DropInv, Known, FloppyInv
    <2>2. CASE e = d
      <3>1. d \notin force /\ ~Settled(e)
        BY <1>1, <2>1, <2>2 DEF LetterInv, Working, Settled
      <3>2. SerialOk(e) /\ ~(cur = e /\ line)
        BY <1>1, <2>1, <3>1 DEF LetterDrop, SerialInv, LineInv, Answering
      <3> QED
        BY <1>1, <2>2, <3>1, <3>2 DEF LetterDrop, SerialInv, SerialOk, LineInv, DropRight,
           Answering, drive, marks
    <2>3. CASE e # d
      <3>1. dirty'[e] = dirty[e]
        BY <1>1, <2>1, <2>3 DEF Known, FloppyInv, Types
      <3> QED
        BY <1>1, <2>1, <2>3, <3>1 DEF LetterDrop, LineInv, SerialInv, SerialOk, DropRight,
           Settled, Answering, Working, Flagged, Kept, tvars, drive, marks, answer
    <2> QED BY <2>2, <2>3
  <1> QED BY <1>2, <1>3 DEF DropInv

LEMMA WrittenDrops ==
  ASSUME Known, DropInv, Written
  PROVE  DropInv'
  <1> DEFINE u == call.unit
  <1>1. /\ stage = "writing" /\ pc \in Outcomes /\ u \in Letters
        /\ stage' = "idle" \/ (stage' = "use" /\ op' = op)
        /\ dirty' = [dirty EXCEPT ![u] = {}]
        /\ UNCHANGED <<changeline, drive, marks, dpb, force, answer, missed>>
    BY DEF Written, Collect, GoOn, Return, Known, FloppyInv, Control
  <1>2. Passing'
    BY <1>1, CollectPasses DEF Written
  <1>3. ASSUME NEW d \in Letters \ missed' PROVE LetterDrop(d)'
    <2>1. LetterDrop(d)
      BY <1>1, <1>3 DEF DropInv
    <2>2. dirty'[d] = {} \/ dirty'[d] = dirty[d]
      BY <1>1, <1>3 DEF Known, FloppyInv, Types
    <2> QED
      BY <1>1, <2>1, <2>2 DEF LetterDrop, LineInv, SerialInv, SerialOk, DropRight,
         Settled, Answering, Working, Flagged, Kept, drive, marks, answer, Outcomes
  <1> QED BY <1>2, <1>3 DEF DropInv

LEMMA FinishDrops ==
  ASSUME Known, DropInv, Finish
  PROVE  DropInv'
  <1>1. /\ stage = "use" /\ pc = "idle" /\ (op.what = "path" \/ dirty[op.d] = {})
        /\ \/ /\ op.what = "getdpb" /\ stage' = "check" /\ op' = [what |-> "dpb", d |-> op.d]
              /\ force' = force \cup {op.d}
           \/ stage' = "idle" /\ force' = force
        /\ UNCHANGED <<tvars, changeline, drive, marks, dpb, clean, dirty, answer, missed>>
    BY DEF Finish, Return, Known, FloppyInv, Control
  <1>2. Passing'
    BY <1>1 DEF Passing, tvars
  <1>3. ASSUME NEW d \in Letters \ missed' PROVE LetterDrop(d)'
    <2>1. LetterDrop(d)
      BY <1>1, <1>3 DEF DropInv
    <2> QED
      BY <1>1, <2>1 DEF LetterDrop, LineInv, SerialInv, SerialOk, DropRight,
         Settled, Answering, Working, Flagged, Kept, tvars, drive, marks, answer
  <1> QED BY <1>2, <1>3 DEF DropInv

LEMMA StutterDrops ==
  ASSUME DropInv, UNCHANGED vars
  PROVE  DropInv'
  <1>1. Passing'
    BY DEF vars, tvars, fvars, drive, DropInv, Passing
  <1>2. ASSUME NEW d \in Letters \ missed' PROVE LetterDrop(d)'
    BY <1>2 DEF vars, tvars, fvars, drive, marks, cache, answer, DropInv, LetterDrop, LineInv,
       SerialInv, SerialOk, DropRight, Settled, Answering, Working, Flagged, Kept
  <1> QED BY <1>1, <1>2 DEF DropInv

LEMMA DropNext ==
  ASSUME Reached, Known, DropInv, [Next]_vars
  PROVE  DropInv'
  <1>1. CASE Swap \/ Wait \/ Start \/ Outside \/ Access \/ Proceed
    BY <1>1, SwapDrops, WaitDrops, StartDrops, OutsideDrops, AccessDrops, ProceedDrops
  <1>2. CASE Driver
    BY <1>2, mediachkDrops, CompareDrops, CompareFailsDrops, KeepDrops, RebuildDrops,
       BuiltDrops, NotBuiltDrops, BuildAgainDrops, BuildFailsDrops, BuildIgnoredDrops DEF Driver
  <1>3. CASE \E d \in Letters : Call(d)
    BY <1>3, BeginDrops, GetSerialDrops, SetParametersDrops, SetlogdevDrops DEF Call
  <1>4. CASE \E r \in Requests : Work(r)
    BY <1>4, DirectDrops, GetBlockDrops, flush1Drops DEF Work
  <1>5. CASE DirectEnds \/ GetSerialEnds \/ GotBlock \/ Modify \/ Written \/ Finish
    BY <1>5, DirectEndsDrops, GetSerialEndsDrops, GotBlockDrops, ModifyDrops, WrittenDrops, FinishDrops
  <1> QED BY <1>1, <1>2, <1>3, <1>4, <1>5, StutterDrops DEF Next

LEMMA AlwaysKnown == Spec => []Known
  <1>1. Init => Numbered
    BY DEF Init, Numbered, SerialNumbers
  <1>2. FloppyInv /\ Numbered /\ [Next]_vars => Numbered'
    BY NumberedNext DEF FloppyInv, Control
  <1>3. Spec => []Numbered
    BY <1>1, <1>2, FloppyInvariance, PTL DEF Spec
  <1>4. Spec => []TransferInv
    BY FloppyTransfers, TransferInvariance, PTL
  <1>5. FloppyInv /\ TransferInv /\ Numbered => Known
    BY DEF Known
  <1> QED BY <1>3, <1>4, <1>5, FloppyInvariance, PTL

\* For any letters, media and requests, on a diskette all of which LBA_to_CHS can
\* reach: media_check gives up unwritten data only when the letter was not current
\* or the parameters were set, never because of time, the change line or a serial
\* number (mediachk and diskchange in dsk.c, media_check in fatfs.c).
THEOREM DropsAlwaysRight == Reached => (Spec => []DropsOnly)
  <1> SUFFICES ASSUME Reached PROVE Spec => []DropsOnly
    OBVIOUS
  <1>1. Known /\ DropInv /\ [Next]_vars => DropInv'
    BY DropNext
  <1>2. Spec => []DropInv
    BY DropInit, <1>1, AlwaysKnown, PTL DEF Spec
  <1>3. Known /\ DropInv => DropsOnly
    BY DEF Known, FloppyInv, Control, ForLetter, DropInv, LetterDrop, DropRight, Answering, DropsOnly
  <1> QED BY <1>2, <1>3, AlwaysKnown, PTL

-----------------------------------------------------------------------------
(* Types *)

\* Buffers with unwritten data of a letter belong to one diskette.
OneDirty(d) == dirty[d] = {} \/ \E m \in Media : dirty[d] = {m}
Small == /\ code \in {"not_changed", "dont_know", "changed"}
         /\ \A d \in Letters : OneDirty(d)

LEMMA SmallNext ==
  ASSUME FloppyInv, Small, [Next]_vars
  PROVE  Small'
  <1> Types /\ ForLetter
    BY DEF FloppyInv, Control
  <1>1. CASE UNCHANGED <<code, dirty>>
    BY <1>1 DEF Small, OneDirty
  <1>2. CASE Swap \/ Wait \/ Start \/ Outside \/ Access \/ Proceed \/ UNCHANGED vars
    BY <1>1, <1>2 DEF Swap, Wait, Start, Outside, Access, Proceed, Rest, fvars, vars, cache, answer
  <1>3. CASE mediachk \/ Compare \/ Keep
    <2>1. dirty' = dirty /\ code' \in {"not_changed", "dont_know", "changed"}
      BY <1>3 DEF mediachk, Compare, Keep, Answer, Heard, diskchange, cache
    <2> QED BY <2>1 DEF Small, OneDirty
  <1>4. CASE CompareFails \/ Built \/ NotBuilt \/ BuildAgain \/ BuildFails \/ BuildIgnored
    BY <1>1, <1>4 DEF CompareFails, Built, NotBuilt, BuildAgain, BuildFails, BuildIgnored, cache, answer
  <1>5. CASE Rebuild
    <2>1. /\ dirty' = [dirty EXCEPT ![op.d] = {}] /\ code' = "not_changed"
      BY <1>5 DEF Rebuild, Heard
    <2> QED BY <2>1 DEF Small, OneDirty, Types
  <1>6. CASE (\E d \in Letters : Call(d)) \/ \E r \in Requests : Work(r)
    BY <1>1, <1>6 DEF Call, Work, Check, Commit, GetDPB, GetSerial, SetParameters,
       Setlogdev, Begin, Direct, GetBlock, flush1, cache, answer
  <1>7. CASE DirectEnds \/ GetSerialEnds \/ GotBlock \/ Finish
    BY <1>1, <1>7 DEF DirectEnds, GetSerialEnds, GotBlock, Finish, cache, answer
  <1>8. CASE Modify
    <2>1. PICK m \in clean[op.d] : dirty' = [dirty EXCEPT ![op.d] = {m}]
      BY <1>8 DEF Modify
    <2>2. m \in Media /\ code' = code
      BY <1>8 DEF Modify, ForLetter, Types, answer
    <2> QED BY <2>1, <2>2 DEF Small, OneDirty, Types
  <1>9. CASE Written
    <2>1. dirty' = [dirty EXCEPT ![call.unit] = {}] /\ code' = code
      BY <1>9 DEF Written, answer
    <2> QED BY <2>1 DEF Small, OneDirty, Types
  <1> QED
    BY <1>2, <1>3, <1>4, <1>5, <1>6, <1>7, <1>8, <1>9 DEF Next, Driver

LEMMA OneDirtyCount ==
  ASSUME NEW d \in Letters, OneDirty(d)
  PROVE  Cardinality(dirty[d]) <= 1
  <1>1. CASE dirty[d] = {}
    <2>1. Cardinality(dirty[d]) = 0
      BY <1>1, FS_EmptySet
    <2> QED BY <2>1
  <1>2. CASE \E m \in Media : dirty[d] = {m}
    <2>1. PICK m \in Media : dirty[d] = {m}
      BY <1>2
    <2>2. Cardinality(dirty[d]) = 1
      BY <2>1, FS_Singleton
    <2> QED BY <2>2
  <1> QED BY <1>1, <1>2 DEF OneDirty

\* For any letters, media and requests every variable keeps its type: retries end,
\* and the buffers of a letter never wait for two diskettes.
THEOREM TypesAlwaysRight == Spec => []TypeOK
  <1>1. Init => Small
    BY DEF Init, Small, OneDirty
  <1>2. FloppyInv /\ Small /\ [Next]_vars => Small'
    BY SmallNext
  <1>3. Spec => []Small
    BY <1>1, <1>2, FloppyInvariance, PTL DEF Spec
  <1>4. Spec => []Counted
    BY FloppyTransfers, CountedAlways, PTL
  <1>5. Known /\ Small /\ Counted => TypeOK
    <2> SUFFICES ASSUME Known, Small, Counted PROVE TypeOK
      OBVIOUS
    <2>1. \A d \in Letters : Cardinality(dirty[d]) <= 1
      BY OneDirtyCount DEF Small
    <2> QED
      BY <2>1 DEF Known, TransferInv, Steps, FloppyInv, Types, Small, Counted, TypeOK
  <1> QED BY <1>3, <1>4, <1>5, AlwaysKnown, PTL
=============================================================================
