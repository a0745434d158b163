-------------------------- MODULE WorkerScanProofs --------------------------
(* For packets of every length: the scan stores the maximum or nothing. *)
EXTENDS WorkerScan, SequenceTheorems, TLAPS

(* m is the first maximum of the first n measurements of p. *)
BestOfPrefix(m, p, n) ==
    \E k \in 1 .. n :
        /\ m = p[k]
        /\ \A j \in 1 .. n :
              /\ p[j].value <= m.value
              /\ p[j].value = m.value => p[j].ts <= m.ts
              /\ p[j].value = m.value /\ p[j].ts = m.ts => k <= j

(* Before a measurement is looked at, best is the maximum of those already *)
(* seen; this is what makes the answer right when the loop ends.           *)
ScanInv ==
    /\ ScanTypeOK
    /\ found <=> next > 1
    /\ found => BestOfPrefix(best, packet, next - 1)
    /\ outcome \in {"stored", "skipped"} => next = Len(packet) + 1
    /\ outcome = "stored" => found
    /\ outcome = "skipped" => ~found
    /\ outcome = "given up" => cancelled

LEMMA PacketFacts ==
    ASSUME ScanTypeOK
    PROVE  /\ packet \in Seq(Measurement)
           /\ Len(packet) \in Nat
           /\ DOMAIN packet = 1 .. Len(packet)
           /\ next \in Nat /\ 1 <= next /\ next <= Len(packet) + 1
           /\ \A i \in 1 .. Len(packet) :
                 packet[i].value \in Int /\ packet[i].ts \in Int
<1>1. packet \in Seq(Measurement)
  BY PacketsAssumption DEF ScanTypeOK
<1>2. Len(packet) \in Nat /\ DOMAIN packet = 1 .. Len(packet)
  BY <1>1, LenProperties
<1>3. \A i \in 1 .. Len(packet) : packet[i] \in Measurement
  BY <1>1, ElementOfSeq
<1>4. ASSUME NEW i \in 1 .. Len(packet)
      PROVE  packet[i].value \in Int /\ packet[i].ts \in Int
  BY <1>3 DEF Measurement
<1>5. next \in Nat /\ 1 <= next /\ next <= Len(packet) + 1
  <2>1. next \in 1 .. Len(packet) + 1
    BY DEF ScanTypeOK
  <2>2. Len(packet) \in Nat
    BY <1>2
  <2>3. QED
    BY <2>1, <2>2
<1>6. QED
  BY <1>1, <1>2, <1>4, <1>5

LEMMA LookKeepsBest ==
    ASSUME ScanInv, Look
    PROVE  BestOfPrefix(best', packet, next)
<1>1. /\ Len(packet) \in Nat
      /\ next \in Nat /\ 1 <= next /\ next <= Len(packet)
      /\ \A i \in 1 .. Len(packet) : packet[i].value \in Int /\ packet[i].ts \in Int
  BY PacketFacts DEF ScanInv, Look
<1>2. CASE ~found
  <2>1. next = 1 /\ best' = packet[1]
    BY <1>1, <1>2 DEF ScanInv, Look
  <2>2. QED
    BY <1>1, <2>1 DEF BestOfPrefix
<1>3. CASE found
  <2>1. PICK k \in 1 .. next - 1 :
           /\ best = packet[k]
           /\ \A j \in 1 .. next - 1 :
                 /\ packet[j].value <= best.value
                 /\ packet[j].value = best.value => packet[j].ts <= best.ts
                 /\ packet[j].value = best.value /\ packet[j].ts = best.ts => k <= j
    BY <1>3 DEF ScanInv, BestOfPrefix
  <2>2. best.value \in Int /\ best.ts \in Int
    BY <1>1, <2>1
  <2>3. CASE Beats(packet[next], best)
    <3>1. best' = packet[next]
      BY <2>3 DEF Look
    <3>2. \A j \in 1 .. next - 1 :
             /\ packet[j].value <= packet[next].value
             /\ packet[j].value = packet[next].value => packet[j].ts < packet[next].ts
      BY <1>1, <2>1, <2>2, <2>3 DEF Beats
    <3>3. \A j \in 1 .. next : j = next \/ j \in 1 .. next - 1
      BY <1>1
    <3>4. QED
      BY <1>1, <3>1, <3>2, <3>3 DEF BestOfPrefix
  <2>4. CASE ~Beats(packet[next], best)
    <3>1. best' = best
      BY <1>3, <2>4 DEF Look
    <3>2. /\ packet[next].value <= best.value
          /\ packet[next].value = best.value => packet[next].ts <= best.ts
      BY <1>1, <2>2, <2>4 DEF Beats
    <3>3. \A j \in 1 .. next : j = next \/ j \in 1 .. next - 1
      BY <1>1
    <3>4. k \in 1 .. next /\ k <= next
      BY <1>1
    <3>5. QED
      BY <1>1, <2>1, <3>1, <3>2, <3>3, <3>4 DEF BestOfPrefix
  <2>5. QED
    BY <2>3, <2>4
<1>4. QED
  BY <1>2, <1>3

LEMMA ScanInvNext == ScanInv /\ [ScanNext]_scanVars => ScanInv'
<1> SUFFICES ASSUME ScanInv, [ScanNext]_scanVars
             PROVE  ScanInv'
  OBVIOUS
<1>0. /\ Len(packet) \in Nat
      /\ next \in Nat /\ 1 <= next /\ next <= Len(packet) + 1
      /\ packet \in Seq(Measurement)
  BY PacketFacts DEF ScanInv
<1>1. CASE CancelScan
  BY <1>1 DEF CancelScan, ScanInv, ScanTypeOK, BestOfPrefix
<1>2. CASE Look
  <2>1. BestOfPrefix(best', packet, next)
    BY <1>2, LookKeepsBest
  <2>2. /\ packet' = packet /\ cancelled' = cancelled /\ outcome' = outcome
        /\ outcome = "scanning" /\ found' = TRUE /\ next' = next + 1
        /\ next <= Len(packet)
    BY <1>2 DEF Look
  <2>3. best' \in Measurement \cup {NoMeasurement}
    <3>1. packet[next] \in Measurement
      BY <1>0, <2>2, ElementOfSeq
    <3>2. QED
      BY <1>2, <3>1 DEF Look, ScanInv, ScanTypeOK
  <2>4. ScanTypeOK'
    BY <1>0, <2>2, <2>3 DEF ScanInv, ScanTypeOK
  <2>5. next' > 1 /\ next' - 1 = next
    BY <1>0, <2>2
  <2>6. BestOfPrefix(best', packet', next' - 1)
    BY <2>1, <2>2, <2>5
  <2>7. QED
    BY <2>2, <2>4, <2>5, <2>6 DEF ScanInv
<1>3. CASE GiveUp
  BY <1>3 DEF GiveUp, ScanInv, ScanTypeOK, BestOfPrefix
<1>4. CASE ScanEnd
  <2>1. next = Len(packet) + 1
    BY <1>0, <1>4 DEF ScanEnd
  <2>2. QED
    BY <1>4, <2>1 DEF ScanEnd, ScanInv, ScanTypeOK, BestOfPrefix
<1>5. CASE UNCHANGED scanVars
  BY <1>5 DEF scanVars, ScanInv, ScanTypeOK, BestOfPrefix
<1>6. QED
  BY <1>1, <1>2, <1>3, <1>4, <1>5 DEF ScanNext, ScanStep, ScanDone

LEMMA ScanInvInit == ScanInit => ScanInv
<1> SUFFICES ASSUME ScanInit
             PROVE  ScanInv
  OBVIOUS
<1>1. packet \in Seq(Measurement) /\ Len(packet) \in Nat
  BY PacketsAssumption, LenProperties DEF ScanInit
<1>2. next \in 1 .. Len(packet) + 1
  BY <1>1 DEF ScanInit
<1>3. ScanTypeOK
  BY <1>2 DEF ScanInit, ScanTypeOK
<1>4. QED
  BY <1>3 DEF ScanInit, ScanInv

(* Every variable keeps its type; the index never runs past the packet by  *)
(* more than one.                                                          *)
THEOREM ScanTypeCorrect == ScanSpec => []ScanTypeOK
BY ScanInvInit, ScanInvNext, PTL DEF ScanSpec, ScanInv

(* For every packet and every moment of cancellation: what a worker stores  *)
(* is the maximum of the whole packet, and it passes over only the empty    *)
(* packet and, once the context is cancelled, an unfinished one.            *)
THEOREM ScanCorrect == ScanSpec => []StoresTheMaximum
<1>1. ScanInv => StoresTheMaximum
  <2> SUFFICES ASSUME ScanInv
               PROVE  StoresTheMaximum
    OBVIOUS
  <2>1. /\ packet \in Seq(Measurement)
        /\ Len(packet) \in Nat /\ DOMAIN packet = 1 .. Len(packet)
    BY PacketFacts DEF ScanInv
  <2>2. ASSUME outcome = "stored"
        PROVE  IsMaximum(best, packet)
    <3>1. next - 1 = Len(packet)
      BY <2>1, <2>2 DEF ScanInv
    <3>2. BestOfPrefix(best, packet, Len(packet))
      BY <2>2, <3>1 DEF ScanInv
    <3>3. QED
      BY <2>1, <3>2 DEF BestOfPrefix, IsMaximum
  <2>3. ASSUME outcome = "skipped"
        PROVE  packet = <<>>
    <3>1. Len(packet) = 0
      BY <2>1, <2>3 DEF ScanInv
    <3>2. QED
      BY <2>1, <3>1, EmptySeq
  <2>4. QED
    BY <2>2, <2>3 DEF ScanInv, StoresTheMaximum
<1>2. QED
  BY ScanInvInit, ScanInvNext, <1>1, PTL DEF ScanSpec
=============================================================================
