----------------------------- MODULE WorkerScan -----------------------------
(***************************************************************************)
(* One worker and one packet: processPacket and findMaxMeasurement of      *)
(* core/worker_pool.go, one measurement per step, with a context that may  *)
(* be cancelled between any two of them.  What the scan returns goes to    *)
(* the repository as the packet's maximum.                                 *)
(***************************************************************************)
EXTENDS Integers, Sequences

CONSTANTS
    Sources,    \* source identifiers
    Packets     \* the packets: sequences of measurements

(* A value is a finite number and a timestamp an instant; integers stand for *)
(* both, since they are only compared.                                       *)
Measurement == [source : Sources, value : Int, ts : Int]

ASSUME PacketsAssumption == Packets \subseteq Seq(Measurement)

VARIABLES
    packet,     \* the packet's measurements
    next,       \* the index of the next one to look at
    found,      \* one has been looked at
    best,       \* maxMeasurement
    cancelled,  \* the context is done
    outcome     \* "scanning", or what processPacket did with the packet

scanVars == <<packet, next, found, best, cancelled, outcome>>

NoMeasurement == [source |-> "", value |-> 0, ts |-> 0]

ScanInit ==
    /\ packet \in Packets
    /\ next = 1
    /\ found = FALSE
    /\ best = NoMeasurement
    /\ cancelled = FALSE
    /\ outcome = "scanning"

CancelScan ==
    /\ ~cancelled
    /\ cancelled' = TRUE
    /\ UNCHANGED <<packet, next, found, best, outcome>>

(* Mutant: of equal measurements the last one wins. *)
BeatsOrTies(m, b) == m.value > b.value \/ (m.value = b.value /\ m.ts >= b.ts)

(* The measurement m replaces the best one so far, b. *)
Beats(m, b) == m.value > b.value \/ (m.value = b.value /\ m.ts > b.ts)

(* One turn of the loop: the context is checked, then the measurement. *)
Look ==
    /\ outcome = "scanning"
    /\ next <= Len(packet)
    /\ ~cancelled
    /\ best' = IF ~found \/ Beats(packet[next], best) THEN packet[next] ELSE best
    /\ found' = TRUE
    /\ next' = next + 1
    /\ UNCHANGED <<packet, cancelled, outcome>>

GiveUp ==
    /\ outcome = "scanning"
    /\ next <= Len(packet)
    /\ cancelled
    /\ outcome' = "given up"
    /\ UNCHANGED <<packet, next, found, best, cancelled>>

(* After the last measurement the context is not looked at again. *)
ScanEnd ==
    /\ outcome = "scanning"
    /\ next > Len(packet)
    /\ outcome' = IF found THEN "stored" ELSE "skipped"
    /\ UNCHANGED <<packet, next, found, best, cancelled>>

ScanStep == Look \/ GiveUp \/ ScanEnd

ScanDone == outcome /= "scanning" /\ UNCHANGED scanVars

ScanNext == CancelScan \/ ScanStep \/ ScanDone

ScanSpec == ScanInit /\ [][ScanNext]_scanVars

-----------------------------------------------------------------------------
(* Properties *)

(* The maximum of a packet, defined without a scan: no measurement of the    *)
(* packet has a higher value, nor the same value and a later timestamp, and  *)
(* of those it is the first.                                                 *)
IsMaximum(m, p) ==
    \E k \in DOMAIN p :
        /\ m = p[k]
        /\ \A j \in DOMAIN p :
              /\ p[j].value <= m.value
              /\ p[j].value = m.value => p[j].ts <= m.ts
              /\ p[j].value = m.value /\ p[j].ts = m.ts => k <= j

ScanTypeOK ==
    /\ packet \in Packets
    /\ next \in 1 .. Len(packet) + 1
    /\ found \in BOOLEAN
    /\ best \in Measurement \cup {NoMeasurement}
    /\ cancelled \in BOOLEAN
    /\ outcome \in {"scanning", "stored", "given up", "skipped"}

(* A worker stores the maximum of the whole packet or nothing: however the   *)
(* cancellation falls, the best of a part of a packet is never stored, and   *)
(* only an empty packet is passed over without a cancellation.               *)
StoresTheMaximum ==
    /\ outcome = "stored" => IsMaximum(best, packet)
    /\ outcome = "skipped" => packet = <<>>
    /\ outcome = "given up" => cancelled
=============================================================================
