------------------------------ MODULE RtcStore ------------------------------
(***************************************************************************)
(* The store of diagnostics in RTC memory (rtc_store.c): two ring buffers  *)
(* that survive every reset but a power-on.                                *)
(*                                                                         *)
(* A write puts a record behind the filled part chunk by chunk (the index  *)
(* of the boot, a header in the non-critical ring, the data) and commits   *)
(* it with one store of `filled`; a reset may come between any two steps.  *)
(* The lock of a ring is held exactly while its rtcWrite is under way.     *)
(***************************************************************************)
EXTENDS Naturals, Sequences

CONSTANTS
    RtcRings,    \* "critical", "non_critical"
    RtcSize,     \* bytes of each ring
    RtcHeader,   \* bytes of a record's header: 0 in the critical ring
    RtcData,     \* lengths of the data callers log
    RtcMetas,    \* RTC_STORE_MAX_META_RECORDS
    RtcMaxMade   \* bound: records made

ASSUME RtcAssumption ==
    /\ RtcSize \in [RtcRings -> Nat \ {0}]
    /\ RtcHeader \in [RtcRings -> Nat]
    /\ RtcData \subseteq Nat \ {0}
    /\ RtcMetas \in Nat \ {0}
    /\ RtcMaxMade \in Nat

VARIABLES
    rtcRing,    \* per ring: read_offset, filled and buf of s_rtc_store
    rtcWrite,   \* per ring: the record being written and how much of it is
    rtcMeta,    \* meta_hdr_idx
    rtcMade     \* records made so far, which number them

rtcVars == <<rtcRing, rtcWrite, rtcMeta, rtcMade>>

RtcIdle == [rec |-> <<>>, done |-> 0]

\* A byte is named by its record, its place there and the index of its boot.
RtcRecord(id, meta, n) == [i \in 1..n |-> <<id, i, n, meta>>]

RtcRecords(r) ==
    {RtcRecord(id, meta, 1 + RtcHeader[r] + n) :
        id \in 1..RtcMaxMade, meta \in 0..RtcMetas - 1, n \in RtcData}

\* meta_hdr_idx is a uint8_t, so that the -1 of a power-on counts as 255.
RtcFirstMeta == (255 + 1) % RtcMetas

RtcBlank(r) == [off |-> 0, filled |-> 0, buf |-> [p \in 0..RtcSize[r] - 1 |-> <<>>]]

RtcInit ==
    /\ rtcRing = [r \in RtcRings |-> RtcBlank(r)]
    /\ rtcWrite = [r \in RtcRings |-> RtcIdle]
    /\ rtcMeta = RtcFirstMeta
    /\ rtcMade = 0

RtcLocked(r) == rtcWrite[r] # RtcIdle
RtcFree(r) == RtcSize[r] - rtcRing[r].filled

RtcFreeAtEnd(r) ==
    LET end == rtcRing[r].off + rtcRing[r].filled
    IN  IF end < RtcSize[r] THEN RtcSize[r] - end ELSE 0

\* The seam forgotten: every chunk is one copy.
RtcPlace_OneCopy(r, at, len, k) ==
    LET end   == rtcRing[r].off + rtcRing[r].filled
        write == IF end >= RtcSize[r] THEN end - RtcSize[r] ELSE end
    IN  write + at + k

\* Where rtc_store_write_at_offset puts byte k of a chunk of len bytes that
\* starts at offset `at` of the record.
RtcPlace(r, at, len, k) ==
    LET end   == rtcRing[r].off + rtcRing[r].filled
        write == IF end >= RtcSize[r] THEN end - RtcSize[r] ELSE end
        free  == RtcFreeAtEnd(r)
    IN  IF free > 0 /\ free < at THEN at - free + k
        ELSE IF free > 0 /\ free < at + len /\ k >= free - at THEN k - (free - at)
        ELSE write + at + k

\* rtc_store_critical_data_write, rtc_store_non_critical_data_write: a record
\* that does not fit, or finds the non-critical lock taken, is dropped by the
\* caller and changes nothing.
RtcWriteBegin(r, n) ==
    /\ rtcMade < RtcMaxMade
    /\ ~RtcLocked(r)
    /\ RtcFree(r) >= 1 + RtcHeader[r] + n
    /\ rtcMade' = rtcMade + 1
    /\ rtcWrite' = [rtcWrite EXCEPT ![r] =
           [rec |-> RtcRecord(rtcMade + 1, rtcMeta, 1 + RtcHeader[r] + n), done |-> 0]]
    /\ UNCHANGED <<rtcRing, rtcMeta>>

RtcChunkEnd(r) ==
    IF rtcWrite[r].done = 0 THEN 1
    ELSE IF rtcWrite[r].done = 1 /\ RtcHeader[r] > 0 THEN 1 + RtcHeader[r]
    ELSE Len(rtcWrite[r].rec)

RtcCopied(r, at, end) ==
    [p \in 0..RtcSize[r] - 1 |->
        IF \E k \in 0..end - at - 1 : p = RtcPlace(r, at, end - at, k)
        THEN rtcWrite[r].rec[at + 1 +
                 CHOOSE k \in 0..end - at - 1 : p = RtcPlace(r, at, end - at, k)]
        ELSE rtcRing[r].buf[p]]

RtcChunk(r) ==
    LET at == rtcWrite[r].done
        end == RtcChunkEnd(r)
    IN  /\ at < Len(rtcWrite[r].rec)
        /\ rtcRing' = [rtcRing EXCEPT ![r].buf = RtcCopied(r, at, end)]
        /\ rtcWrite' = [rtcWrite EXCEPT ![r].done = end]
        /\ UNCHANGED <<rtcMeta, rtcMade>>

\* rtc_store_write_complete, and the lock is given back.
RtcCommit(r) ==
    /\ RtcLocked(r)
    /\ rtcWrite[r].done = Len(rtcWrite[r].rec)
    /\ rtcRing' = [rtcRing EXCEPT ![r].filled = @ + rtcWrite[r].done]
    /\ rtcWrite' = [rtcWrite EXCEPT ![r] = RtcIdle]
    /\ UNCHANGED <<rtcMeta, rtcMade>>

\* rtc_store_data_read_unsafe: what a read of at most size bytes returns.
RtcRead(r, size) ==
    LET n     == IF rtcRing[r].filled < size THEN rtcRing[r].filled ELSE size
        atEnd == RtcSize[r] - rtcRing[r].off
    IN  [i \in 1..n |-> IF i <= atEnd THEN rtcRing[r].buf[rtcRing[r].off + i - 1]
                        ELSE rtcRing[r].buf[i - 1 - atEnd]]

RtcOffAfter_Unwrapped(r, n) == rtcRing[r].off + n

\* rtc_store_read_complete: an offset equal to the size is left so.
RtcOffAfter(r, n) ==
    LET off == rtcRing[r].off + n
    IN  IF off > RtcSize[r] THEN off - RtcSize[r] ELSE off

\* What rtc_store_data_release makes of a ring, its lock being free.
RtcReleased(r, n) ==
    IF rtcRing[r].filled < n THEN rtcRing
    ELSE [rtcRing EXCEPT ![r].off = RtcOffAfter(r, n), ![r].filled = @ - n]

RtcRelease(r, n) ==
    /\ ~RtcLocked(r)
    /\ rtcRing' = RtcReleased(r, n)
    /\ UNCHANGED <<rtcWrite, rtcMeta, rtcMade>>

\* rtc_store_init after a reset that keeps RTC memory, and after one that does not.
RtcReset ==
    /\ rtcMeta' = (rtcMeta + 1) % RtcMetas
    /\ rtcWrite' = [r \in RtcRings |-> RtcIdle]
    /\ UNCHANGED <<rtcRing, rtcMade>>

RtcPowerOn ==
    /\ rtcMeta' = RtcFirstMeta
    /\ rtcRing' = [r \in RtcRings |-> [rtcRing[r] EXCEPT !.off = 0, !.filled = 0]]
    /\ rtcWrite' = [r \in RtcRings |-> RtcIdle]
    /\ UNCHANGED rtcMade

RtcWriter ==
    \E r \in RtcRings :
        \/ \E n \in RtcData : RtcWriteBegin(r, n)
        \/ RtcChunk(r)
        \/ RtcCommit(r)

RtcNext ==
    \/ RtcWriter
    \/ \E r \in RtcRings : \E n \in 0..RtcSize[r] : RtcRelease(r, n)
    \/ RtcReset
    \/ RtcPowerOn

RtcSpec == RtcInit /\ [][RtcNext]_rtcVars

-----------------------------------------------------------------------------
RtcContent == [r \in RtcRings |-> RtcRead(r, rtcRing[r].filled)]

RtcFifo == INSTANCE RtcFifo WITH Rings <- RtcRings, Records <- RtcRecords,
                                 queue <- RtcContent

\* The rings are the queues they promise to be, whatever the reset interrupts:
\* what a read returns is whole records in order, never a torn one
\* (rtc_store.c:152-218, 334-352).
RtcFifoSpec == RtcFifo!Spec

RtcTypeOK ==
    /\ \A r \in RtcRings :
        /\ rtcRing[r].off \in 0..RtcSize[r]
        /\ rtcRing[r].filled \in 0..RtcSize[r]
        /\ rtcWrite[r].done <= Len(rtcWrite[r].rec)
        /\ rtcRing[r].filled + Len(rtcWrite[r].rec) <= RtcSize[r]
    /\ rtcMeta \in 0..RtcMetas - 1
    /\ rtcMade \in 0..RtcMaxMade
=============================================================================
