---------------------------- MODULE SwarmQueue ----------------------------
(***************************************************************************)
(* The sighting queue of SwarmNode (esp32_marauder/SwarmNode.cpp): the     *)
(* ring that holds wardrive sightings until the phone acknowledges them,   *)
(* the upload cursor, the ack/hello commands, the resend timer and the     *)
(* sequence numbers reserved in NVS.                                       *)
(*                                                                         *)
(* Three parties act.  The MAIN task runs loop(): it reports access        *)
(* points (reportAP) and runs SwarmNode::main, whose steps are separate    *)
(* here (pc), because the BLE HOST task acts between any two of them:      *)
(* onServerEvent, onCommandWrite and, in NimBLE 1.x builds, reportBT.      *)
(* The PHONE is external; it is modelled from what the node sends it and   *)
(* expects of it.                                                          *)
(***************************************************************************)
EXTENDS Naturals, Sequences, FiniteSets

CONSTANTS
  CAP,       \* SWARM_QUEUE_CAP (128)
  RESERVE,   \* SWARM_SEQ_RESERVE (256)
  PUMP,      \* SWARM_PUMP_PER_TICK (4)
  NIMBLE2,   \* the build has HAS_NIMBLE_2: notify() failures are seen
  InCap,     \* command lines _inBuf holds (512 characters)
  AirCap,    \* notifications the BLE stack buffers
  MaxSeq,    \* bound: the highest sequence number handed out
  MaxBoots,  \* bound: power cycles
  MaxLinks   \* bound: connections the phone makes

ASSUME CapAssumption     == CAP \in Nat \ {0}
ASSUME ReserveAssumption == RESERVE \in Nat \ {0, 1} /\ RESERVE % CAP = 0
ASSUME PumpAssumption    == PUMP \in Nat \ {0}
ASSUME NimbleAssumption  == NIMBLE2 \in BOOLEAN
ASSUME BufferAssumption  == InCap \in Nat \ {0} /\ AirCap \in Nat \ {0}
ASSUME BoundAssumption   == MaxSeq \in Nat /\ MaxBoots \in Nat /\ MaxLinks \in Nat

VARIABLES
  queue,         \* _queue: the sequence number in each slot, 0 in a blank one
  qHead, qCount, \* the slots in use
  queueBaseSeq,  \* "seq of _queue[_qHead]"
  seqNext,       \* the next sequence number
  ackedBefore,   \* "phone has everything before this seq"
  lastAckSeq,
  sendCursor,    \* "oldest seq not yet (re)sent this link"
  lost,          \* sightings overwritten while the queue was full
  runMask,       \* 0 = the phone has no run active
  clockSet,      \* TIME:SYNC was received
  stallExpired,  \* now - _ackStallSince > SWARM_ACK_STALL_MS
  beatDue,       \* now - _lastBeatMs >= SWARM_BEAT_MS
  connected, proven,
  inBuf,         \* _inBuf, as complete command lines
  pc, sent,      \* where SwarmNode::main is; pumpUpload's counter
  nvs,           \* the "swarm" NVS namespace
  air,           \* notifications accepted by the stack, not yet at the phone
  floor, got,    \* the phone: everything before floor is settled; seqs it has
  boots, links,  \* bounds
  bootSeq,       \* history: seqNext after the last boot
  usedBefore,    \* history: highest seq handed out in earlier boots
  dropped        \* history: seqs overwritten while the queue was full

ring   == <<queue, qHead, qCount, queueBaseSeq, lost, dropped>>
upload == <<ackedBefore, lastAckSeq, sendCursor, stallExpired>>
link   == <<connected, proven, links>>
phone  == <<floor, got>>
epoch  == <<boots, bootSeq, usedBefore>>
vars   == <<ring, upload, link, phone, epoch, seqNext, runMask, clockSet,
            beatDue, inBuf, pc, sent, nvs, air>>

Seqs     == 0 .. MaxSeq + 1
Commands == [cmd : {"hello", "sync", "slot"}, n : {0}]
              \cup [cmd : {"ack"}, n : Seqs] \cup [cmd : {"run"}, n : {0, 1}]
Lines    == [kind : {"data", "beat"}, seq : Seqs]

\* The sequence numbers the queue holds: the last qCount that were handed out.
Queued == (seqNext - qCount) .. (seqNext - 1)

\* The ring has no blank history before the first boot of the device: NVS held
\* nothing, so counting started at 1.
FirstBoot == bootSeq = 1

---------------------------------------------------------------------------
(* Boot *)

\* loadPersist: without the namespace the member initialisers stand; with it
\* every position but _queueBaseSeq and _lastAckSeq starts at the reservation.
LoadSeq(p) == IF p.space = "absent" THEN 1
              ELSE IF p.seqrsv < RESERVE THEN RESERVE ELSE p.seqrsv

Init ==
  /\ queue = [i \in 0 .. CAP - 1 |-> 0] /\ qHead = 0 /\ qCount = 0
  /\ queueBaseSeq = 1 /\ lost = 0 /\ dropped = {}
  /\ seqNext = 1 /\ ackedBefore = 1 /\ lastAckSeq = 1 /\ sendCursor = 1
  /\ runMask = 0 /\ clockSet = FALSE /\ stallExpired = FALSE /\ beatDue = FALSE
  /\ connected = FALSE /\ proven = FALSE /\ inBuf = <<>>
  /\ pc = "idle" /\ sent = 0
  /\ nvs = [space |-> "absent", mask |-> 0, seqrsv |-> 0]
  /\ air = <<>> /\ floor = 1 /\ got = {}
  /\ boots = 1 /\ links = 0 /\ bootSeq = 1 /\ usedBefore = 0

\* Power is cut at any moment: RAM and the radio are gone, NVS and the phone stay.
Reboot ==
  /\ boots < MaxBoots
  /\ LoadSeq(nvs) <= MaxSeq
  /\ boots' = boots + 1
  /\ usedBefore' = IF seqNext > bootSeq /\ seqNext - 1 > usedBefore
                   THEN seqNext - 1 ELSE usedBefore
  /\ seqNext' = LoadSeq(nvs) /\ bootSeq' = LoadSeq(nvs)
  /\ ackedBefore' = LoadSeq(nvs) /\ sendCursor' = LoadSeq(nvs)
  /\ queueBaseSeq' = 1 /\ lastAckSeq' = 1
  /\ runMask' = IF nvs.space = "absent" THEN 0 ELSE nvs.mask
  /\ queue' = [i \in 0 .. CAP - 1 |-> 0] /\ qHead' = 0 /\ qCount' = 0
  /\ lost' = 0 /\ dropped' = {}
  /\ clockSet' = FALSE /\ stallExpired' = FALSE /\ beatDue' = FALSE
  /\ connected' = FALSE /\ proven' = FALSE /\ inBuf' = <<>> /\ air' = <<>>
  /\ pc' = "idle" /\ sent' = 0
  /\ UNCHANGED <<nvs, phone, links>>

---------------------------------------------------------------------------
(* Capture: reportAP and reportBT, with queueSighting *)

Slot(i) == i % CAP

\* Faulty variant: the block after the reserved one is not reserved in time.
ReserveSeqOnce(next) ==
  nvs' = IF next = RESERVE
         THEN [nvs EXCEPT !.space = "present", !.seqrsv = next + RESERVE]
         ELSE nvs

\* reserveSeq, when the number after the new one is a multiple of the block.
ReserveSeq(next) ==
  nvs' = IF next % RESERVE = 0
         THEN [nvs EXCEPT !.space = "present", !.seqrsv = next + RESERVE]
         ELSE nvs

\* Faulty variant: one too many.
FullLate == qCount > CAP
Full     == qCount >= CAP

\* Faulty variant: the slot is computed from the head before the drop.
TailSlotOldHead(head, size) == Slot(qHead + size)
TailSlot(head, size)        == Slot(head + size)

\* queueSighting: a full queue gives up its oldest sighting and counts it.
QueueSighting(s) ==
  LET head == IF Full THEN Slot(qHead + 1) ELSE qHead
      size == IF Full THEN qCount - 1 ELSE qCount
  IN  /\ qHead' = head
      /\ qCount' = size + 1
      /\ queueBaseSeq' = IF Full THEN queueBaseSeq + 1 ELSE queueBaseSeq
      /\ lost' = IF Full THEN lost + 1 ELSE lost
      /\ dropped' = IF Full THEN dropped \cup {seqNext - qCount} ELSE dropped
      /\ queue' = [queue EXCEPT ![TailSlot(head, size)] = s]

\* A device outside its dedup window; within it, dedupHit changes nothing here.
Report ==
  /\ runMask # 0
  /\ seqNext <= MaxSeq
  /\ seqNext' = seqNext + 1
  /\ QueueSighting(seqNext)
  /\ ReserveSeq(seqNext + 1)
  /\ UNCHANGED <<upload, link, phone, epoch, runMask, clockSet, beatDue, inBuf,
                 pc, sent, air>>

ReportAP == pc = "idle" /\ Report      \* main task, from executeWarDrive
ReportBT == ~NIMBLE2 /\ Report         \* host task: only 1.x builds call it

---------------------------------------------------------------------------
(* The link, and the host task's callbacks *)

\* sendLine: TRUE (in NimBLE 1.x whether or not the stack took the line) once
\* a phone is connected and proven.  `p` is the value of _proven at the call.
Delivers(p) == connected /\ p /\ Len(air) < AirCap
Sends(p)    == connected /\ p /\ (NIMBLE2 => Len(air) < AirCap)
Notify(p, kind, s) ==
  air' = IF Delivers(p) THEN Append(air, [kind |-> kind, seq |-> s]) ELSE air

\* Faulty variant: t= always names the next sighting.
HeartbeatNext(p) == Notify(p, "beat", seqNext)

\* DATA:BEAT: t= is the oldest seq still held, or the next one.
Heartbeat(p) ==
  Notify(p, "beat", IF qCount > 0 THEN queueBaseSeq ELSE seqNext)

Connect ==
  /\ ~connected /\ links < MaxLinks
  /\ connected' = TRUE /\ proven' = FALSE /\ links' = links + 1
  /\ UNCHANGED <<ring, upload, phone, epoch, seqNext, runMask, clockSet, beatDue,
                 inBuf, pc, sent, nvs, air>>

\* The link goes: what the stack still held is lost.  The commands it brought
\* stay in _inBuf.  The last link of the bound stays up.
Disconnect ==
  /\ connected /\ links < MaxLinks
  /\ connected' = FALSE /\ proven' = FALSE /\ air' = <<>>
  /\ UNCHANGED <<ring, upload, phone, epoch, links, seqNext, runMask, clockSet,
                 beatDue, inBuf, pc, sent, nvs>>

\* onCommandWrite keeps the newest 512 characters: the oldest line gives way.
Write(c) ==
  /\ connected
  /\ inBuf' = IF Len(inBuf) < InCap THEN Append(inBuf, c) ELSE Append(Tail(inBuf), c)
  /\ UNCHANGED <<ring, upload, link, phone, epoch, seqNext, runMask, clockSet,
                 beatDue, pc, sent, nvs, air>>

Pending(c) == \E i \in DOMAIN inBuf : inBuf[i] = c

---------------------------------------------------------------------------
(* The phone (external).  It says hello on a link it does not know proven,  *)
(* sets the clock, acknowledges what it has, and sends a run or slot        *)
(* command once the reply to the last one is through.                       *)

Hello == [cmd |-> "hello", n |-> 0]
Sync  == [cmd |-> "sync", n |-> 0]
Ack   == [cmd |-> "ack", n |-> floor]

PhoneHello == ~proven /\ ~Pending(Hello) /\ Write(Hello)
PhoneSync  == ~clockSet /\ ~Pending(Sync) /\ Write(Sync)
PhoneAck   == proven /\ floor > ackedBefore /\ ~Pending(Ack) /\ Write(Ack)
Quiet      == pc = "idle" /\ inBuf = <<>> /\ air = <<>>  \* nothing is under way
PhoneRun   == /\ Quiet /\ proven
              /\ \E m \in {0, 1} : m # runMask /\ Write([cmd |-> "run", n |-> m])
PhoneSlot  == Quiet /\ proven /\ Write([cmd |-> "slot", n |-> 0])

\* A line arrives.  Data joins what the phone has; a heartbeat tells it that
\* everything before t is no longer held.  Then floor passes all it has.
Deliver ==
  /\ air # <<>>
  /\ air' = Tail(air)
  /\ LET m == Head(air)
         low == IF m.kind = "beat" /\ m.seq > floor THEN m.seq ELSE floor
     IN  /\ got' = IF m.kind = "data" THEN got \cup {m.seq} ELSE got
         /\ \E n \in low .. MaxSeq + 1 :
              /\ low .. n - 1 \subseteq got'
              /\ n \notin got'
              /\ floor' = n
  /\ UNCHANGED <<ring, upload, link, epoch, seqNext, runMask, clockSet, beatDue,
                 inBuf, pc, sent, nvs>>

---------------------------------------------------------------------------
(* SwarmNode::main: the inbound lines *)

TickLines ==
  /\ pc = "idle" /\ pc' = "lines"
  /\ UNCHANGED <<ring, upload, link, phone, epoch, seqNext, runMask, clockSet,
                 beatDue, inBuf, sent, nvs, air>>

Line(c) ==
  /\ pc = "lines" /\ inBuf # <<>> /\ Head(inBuf).cmd = c
  /\ inBuf' = Tail(inBuf)
  /\ UNCHANGED <<phone, epoch, pc, sent, connected, links, beatDue>>

HandleSync ==
  /\ Line("sync")
  /\ clockSet' = TRUE
  /\ UNCHANGED <<ring, upload, proven, seqNext, runMask, nvs, air>>

\* Faulty variant: a new link goes on where the last one stopped.
HandleHelloNoRewind ==
  /\ Line("hello")
  /\ proven' = TRUE
  /\ Heartbeat(TRUE)
  /\ UNCHANGED <<ring, upload, seqNext, runMask, clockSet, nvs>>

\* Every hello succeeds; the upload starts over at the oldest unacked seq.
HandleHello ==
  /\ Line("hello")
  /\ proven' = TRUE
  /\ sendCursor' = ackedBefore
  /\ Heartbeat(TRUE)
  /\ UNCHANGED <<ring, ackedBefore, lastAckSeq, stallExpired, seqNext, runMask,
                 clockSet, nvs>>

\* Before the hello an ack is ignored and any other command is refused; the
\* refusal is never sent, because sendLine needs the hello too.
HandleRefused ==
  /\ ~proven
  /\ \E c \in {"ack", "run", "slot"} : Line(c)
  /\ UNCHANGED <<ring, upload, proven, seqNext, runMask, clockSet, nvs, air>>

\* Faulty variants of the loop: base <= n; no comparison with n.
FreedInclusive(n) == IF n < queueBaseSeq THEN 0
                     ELSE IF n - queueBaseSeq < qCount THEN n - queueBaseSeq + 1
                     ELSE qCount
FreedAll(n) == IF n <= queueBaseSeq THEN 0 ELSE qCount

\* How many sightings the ack's loop pops: while (_qCount > 0 && base < n).
Freed(n) == IF n <= queueBaseSeq THEN 0
            ELSE IF n - queueBaseSeq < qCount THEN n - queueBaseSeq ELSE qCount

\* Faulty variant: the cursor is left behind the ack.
HandleAckOldCursor ==
  /\ proven /\ Line("ack")
  /\ LET n == Head(inBuf).n IN
       IF n > ackedBefore
       THEN /\ qHead' = Slot(qHead + Freed(n))
            /\ qCount' = qCount - Freed(n)
            /\ queueBaseSeq' = queueBaseSeq + Freed(n)
            /\ ackedBefore' = n /\ lastAckSeq' = n
       ELSE UNCHANGED <<qHead, qCount, queueBaseSeq, ackedBefore, lastAckSeq>>
  /\ UNCHANGED <<queue, lost, dropped, sendCursor, stallExpired, proven, seqNext,
                 runMask, clockSet, nvs, air>>

HandleAck ==
  /\ proven /\ Line("ack")
  /\ LET n == Head(inBuf).n IN
       IF n > ackedBefore
       THEN /\ qHead' = Slot(qHead + Freed(n))
            /\ qCount' = qCount - Freed(n)
            /\ queueBaseSeq' = queueBaseSeq + Freed(n)
            /\ ackedBefore' = n /\ lastAckSeq' = n
            /\ sendCursor' = IF sendCursor < n THEN n ELSE sendCursor
       ELSE UNCHANGED <<qHead, qCount, queueBaseSeq, ackedBefore, lastAckSeq, sendCursor>>
  /\ UNCHANGED <<queue, lost, dropped, stallExpired, proven, seqNext, runMask,
                 clockSet, nvs, air>>

\* run: the mask is stored before the heartbeat that follows the reply.
HandleRun ==
  /\ proven /\ Line("run")
  /\ runMask' = Head(inBuf).n
  /\ nvs' = [nvs EXCEPT !.space = "present", !.mask = Head(inBuf).n]
  /\ Heartbeat(TRUE)
  /\ UNCHANGED <<ring, upload, proven, seqNext, clockSet>>

\* slot (and plan, which differs in the key it stores).
HandleSlot ==
  /\ proven /\ Line("slot")
  /\ nvs' = [nvs EXCEPT !.space = "present"]
  /\ Heartbeat(TRUE)
  /\ UNCHANGED <<ring, upload, proven, seqNext, runMask, clockSet>>

---------------------------------------------------------------------------
(* SwarmNode::main: heartbeat and upload pump *)

\* Faulty variant: no heartbeat while there is a backlog.
TickBeatWhenEmpty ==
  /\ pc = "lines" /\ inBuf = <<>> /\ pc' = "pump"
  /\ IF connected /\ proven /\ beatDue /\ qCount = 0
     THEN beatDue' = FALSE /\ Heartbeat(TRUE)
     ELSE UNCHANGED <<beatDue, air>>
  /\ UNCHANGED <<ring, upload, link, phone, epoch, seqNext, runMask, clockSet,
                 inBuf, sent, nvs>>

TickBeat ==
  /\ pc = "lines" /\ inBuf = <<>> /\ pc' = "pump"
  /\ IF connected /\ proven /\ beatDue
     THEN beatDue' = FALSE /\ Heartbeat(TRUE)
     ELSE UNCHANGED <<beatDue, air>>
  /\ UNCHANGED <<ring, upload, link, phone, epoch, seqNext, runMask, clockSet,
                 inBuf, sent, nvs>>

Max2(a, b) == IF a > b THEN a ELSE b

\* pumpUpload up to its loop: nothing to do, or the cursor catches up with the
\* acks and the queue; after ten silent seconds it goes back to the oldest.
PumpSkip ==
  /\ pc = "pump" /\ ~(connected /\ proven /\ qCount > 0)
  /\ pc' = "idle"
  /\ UNCHANGED <<ring, upload, link, phone, epoch, seqNext, runMask, clockSet,
                 beatDue, inBuf, sent, nvs, air>>

PumpEnter ==
  /\ pc = "pump" /\ connected /\ proven /\ qCount > 0
  /\ LET oldest  == Max2(ackedBefore, queueBaseSeq)
         stalled == ackedBefore = lastAckSeq /\ stallExpired
     IN  /\ sendCursor' = IF stalled THEN oldest ELSE Max2(sendCursor, oldest)
         /\ stallExpired' = IF stalled THEN FALSE ELSE stallExpired
  /\ pc' = "sending" /\ sent' = 0
  /\ UNCHANGED <<ring, ackedBefore, lastAckSeq, link, phone, epoch, seqNext,
                 runMask, clockSet, beatDue, inBuf, nvs, air>>

\* One round of the loop.  A sighting reported by the host task since
\* PumpEnter may have pushed the oldest out: the cursor follows.
PumpMore == sent < PUMP /\ sendCursor < seqNext
PumpCursor == Max2(sendCursor, queueBaseSeq)
PumpSlot == Slot(qHead + (PumpCursor - queueBaseSeq))

PumpSend ==
  /\ pc = "sending" /\ PumpMore /\ PumpCursor < seqNext
  /\ clockSet /\ Sends(proven)
  /\ Notify(proven, "data", queue[PumpSlot])
  /\ sendCursor' = PumpCursor + 1
  /\ sent' = sent + 1
  /\ UNCHANGED <<ring, ackedBefore, lastAckSeq, stallExpired, link, phone, epoch,
                 seqNext, runMask, clockSet, beatDue, inBuf, pc, nvs>>

\* The loop ends: enough sent, nothing left, no clock, or the line was refused.
PumpEnd ==
  /\ pc = "sending"
  /\ ~(PumpMore /\ PumpCursor < seqNext /\ clockSet /\ Sends(proven))
  /\ sendCursor' = IF PumpMore THEN PumpCursor ELSE sendCursor
  /\ stallExpired' = IF sendCursor' >= seqNext THEN FALSE ELSE stallExpired
  /\ pc' = "idle"
  /\ UNCHANGED <<ring, ackedBefore, lastAckSeq, link, phone, epoch, seqNext,
                 runMask, clockSet, beatDue, inBuf, sent, nvs, air>>

---------------------------------------------------------------------------
(* Time: an interval that is measured has passed. *)

StallTimer ==
  /\ ~stallExpired /\ stallExpired' = TRUE
  /\ UNCHANGED <<ring, ackedBefore, lastAckSeq, sendCursor, link, phone, epoch,
                 seqNext, runMask, clockSet, beatDue, inBuf, pc, sent, nvs, air>>

BeatTimer ==
  /\ ~beatDue /\ beatDue' = TRUE
  /\ UNCHANGED <<ring, upload, link, phone, epoch, seqNext, runMask, clockSet,
                 inBuf, pc, sent, nvs, air>>

---------------------------------------------------------------------------
Handle == HandleSync \/ HandleHello \/ HandleRefused \/ HandleAck \/ HandleRun \/ HandleSlot
Pump   == PumpSkip \/ PumpEnter \/ PumpSend \/ PumpEnd
Tick   == TickLines \/ Handle \/ TickBeat \/ Pump

Phone  == PhoneHello \/ PhoneSync \/ PhoneAck \/ PhoneRun \/ PhoneSlot \/ Deliver
Host   == Connect \/ Disconnect \/ ReportBT
Timers == StallTimer \/ BeatTimer

\* Everything that happens while the power stays on.
Running == Tick \/ ReportAP \/ Phone \/ Host \/ Timers
Next    == Running \/ Reboot

Spec          == Init /\ [][Next]_vars
FirstBootSpec == Init /\ [][Running]_vars

\* loop() runs for ever, the intervals pass, and a phone within range connects,
\* says hello, sets the clock and acks.  The stack delivers, and not in step with
\* loop(): its buffers are not full at every refused send of the pump
\* nor at every heartbeat (3 s apart), for ever.
Fairness ==
  /\ WF_vars(Tick) /\ WF_vars(StallTimer) /\ WF_vars(BeatTimer)
  /\ WF_vars(Connect) /\ WF_vars(PhoneHello) /\ WF_vars(PhoneSync) /\ WF_vars(PhoneAck)
  /\ WF_vars(Deliver) /\ SF_vars(Deliver /\ pc = "sending")
  /\ SF_vars(Deliver /\ pc = "lines" /\ beatDue)

FairFirstBoot == FirstBootSpec /\ Fairness

---------------------------------------------------------------------------
(* Properties *)

\* Every variable has its type; the ring never exceeds its capacity and a
\* command line or a notification never names a number that was not handed out.
RingType   == /\ queue \in [0 .. CAP - 1 -> Seqs]
              /\ qHead \in 0 .. CAP - 1 /\ qCount \in 0 .. CAP
              /\ queueBaseSeq \in Nat \ {0} /\ lost \in Nat /\ dropped \subseteq Nat
UploadType == /\ seqNext \in 1 .. MaxSeq + 1
              /\ ackedBefore \in Seqs /\ lastAckSeq \in Seqs /\ sendCursor \in Nat
              /\ sent \in Nat /\ links \in Nat
              /\ pc \in {"idle", "lines", "pump", "sending"}
FlagType   == /\ connected \in BOOLEAN /\ proven \in BOOLEAN
              /\ clockSet \in BOOLEAN /\ beatDue \in BOOLEAN /\ stallExpired \in BOOLEAN
WireType   == inBuf \in Seq(Commands) /\ air \in Seq(Lines)
NvsType    == /\ nvs \in [space : {"absent", "present"}, mask : {0, 1}, seqrsv : Nat]
              /\ runMask \in {0, 1} /\ boots \in Nat
              /\ bootSeq \in 1 .. MaxSeq + 1 /\ usedBefore \in Nat
PhoneType  == floor \in 1 .. MaxSeq + 1 /\ got \subseteq Seqs

TypeOK == RingType /\ UploadType /\ FlagType /\ WireType /\ NvsType /\ PhoneType

\* On every boot the used slots hold, from the head on, the last qCount sequence
\* numbers handed out, in order: an overflow, an ack and a wrap of the head leave
\* no stale, doubled or misplaced sighting (queueSighting, the ack loop).
RingOrder ==
  \A i \in 0 .. qCount - 1 : queue[Slot(qHead + i)] = seqNext - qCount + i

\* The base lags the head by what the boot skipped, for the whole boot.
BaseLag == queueBaseSeq + qCount + bootSeq - 1 = seqNext

\* The upload cursor never falls behind the acks nor runs past what exists
\* (or what was acknowledged), whatever hellos, stalls and acks interleave.
CursorBounds ==
  ackedBefore <= sendCursor /\ sendCursor <= Max2(seqNext, ackedBefore)

\* On a device's first boot no sighting vanishes: each one captured is still
\* queued, has reached the phone, or was pushed out and counted in _lost.
AllAccounted ==
  FirstBoot => /\ 1 .. seqNext - 1 \subseteq Queued \cup got \cup dropped
               /\ Cardinality(dropped) = lost

\* In a NimBLE 2 build, on a proven link of the first boot, every queued
\* sighting before the cursor is with the phone or on its way: a dropped link, a
\* refused notify and a stale hello never make the pump skip one.
InAir == {air[i].seq : i \in {j \in DOMAIN air : air[j].kind = "data"}}
NoneSkipped ==
  (NIMBLE2 /\ FirstBoot /\ connected /\ proven)
    => \A s \in Queued : s < sendCursor => s \in got \cup InAir

\* "ack/delete" (SwarmNode.cpp:4): a sighting leaves the queue only once the
\* phone acknowledged it, or when a newer one pushed it out of a full queue.
OnlyAckedFreed ==
  [][\A s \in Queued \ Queued' : boots' # boots \/ s < ackedBefore' \/ lost' = lost + 1]_vars

\* Whatever was skipped at boot, an ack frees that many sightings too many at most:
\* those of the old numbers that the base, left behind by loadPersist, stands for.
FreedWithinSkipped ==
  [][\A s \in Queued \ Queued' :
       boots' # boots \/ s < ackedBefore' + (bootSeq - 1) \/ lost' = lost + 1]_vars

\* "seq high-water" (SwarmNode.h:76): a reboot sets the numbers back by less than
\* a reserved block, and the second boot starts past all of the first.
SeqSetBack == /\ usedBefore < bootSeq + RESERVE
              /\ boots <= 2 => usedBefore < bootSeq

\* "sighting queue with ack/delete/resend" (SwarmNode.cpp:3): once captured, a
\* sighting does not stay queued for ever while a phone is there to take it.
EverySightingSettles == \A s \in 1 .. MaxSeq : (s \in Queued) ~> (s \notin Queued)

\* The queue of a first boot keeps the promise of SightingLedger.
Ledger == INSTANCE SightingLedger
            WITH low <- queueBaseSeq, next <- seqNext, has <- got
KeepsLedger == Ledger!LedgerSpec
===========================================================================
