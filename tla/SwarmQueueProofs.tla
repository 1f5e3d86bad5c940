-------------------------- MODULE SwarmQueueProofs --------------------------
(***************************************************************************)
(* The sighting queue for every capacity, buffer size and bound.           *)
(*                                                                         *)
(* Core (types, and the lag between base and head) is inductive alone; the *)
(* cursor bounds and the ring's order are inductive beside it.  Account    *)
(* adds why nothing vanishes: an ack can free only what the phone counts   *)
(* as settled, so every ack in _inBuf and every heartbeat in flight must   *)
(* name settled numbers.  FirstInv joins them for the promises that hold   *)
(* until the first reboot, among them the refinement of SightingLedger.    *)
(***************************************************************************)
EXTENDS SwarmQueue, FiniteSetTheorems, TLAPS

\* A slot number is one of the ring's.
LEMMA SlotType == \A i \in Nat : Slot(i) \in 0 .. CAP - 1
BY CapAssumption DEF Slot

\* On two laps of the ring a slot number wraps once: no division is needed.
LEMMA SlotWrap ==
  \A i \in 0 .. 2 * CAP - 1 : Slot(i) = IF i < CAP THEN i ELSE i - CAP
BY CapAssumption DEF Slot

\* Types, and how far _queueBaseSeq lags behind the head of the queue.
Core == TypeOK /\ BaseLag

\* The device as it is taken from the box.
LEMMA CoreInit == Init => Core
<1> SUFFICES ASSUME Init PROVE Core
  OBVIOUS
<1> USE CapAssumption, BoundAssumption DEF Init
<1>1. RingType
  BY DEF RingType, Seqs
<1>2. UploadType
  BY DEF UploadType, Seqs
<1>3. FlagType
  BY DEF FlagType
<1>6. NvsType
  BY DEF NvsType
<1>4. WireType
  BY DEF WireType
<1>5. PhoneType /\ BaseLag
  BY DEF PhoneType, BaseLag
<1> QED BY <1>1, <1>2, <1>3, <1>4, <1>5, <1>6 DEF Core, TypeOK

\* queueSighting on a queue with room: the sighting goes behind the last one.
LEMMA ReportRoom ==
  ASSUME Core, Report, ~Full
  PROVE  /\ qHead' = qHead /\ qCount' = qCount + 1 /\ queueBaseSeq' = queueBaseSeq
         /\ lost' = lost /\ dropped' = dropped
         /\ queue' = [queue EXCEPT ![Slot(qHead + qCount)] = seqNext]
         /\ qCount < CAP /\ Slot(qHead + qCount) \in 0 .. CAP - 1
<1>1. qHead + qCount \in Nat /\ qCount < CAP
  BY CapAssumption DEF Core, TypeOK, RingType, Full
<1>2. Slot(qHead + qCount) \in 0 .. CAP - 1
  BY <1>1, SlotType
<1> QED BY <1>1, <1>2 DEF Report, QueueSighting, TailSlot

\* queueSighting on a full queue: the oldest sighting's slot is taken.
LEMMA ReportFull ==
  ASSUME Core, Report, Full
  PROVE  /\ qHead' = Slot(qHead + 1) /\ qCount' = CAP /\ queueBaseSeq' = queueBaseSeq + 1
         /\ lost' = lost + 1 /\ dropped' = dropped \cup {seqNext - CAP}
         /\ queue' = [queue EXCEPT ![Slot(Slot(qHead + 1) + (CAP - 1))] = seqNext]
         /\ qCount = CAP /\ Slot(qHead + 1) \in 0 .. CAP - 1
         /\ Slot(Slot(qHead + 1) + (CAP - 1)) \in 0 .. CAP - 1
<1>1. qCount = CAP /\ qHead + 1 \in Nat
  BY CapAssumption DEF Core, TypeOK, RingType, Full
<1>2. Slot(qHead + 1) \in 0 .. CAP - 1
  BY <1>1, SlotType
<1>3. Slot(qHead + 1) + (CAP - 1) \in Nat
  BY <1>2, CapAssumption
<1>4. Slot(Slot(qHead + 1) + (CAP - 1)) \in 0 .. CAP - 1
  BY <1>3, SlotType
<1>5. CAP - 1 + 1 = CAP
  BY CapAssumption
<1> QED BY <1>1, <1>2, <1>4, <1>5 DEF Report, QueueSighting, TailSlot

\* reportAP and reportBT.
LEMMA CoreReport == Core /\ Report => Core'
<1> SUFFICES ASSUME Core, Report PROVE Core'
  OBVIOUS
<1> USE DEF Core, TypeOK
<1>1. seqNext \in 1 .. MaxSeq /\ seqNext' = seqNext + 1 /\ bootSeq' = bootSeq /\ seqNext \in Seqs
  BY BoundAssumption DEF Report, UploadType, epoch, Seqs
<1>2. RingType' /\ BaseLag'
  <2>1. CASE Full
    <3>1. queue' \in [0 .. CAP - 1 -> Seqs]
      BY <1>1, <2>1, ReportFull DEF RingType
    <3>2. seqNext - CAP \in Nat
      BY <1>1, <2>1, ReportFull, CapAssumption DEF RingType, BaseLag, NvsType
    <3>3. dropped' \subseteq Nat
      BY <2>1, <3>2, ReportFull DEF RingType
    <3>4. BaseLag'
      <4>1. queueBaseSeq \in Nat /\ bootSeq \in Nat /\ CAP \in Nat /\ seqNext \in Nat
        BY <1>1, CapAssumption, BoundAssumption DEF RingType, NvsType
      <4>2. queueBaseSeq' = queueBaseSeq + 1 /\ qCount' = CAP /\ qCount = CAP
        BY <2>1, ReportFull
      <4> QED BY <1>1, <4>1, <4>2 DEF BaseLag
    <3> QED BY <2>1, <3>1, <3>3, <3>4, ReportFull, CapAssumption DEF RingType
  <2>2. CASE ~Full
    <3>1. queue' \in [0 .. CAP - 1 -> Seqs]
      BY <1>1, <2>2, ReportRoom DEF RingType
    <3>2. BaseLag'
      BY <1>1, <2>2, ReportRoom, BoundAssumption DEF RingType, BaseLag, NvsType
    <3>3. qCount' \in 0 .. CAP
      BY <2>2, ReportRoom, CapAssumption DEF RingType
    <3> QED BY <2>2, <3>1, <3>2, <3>3, ReportRoom DEF RingType
  <2> QED BY <2>1, <2>2
<1>3. UploadType' /\ FlagType' /\ WireType' /\ PhoneType'
  BY <1>1, BoundAssumption DEF Report, UploadType, FlagType, WireType, PhoneType, upload, link, phone
<1>4. NvsType'
  <2>1. (seqNext + 1) + RESERVE \in Nat
    BY <1>1, ReserveAssumption
  <2>2. nvs' = nvs \/ nvs' = [nvs EXCEPT !.space = "present", !.seqrsv = (seqNext + 1) + RESERVE]
    BY DEF Report, ReserveSeq
  <2> QED BY <2>1, <2>2 DEF Report, NvsType, epoch
<1> QED BY <1>2, <1>3, <1>4

\* A line the stack takes is one the protocol knows.
LEMMA NotifyType ==
  ASSUME WireType, NEW p, NEW k \in {"data", "beat"}, NEW s \in Seqs, Notify(p, k, s)
  PROVE  air' \in Seq(Lines)
<1>1. [kind |-> k, seq |-> s] \in Lines
  BY DEF Lines
<1> QED BY <1>1 DEF WireType, Notify

\* A heartbeat names a number there is.
LEMMA HeartbeatType ==
  ASSUME Core, NEW p, Heartbeat(p)
  PROVE  air' \in Seq(Lines)
<1>1. queueBaseSeq \in Seqs /\ seqNext \in Seqs
  BY BoundAssumption DEF Core, TypeOK, RingType, UploadType, NvsType, BaseLag, Seqs
<1>2. (IF qCount > 0 THEN queueBaseSeq ELSE seqNext) \in Seqs
  BY <1>1
<1> QED BY <1>2, NotifyType DEF Heartbeat, Core, TypeOK

\* onCommandWrite, with _inBuf full or not.
LEMMA WriteType ==
  ASSUME WireType, NEW c \in Commands, Write(c)
  PROVE  inBuf' \in Seq(Commands)
<1>1. CASE Len(inBuf) < InCap
  BY <1>1 DEF WireType, Write
<1>2. CASE ~(Len(inBuf) < InCap)
  <2>1. inBuf # <<>>
    BY <1>2, BufferAssumption DEF WireType
  <2>2. Tail(inBuf) \in Seq(Commands)
    BY <2>1 DEF WireType
  <2> QED BY <1>2, <2>2 DEF WireType, Write
<1> QED BY <1>1, <1>2

\* The line taken off _inBuf is a command.
LEMMA LineType ==
  ASSUME WireType, NEW c, Line(c)
  PROVE  inBuf' \in Seq(Commands) /\ Head(inBuf) \in Commands /\ Head(inBuf).cmd = c
BY DEF WireType, Line

\* What the phone writes.
LEMMA CoreWrite ==
  ASSUME Core, NEW c \in Commands, Write(c)
  PROVE  Core'
<1> USE DEF Core, TypeOK
<1>1. RingType' /\ UploadType' /\ FlagType' /\ NvsType' /\ PhoneType' /\ BaseLag'
  BY DEF Write, RingType, UploadType, FlagType, NvsType, PhoneType, BaseLag, ring, upload, link, phone, epoch
<1>2. WireType'
  BY WriteType DEF Write, WireType
<1> QED BY <1>1, <1>2

\* The phone's own commands.
LEMMA PhoneCommands == Core => Hello \in Commands /\ Sync \in Commands /\ Ack \in Commands
BY BoundAssumption DEF Core, TypeOK, PhoneType, Hello, Sync, Ack, Commands, Seqs

\* handleLine; the ack is the one that moves the ring.
LEMMA CoreHandle ==
  ASSUME Core, Handle
  PROVE  Core'
<1> USE DEF Core, TypeOK
<1>1. ASSUME NEW c, Line(c)
      PROVE  inBuf' \in Seq(Commands) /\ PhoneType' /\ connected' = connected
             /\ links' = links /\ beatDue' = beatDue /\ pc' = pc /\ sent' = sent
             /\ boots' = boots /\ bootSeq' = bootSeq /\ usedBefore' = usedBefore
  BY <1>1, LineType DEF Line, PhoneType, phone, epoch
<1>2. CASE HandleSync
  <2>1. RingType' /\ UploadType' /\ NvsType' /\ BaseLag'
    BY <1>1, <1>2 DEF HandleSync, RingType, UploadType, NvsType, BaseLag, ring, upload
  <2>2. FlagType' /\ WireType' /\ PhoneType'
    BY <1>1, <1>2 DEF HandleSync, FlagType, WireType, upload
  <2> QED BY <2>1, <2>2
<1>3. CASE HandleHello
  <2>1. RingType' /\ NvsType' /\ BaseLag'
    BY <1>1, <1>3 DEF HandleHello, RingType, NvsType, BaseLag, ring
  <2>2. UploadType'
    BY <1>1, <1>3, BoundAssumption DEF HandleHello, UploadType, Seqs
  <2>3. FlagType' /\ PhoneType'
    BY <1>1, <1>3 DEF HandleHello, FlagType
  <2>4. WireType'
    BY <1>1, <1>3, HeartbeatType DEF HandleHello, WireType
  <2> QED BY <2>1, <2>2, <2>3, <2>4
<1>4. CASE HandleRefused
  <2>1. PICK c \in {"ack", "run", "slot"} : Line(c)
    BY <1>4 DEF HandleRefused
  <2>2. RingType' /\ UploadType' /\ NvsType' /\ BaseLag'
    BY <1>1, <2>1, <1>4 DEF HandleRefused, RingType, UploadType, NvsType, BaseLag, ring, upload
  <2>3. FlagType' /\ WireType' /\ PhoneType'
    BY <1>1, <2>1, <1>4 DEF HandleRefused, FlagType, WireType, upload
  <2> QED BY <2>2, <2>3
<1>5. CASE HandleAck
  <2>1. Head(inBuf).n \in Seqs
    BY <1>5, LineType DEF HandleAck, Commands
  <2>2. FlagType' /\ WireType' /\ PhoneType' /\ NvsType'
    BY <1>1, <1>5 DEF HandleAck, FlagType, WireType, NvsType
  <2>3. CASE Head(inBuf).n > ackedBefore
    <3> DEFINE f == Freed(Head(inBuf).n)
    <3>1. f \in 0 .. qCount
      BY <2>1, BoundAssumption DEF Freed, RingType, Seqs
    <3>2. qHead' = Slot(qHead + f) /\ qCount' = qCount - f /\ queueBaseSeq' = queueBaseSeq + f
      BY <1>5, <2>3 DEF HandleAck
    <3>3. qHead' \in 0 .. CAP - 1
      BY <3>1, <3>2, SlotType, CapAssumption, SMTT(30) DEF RingType
    <3>4. RingType'
      BY <1>5, <3>1, <3>2, <3>3, CapAssumption DEF HandleAck, RingType
    <3>5. BaseLag'
      <4>1. seqNext' = seqNext /\ bootSeq' = bootSeq
        BY <1>1, <1>5 DEF HandleAck
      <4>2. qCount \in Nat /\ queueBaseSeq \in Nat /\ bootSeq \in Nat /\ seqNext \in Nat
        BY CapAssumption, BoundAssumption DEF RingType, UploadType, NvsType
      <4> HIDE DEF f
      <4> QED BY <3>1, <3>2, <4>1, <4>2 DEF BaseLag
    <3>6. UploadType'
      BY <1>1, <1>5, <2>1, <2>3, BoundAssumption DEF HandleAck, UploadType, Seqs
    <3> QED BY <2>2, <3>4, <3>5, <3>6
  <2>4. CASE ~(Head(inBuf).n > ackedBefore)
    <3>1. RingType' /\ UploadType' /\ BaseLag'
      BY <1>1, <1>5, <2>4 DEF HandleAck, RingType, UploadType, BaseLag
    <3> QED BY <2>2, <3>1
  <2> QED BY <2>3, <2>4
<1>6. CASE HandleRun
  <2>1. RingType' /\ UploadType' /\ BaseLag' /\ PhoneType'
    BY <1>1, <1>6 DEF HandleRun, RingType, UploadType, BaseLag, ring, upload
  <2>2. FlagType'
    BY <1>1, <1>6 DEF HandleRun, FlagType, upload
  <2>3. WireType'
    BY <1>1, <1>6, HeartbeatType DEF HandleRun, WireType
  <2>4. NvsType'
    <3>1. Head(inBuf).n \in {0, 1}
      BY <1>6, LineType DEF HandleRun, Commands
    <3> QED BY <1>1, <1>6, <3>1 DEF HandleRun, NvsType
  <2> QED BY <2>1, <2>2, <2>3, <2>4
<1>7. CASE HandleSlot
  <2>1. RingType' /\ UploadType' /\ BaseLag' /\ PhoneType'
    BY <1>1, <1>7 DEF HandleSlot, RingType, UploadType, BaseLag, ring, upload
  <2>2. FlagType'
    BY <1>1, <1>7 DEF HandleSlot, FlagType, upload
  <2>3. WireType'
    BY <1>1, <1>7, HeartbeatType DEF HandleSlot, WireType
  <2>4. NvsType'
    BY <1>1, <1>7 DEF HandleSlot, NvsType
  <2> QED BY <2>1, <2>2, <2>3, <2>4
<1> QED BY <1>2, <1>3, <1>4, <1>5, <1>6, <1>7 DEF Handle

\* The pump's slot exists, also after an overflow under its loop.
LEMMA CursorType ==
  Core => PumpCursor \in Nat /\ PumpCursor >= queueBaseSeq /\ PumpSlot \in 0 .. CAP - 1
<1> SUFFICES ASSUME Core
             PROVE  PumpCursor \in Nat /\ PumpCursor >= queueBaseSeq /\ PumpSlot \in 0 .. CAP - 1
  OBVIOUS
<1>1. PumpCursor \in Nat /\ PumpCursor >= queueBaseSeq
  BY DEF Core, TypeOK, RingType, UploadType, PumpCursor, Max2
<1>2. qHead + (PumpCursor - queueBaseSeq) \in Nat
  BY <1>1, CapAssumption DEF Core, TypeOK, RingType
<1> QED BY <1>1, <1>2, SlotType DEF PumpSlot

\* pumpUpload.
LEMMA CorePump ==
  ASSUME Core, Pump
  PROVE  Core'
<1> USE DEF Core, TypeOK
<1>1. RingType' /\ NvsType' /\ PhoneType' /\ BaseLag'
  BY DEF Pump, PumpSkip, PumpEnter, PumpSend, PumpEnd, RingType, NvsType, PhoneType,
         BaseLag, ring, phone, epoch
<1>2. CASE PumpSkip
  <2>1. UploadType' /\ WireType'
    BY <1>2 DEF PumpSkip, UploadType, WireType, upload, link
  <2>2. FlagType'
    BY <1>2 DEF PumpSkip, FlagType, upload, link
  <2> QED BY <1>1, <2>1, <2>2
<1>3. CASE PumpEnter
  <2>1. UploadType' /\ WireType'
    BY <1>3, BoundAssumption DEF PumpEnter, UploadType, RingType, WireType, link, Max2, Seqs
  <2>2. FlagType'
    BY <1>3 DEF PumpEnter, FlagType, link
  <2> QED BY <1>1, <2>1, <2>2
<1>4. CASE PumpSend
  <2>1. queue[PumpSlot] \in Seqs
    BY CursorType DEF RingType
  <2>2. WireType'
    BY <1>4, <2>1, NotifyType DEF PumpSend, WireType
  <2>3. UploadType'
    BY <1>4, CursorType DEF PumpSend, UploadType, link
  <2>4. FlagType'
    BY <1>4 DEF PumpSend, FlagType, link
  <2> QED BY <1>1, <2>2, <2>3, <2>4
<1>5. CASE PumpEnd
  <2>1. UploadType' /\ WireType'
    BY <1>5, CursorType DEF PumpEnd, UploadType, WireType, link
  <2>2. FlagType'
    BY <1>5 DEF PumpEnd, FlagType, link
  <2> QED BY <1>1, <2>1, <2>2
<1> QED BY <1>2, <1>3, <1>4, <1>5 DEF Pump

\* The heartbeat of main.
LEMMA CoreTickBeat ==
  ASSUME Core, TickBeat
  PROVE  Core'
<1> USE DEF Core, TypeOK
<1>1. RingType' /\ UploadType' /\ NvsType' /\ PhoneType' /\ BaseLag'
  BY DEF TickBeat, RingType, UploadType, NvsType, PhoneType, BaseLag, ring, upload, link, phone, epoch
<1>2. FlagType'
  BY DEF TickBeat, FlagType, upload, link
<1>3. WireType'
  BY HeartbeatType DEF TickBeat, WireType
<1> QED BY <1>1, <1>2, <1>3

\* A line reaches the phone.
LEMMA CoreDeliver ==
  ASSUME Core, Deliver
  PROVE  Core'
<1> USE DEF Core, TypeOK
<1>1. RingType' /\ UploadType' /\ NvsType' /\ BaseLag'
  BY DEF Deliver, RingType, UploadType, NvsType, BaseLag, ring, upload, link, epoch
<1>2. FlagType'
  BY DEF Deliver, FlagType, upload, link
<1>3. Head(air) \in Lines /\ air' \in Seq(Lines)
  BY DEF Deliver, WireType
<1>4. WireType'
  BY <1>3 DEF Deliver, WireType
<1>5. Head(air).seq \in Seqs
  BY <1>3 DEF Lines
<1>6. PhoneType'
  <2>1. got' \subseteq Seqs
    BY <1>5 DEF Deliver, PhoneType
  <2>2. PICK n : n = floor' /\
          n \in (IF Head(air).kind = "beat" /\ Head(air).seq > floor
                 THEN Head(air).seq ELSE floor) .. MaxSeq + 1
    BY DEF Deliver
  <2>3. floor' \in 1 .. MaxSeq + 1
    BY <1>5, <2>2, BoundAssumption DEF PhoneType, Seqs
  <2> QED BY <2>1, <2>3 DEF PhoneType
<1> QED BY <1>1, <1>2, <1>4, <1>6

\* loadPersist: the base falls behind by what the boot skips.
LEMMA CoreReboot ==
  ASSUME Core, Reboot
  PROVE  Core'
<1> USE DEF Core, TypeOK
<1>1. LoadSeq(nvs) \in 1 .. MaxSeq /\ 1 \in Seqs /\ LoadSeq(nvs) \in Seqs
  BY ReserveAssumption, BoundAssumption DEF Reboot, LoadSeq, NvsType, Seqs
<1>2. RingType'
  BY CapAssumption, BoundAssumption DEF Reboot, RingType, Seqs
<1>3. UploadType'
  BY <1>1, BoundAssumption DEF Reboot, UploadType
<1>4. FlagType'
  BY DEF Reboot, FlagType
<1>5. WireType'
  BY DEF Reboot, WireType
<1>6. NvsType'
  BY <1>1, BoundAssumption DEF Reboot, NvsType, UploadType
<1>7. PhoneType' /\ BaseLag'
  BY <1>1 DEF Reboot, PhoneType, BaseLag, phone
<1> QED BY <1>2, <1>3, <1>4, <1>5, <1>6, <1>7

\* The steps that touch only flags, the pc and the buffers' emptiness.
LEMMA CoreIdle ==
  ASSUME Core, Connect \/ Disconnect \/ TickLines \/ Timers \/ UNCHANGED vars
  PROVE  Core'
<1> USE DEF Core, TypeOK
<1>1. RingType' /\ UploadType' /\ NvsType' /\ PhoneType' /\ BaseLag' /\ WireType'
  <2>1. CASE Connect
    BY <2>1 DEF Connect, RingType, UploadType, NvsType, PhoneType, BaseLag, WireType,
       ring, upload, phone, epoch
  <2>2. CASE Disconnect
    BY <2>2 DEF Disconnect, RingType, UploadType, NvsType, PhoneType, BaseLag, WireType,
       ring, upload, phone, epoch
  <2>3. CASE TickLines
    BY <2>3 DEF TickLines, RingType, UploadType, NvsType, PhoneType, BaseLag, WireType,
       ring, upload, link, phone, epoch
  <2>4. CASE Timers
    BY <2>4 DEF Timers, StallTimer, BeatTimer, RingType, UploadType, NvsType, PhoneType,
       BaseLag, WireType, ring, upload, link, phone, epoch
  <2>5. CASE UNCHANGED vars
    BY <2>5 DEF vars, RingType, UploadType, NvsType, PhoneType, BaseLag, WireType,
       ring, upload, link, phone, epoch
  <2> QED BY <2>1, <2>2, <2>3, <2>4, <2>5
<1>2. FlagType'
  <2>1. CASE Connect
    BY <2>1 DEF Connect, FlagType, upload
  <2>2. CASE Disconnect
    BY <2>2 DEF Disconnect, FlagType, upload
  <2>3. CASE TickLines
    BY <2>3 DEF TickLines, FlagType, upload, link
  <2>4. CASE Timers
    BY <2>4 DEF Timers, StallTimer, BeatTimer, FlagType, upload, link
  <2>5. CASE UNCHANGED vars
    BY <2>5 DEF vars, FlagType, upload, link
  <2> QED BY <2>1, <2>2, <2>3, <2>4, <2>5
<1> QED BY <1>1, <1>2

\* Every act of the phone.
LEMMA CorePhone ==
  ASSUME Core, PhoneHello \/ PhoneSync \/ PhoneAck \/ PhoneRun \/ PhoneSlot
  PROVE  Core'
<1>1. CASE PhoneHello \/ PhoneSync \/ PhoneAck
  BY <1>1, PhoneCommands, CoreWrite DEF PhoneHello, PhoneSync, PhoneAck
<1>2. CASE PhoneRun
  <2>1. PICK m \in {0, 1} : Write([cmd |-> "run", n |-> m])
    BY <1>2 DEF PhoneRun
  <2>2. [cmd |-> "run", n |-> m] \in Commands
    BY DEF Commands
  <2> QED BY <2>1, <2>2, CoreWrite
<1>3. CASE PhoneSlot
  <2>1. [cmd |-> "slot", n |-> 0] \in Commands
    BY DEF Commands
  <2> QED BY <1>3, <2>1, CoreWrite DEF PhoneSlot
<1> QED BY <1>1, <1>2, <1>3

\* Core is inductive.
LEMMA CoreStep == Core /\ [Next]_vars => Core'
<1> SUFFICES ASSUME Core, [Next]_vars PROVE Core'
  OBVIOUS
<1>1. CASE Report
  BY <1>1, CoreReport
<1>2. CASE Handle \/ Pump \/ TickBeat
  BY <1>2, CoreHandle, CorePump, CoreTickBeat
<1>3. CASE Deliver \/ PhoneHello \/ PhoneSync \/ PhoneAck \/ PhoneRun \/ PhoneSlot
  BY <1>3, CoreDeliver, CorePhone
<1>4. CASE Connect \/ Disconnect \/ TickLines \/ Timers \/ UNCHANGED vars
  BY <1>4, CoreIdle
<1>5. CASE Reboot
  BY <1>5, CoreReboot
<1> QED BY <1>1, <1>2, <1>3, <1>4, <1>5
        DEF Next, Running, Tick, Phone, Host, ReportAP, ReportBT

\* The ring never exceeds its capacity, its indices stay in it, and no line ever
\* names a number that was not handed out, over any number of reboots
\* (queueSighting, the ack loop, loadPersist).
THEOREM TypeCorrect == Spec => []TypeOK
<1>1. Core => TypeOK
  BY DEF Core
<1> QED BY CoreInit, CoreStep, <1>1, PTL DEF Spec

\* The cursor bounds are inductive beside Core.
LEMMA CursorStep == Core /\ CursorBounds /\ [Next]_vars => CursorBounds'
<1> SUFFICES ASSUME Core, CursorBounds, [Next]_vars PROVE CursorBounds'
  OBVIOUS
<1>1. /\ queueBaseSeq \in Nat /\ qCount \in Nat /\ bootSeq \in Nat \ {0} /\ seqNext \in Nat
      /\ ackedBefore \in Nat /\ sendCursor \in Nat /\ queueBaseSeq <= seqNext
  BY CapAssumption, BoundAssumption
     DEF Core, TypeOK, RingType, UploadType, NvsType, BaseLag, Seqs
<1>2. CASE Report
  BY <1>1, <1>2 DEF Report, CursorBounds, upload, Max2
<1>3. CASE UNCHANGED <<ackedBefore, sendCursor, seqNext>>
  BY <1>3 DEF CursorBounds, Max2
<1>4. CASE HandleHello
  BY <1>1, <1>4 DEF HandleHello, CursorBounds, Max2
<1>5. CASE HandleAck
  <2>1. Head(inBuf).n \in Nat
    BY <1>5, LineType, BoundAssumption DEF HandleAck, Core, TypeOK, Commands, Seqs
  <2> QED BY <1>1, <1>5, <2>1 DEF HandleAck, CursorBounds, Max2
<1>6. CASE PumpEnter
  BY <1>1, <1>6 DEF PumpEnter, CursorBounds, Max2
<1>7. CASE PumpSend
  BY <1>1, <1>7 DEF PumpSend, PumpCursor, CursorBounds, Max2
<1>8. CASE PumpEnd
  BY <1>1, <1>8 DEF PumpEnd, PumpCursor, PumpMore, CursorBounds, Max2
<1>9. CASE Reboot
  <2>1. LoadSeq(nvs) \in Nat
    BY ReserveAssumption DEF Core, TypeOK, NvsType, LoadSeq
  <2> QED BY <1>9, <2>1 DEF Reboot, CursorBounds, Max2
<1>10. CASE HandleSync \/ HandleRefused \/ HandleRun \/ HandleSlot \/ TickBeat \/ PumpSkip \/ Deliver
  BY <1>3, <1>10 DEF HandleSync, HandleRefused, HandleRun, HandleSlot, TickBeat, PumpSkip, Deliver, upload
<1>11. CASE PhoneHello \/ PhoneSync \/ PhoneAck \/ PhoneRun \/ PhoneSlot
  BY <1>3, <1>11 DEF PhoneHello, PhoneSync, PhoneAck, PhoneRun, PhoneSlot, Write, upload
<1>12. CASE Connect \/ Disconnect \/ TickLines \/ Timers \/ UNCHANGED vars
  BY <1>3, <1>12 DEF Connect, Disconnect, TickLines, Timers, StallTimer, BeatTimer, vars, upload
<1> QED BY <1>2, <1>4, <1>5, <1>6, <1>7, <1>8, <1>9, <1>10, <1>11, <1>12
        DEF Next, Running, Tick, Handle, Pump, Phone, Host, ReportAP, ReportBT

\* The upload cursor stays between what is acknowledged and what exists, whatever
\* hellos, stalls, acks and reboots interleave (pumpUpload, handleLine).
THEOREM CursorBounded == Spec => []CursorBounds
<1>1. Init => CursorBounds
  BY DEF Init, CursorBounds, Max2
<1> QED BY CoreInit, CoreStep, CursorStep, <1>1, PTL DEF Spec

\* A sighting joins the ring in its place, with room and without.
LEMMA RingReport ==
  ASSUME Core, RingOrder, Report
  PROVE  RingOrder'
<1> SUFFICES ASSUME NEW i \in 0 .. qCount' - 1
             PROVE  queue'[Slot(qHead' + i)] = seqNext' - qCount' + i
  BY DEF RingOrder, Slot
<1>1. /\ qHead \in 0 .. CAP - 1 /\ qCount \in 0 .. CAP /\ seqNext \in Nat
      /\ seqNext' = seqNext + 1 /\ queue \in [0 .. CAP - 1 -> Seqs]
  BY BoundAssumption DEF Core, TypeOK, RingType, UploadType, Report
<1>2. CASE ~Full
  <2>1. i \in 0 .. qCount /\ qCount < CAP /\ qHead' = qHead /\ qCount' = qCount + 1
    BY <1>1, <1>2, ReportRoom
  <2>2. qHead + i \in 0 .. 2 * CAP - 1 /\ qHead + qCount \in 0 .. 2 * CAP - 1
    BY <1>1, <2>1, CapAssumption
  <2>3. queue' = [queue EXCEPT ![Slot(qHead + qCount)] = seqNext]
    BY <1>2, ReportRoom
  <2>4. Slot(qHead + i) \in 0 .. CAP - 1 /\ Slot(qHead + qCount) \in 0 .. CAP - 1
    BY <2>2, SlotType
  <2>5. CASE i = qCount
    BY <1>1, <2>1, <2>3, <2>4, <2>5
  <2>6. CASE i # qCount
    <3>1. i \in 0 .. qCount - 1
      BY <1>1, <2>1, <2>6
    <3>2. Slot(qHead + i) # Slot(qHead + qCount)
      BY <1>1, <2>1, <2>2, <3>1, SlotWrap, CapAssumption
    <3>3. queue[Slot(qHead + i)] = seqNext - qCount + i
      BY <3>1 DEF RingOrder
    <3> QED BY <1>1, <2>1, <2>3, <2>4, <3>1, <3>2, <3>3
  <2> QED BY <2>5, <2>6
<1>3. CASE Full
  <2>1. qCount = CAP /\ qHead' = Slot(qHead + 1) /\ qCount' = CAP /\ i \in 0 .. CAP - 1
    BY <1>3, ReportFull
  <2>2. Slot(qHead + 1) = IF qHead + 1 < CAP THEN qHead + 1 ELSE 0
    BY <1>1, SlotWrap, CapAssumption
  <2>3. /\ Slot(Slot(qHead + 1) + i) = IF i = CAP - 1 THEN qHead ELSE Slot(qHead + (i + 1))
        /\ i # CAP - 1 => Slot(Slot(qHead + 1) + i) # qHead
        /\ Slot(Slot(qHead + 1) + i) \in 0 .. CAP - 1
    <3>1. Slot(qHead + 1) + i \in 0 .. 2 * CAP - 1 /\ qHead + (i + 1) \in 0 .. 2 * CAP - 1
      BY <1>1, <2>1, <2>2, CapAssumption
    <3>2. /\ Slot(Slot(qHead + 1) + i) = IF Slot(qHead + 1) + i < CAP
             THEN Slot(qHead + 1) + i ELSE (Slot(qHead + 1) + i) - CAP
          /\ Slot(qHead + (i + 1)) = IF qHead + (i + 1) < CAP
             THEN qHead + (i + 1) ELSE (qHead + (i + 1)) - CAP
      BY <3>1, SlotWrap, Zenon
    <3> QED BY <1>1, <2>1, <2>2, <3>2, CapAssumption
  <2>4. Slot(Slot(qHead + 1) + (CAP - 1)) = qHead
    <3>1. Slot(qHead + 1) + (CAP - 1) \in 0 .. 2 * CAP - 1
      BY <1>1, <2>2, CapAssumption
    <3>2. Slot(Slot(qHead + 1) + (CAP - 1)) = IF Slot(qHead + 1) + (CAP - 1) < CAP
             THEN Slot(qHead + 1) + (CAP - 1) ELSE (Slot(qHead + 1) + (CAP - 1)) - CAP
      BY <3>1, SlotWrap, Zenon
    <3> QED BY <1>1, <2>2, <3>2, CapAssumption
  <2>5. queue' = [queue EXCEPT ![qHead] = seqNext]
    BY <1>3, <2>4, ReportFull
  <2>6. CASE i = CAP - 1
    BY <1>1, <2>1, <2>3, <2>5, <2>6, CapAssumption
  <2>7. CASE i # CAP - 1
    <3>1. i + 1 \in 0 .. qCount - 1
      BY <2>1, <2>7, CapAssumption
    <3>2. queue[Slot(qHead + (i + 1))] = seqNext - qCount + (i + 1)
      BY <3>1 DEF RingOrder
    <3> QED BY <1>1, <2>1, <2>3, <2>5, <2>7, <3>2, CapAssumption
  <2> QED BY <2>6, <2>7
<1> QED BY <1>2, <1>3

\* An ack moves the head past what it frees, and no further.
LEMMA RingAck ==
  ASSUME Core, RingOrder, HandleAck
  PROVE  RingOrder'
<1> SUFFICES ASSUME NEW i \in 0 .. qCount' - 1
             PROVE  queue'[Slot(qHead' + i)] = seqNext' - qCount' + i
  BY DEF RingOrder, Slot
<1>1. /\ qHead \in 0 .. CAP - 1 /\ qCount \in 0 .. CAP /\ seqNext \in Nat
      /\ queueBaseSeq \in Nat
  BY BoundAssumption DEF Core, TypeOK, RingType, UploadType
<1>2. queue' = queue /\ seqNext' = seqNext
  BY DEF HandleAck
<1>3. Head(inBuf).n \in Nat
  BY LineType, BoundAssumption DEF HandleAck, Core, TypeOK, Commands, Seqs
<1>4. CASE ~(Head(inBuf).n > ackedBefore)
  BY <1>2, <1>4 DEF HandleAck, RingOrder
<1>5. CASE Head(inBuf).n > ackedBefore
  <2> DEFINE f == Freed(Head(inBuf).n)
  <2>1. f \in 0 .. qCount
    BY <1>1, <1>3 DEF Freed
  <2>2. qHead' = Slot(qHead + f) /\ qCount' = qCount - f
    BY <1>5 DEF HandleAck
  <2> HIDE DEF f
  <2>3. f + i \in 0 .. qCount - 1 /\ i \in 0 .. CAP - 1
    <3>1. i \in 0 .. (qCount - f) - 1
      BY <2>2
    <3> QED BY <1>1, <2>1, <3>1, CapAssumption
  <2>4. qHead + f \in 0 .. 2 * CAP - 1 /\ qHead + (f + i) \in 0 .. 2 * CAP - 1
    BY <1>1, <2>1, <2>3, CapAssumption
  <2>5. /\ Slot(qHead + f) = IF qHead + f < CAP THEN qHead + f ELSE (qHead + f) - CAP
        /\ Slot(qHead + (f + i)) = IF qHead + (f + i) < CAP
             THEN qHead + (f + i) ELSE (qHead + (f + i)) - CAP
    BY <2>4, SlotWrap, Zenon
  <2>6. Slot(qHead + f) + i \in 0 .. 2 * CAP - 1
    BY <1>1, <2>1, <2>3, <2>5, CapAssumption
  <2>7. Slot(Slot(qHead + f) + i) = IF Slot(qHead + f) + i < CAP
             THEN Slot(qHead + f) + i ELSE (Slot(qHead + f) + i) - CAP
    BY <2>6, SlotWrap, Zenon
  <2>8. Slot(Slot(qHead + f) + i) = Slot(qHead + (f + i))
    BY <1>1, <2>1, <2>3, <2>5, <2>7, CapAssumption
  <2>9. queue[Slot(qHead + (f + i))] = seqNext - qCount + (f + i)
    BY <2>3 DEF RingOrder
  <2> QED BY <1>1, <1>2, <2>1, <2>2, <2>3, <2>8, <2>9
<1> QED BY <1>4, <1>5

\* The order of the ring is inductive beside Core.
LEMMA RingStep == Core /\ RingOrder /\ [Next]_vars => RingOrder'
<1> SUFFICES ASSUME Core, RingOrder, [Next]_vars PROVE RingOrder'
  OBVIOUS
<1>1. CASE Report \/ HandleAck
  BY <1>1, RingReport, RingAck
<1>2. CASE UNCHANGED <<queue, qHead, qCount, seqNext>>
  BY <1>2 DEF RingOrder, Slot
<1>3. CASE Reboot
  BY <1>3 DEF Reboot, RingOrder
<1>4. CASE HandleHello \/ HandleSync \/ HandleRefused \/ HandleRun \/ HandleSlot
  BY <1>2, <1>4 DEF HandleHello, HandleSync, HandleRefused, HandleRun, HandleSlot, ring
<1>5. CASE TickBeat \/ PumpSkip \/ PumpEnter \/ PumpSend \/ PumpEnd \/ Deliver
  BY <1>2, <1>5 DEF TickBeat, PumpSkip, PumpEnter, PumpSend, PumpEnd, Deliver, ring
<1>6. CASE PhoneHello \/ PhoneSync \/ PhoneAck \/ PhoneRun \/ PhoneSlot
  BY <1>2, <1>6 DEF PhoneHello, PhoneSync, PhoneAck, PhoneRun, PhoneSlot, Write, ring
<1>7. CASE Connect \/ Disconnect \/ TickLines \/ Timers \/ UNCHANGED vars
  BY <1>2, <1>7 DEF Connect, Disconnect, TickLines, Timers, StallTimer, BeatTimer, vars, ring
<1> QED BY <1>1, <1>3, <1>4, <1>5, <1>6, <1>7
        DEF Next, Running, Tick, Handle, Pump, Phone, Host, ReportAP, ReportBT

\* The used slots hold the last numbers handed out, oldest first, through every
\* overflow, ack, wrap and reboot (queueSighting, the ack loop).
THEOREM RingOrdered == Spec => []RingOrder
<1>1. Init => RingOrder
  BY DEF Init, RingOrder
<1> QED BY CoreInit, CoreStep, RingStep, <1>1, PTL DEF Spec

\* What a buffer holds, in whatever order.
Elems(q) == {q[i] : i \in DOMAIN q}

\* Taking the first element of a buffer adds nothing to it.
LEMMA ElemsTail ==
  ASSUME NEW S, NEW q \in Seq(S), q # <<>>
  PROVE  Elems(Tail(q)) \subseteq Elems(q) /\ Head(q) \in Elems(q)
<1>1. Tail(q) \in Seq(S) /\ Len(Tail(q)) = Len(q) - 1 /\ Len(q) \in Nat \ {0}
      /\ Head(q) = q[1]
  OBVIOUS
<1>2. \A i \in 1 .. Len(Tail(q)) : Tail(q)[i] = q[i + 1] /\ i + 1 \in 1 .. Len(q)
  BY <1>1
<1> QED BY <1>1, <1>2 DEF Elems

\* Appending adds one element.
LEMMA ElemsAppend ==
  ASSUME NEW S, NEW q \in Seq(S), NEW e \in S
  PROVE  Elems(Append(q, e)) \subseteq Elems(q) \cup {e}
<1>1. DOMAIN Append(q, e) = 1 .. Len(q) + 1 /\ DOMAIN q = 1 .. Len(q)
  OBVIOUS
<1>2. \A i \in 1 .. Len(q) + 1 :
        Append(q, e)[i] = IF i <= Len(q) THEN q[i] ELSE e
  OBVIOUS
<1> QED BY <1>1, <1>2 DEF Elems

\* Numbers are settled up to n: the phone has them, or _lost counts them.
Settled(n) == 1 .. n - 1 \subseteq got \cup dropped

\* Until NVS is written no phone has started a run, so nothing was captured.
NvsInv ==
  nvs.space = "absent" => runMask = 0 /\ bootSeq = 1 /\ seqNext = 1 /\ dropped = {}

\* On a first boot every promise that is held or under way is covered: what left
\* the window, what the phone counts as settled, what an ack in _inBuf will free
\* and what a heartbeat in flight will make the phone give up.
Promises ==
  FirstBoot =>
    /\ Settled(queueBaseSeq)
    /\ Settled(floor)
    /\ \A c \in Elems(inBuf) : c.cmd = "ack" => c.n <= floor
    /\ \A m \in Elems(air) : m.kind = "beat" => Settled(m.seq)

\* What was pushed out is older than what is held, and _lost counts it.
DropInv == dropped \subseteq 1 .. seqNext - qCount - 1 /\ Cardinality(dropped) = lost

Account == NvsInv /\ Promises /\ DropInv

\* Nothing is promised at first.
LEMMA AccountInit == Init => Account
<1> SUFFICES ASSUME Init PROVE Account
  OBVIOUS
<1>1. NvsInv
  BY DEF Init, NvsInv
<1>2. Promises
  BY DEF Init, Promises, Settled, Elems
<1>3. DropInv
  BY FS_EmptySet DEF Init, DropInv
<1> QED BY <1>1, <1>2, <1>3 DEF Account

\* The promises cover every sighting of a first boot.
LEMMA AccountImplies == Core /\ Account => AllAccounted
<1> SUFFICES ASSUME Core, Account, FirstBoot,
                    NEW s \in 1 .. seqNext - 1, s \notin Queued
             PROVE  s \in got \cup dropped
  BY DEF AllAccounted, Account, DropInv
<1>1. queueBaseSeq \in Nat /\ qCount \in Nat /\ seqNext \in Nat /\ seqNext - qCount = queueBaseSeq
  BY CapAssumption, BoundAssumption DEF Core, TypeOK, RingType, UploadType, BaseLag, FirstBoot
<1>2. s \in 1 .. queueBaseSeq - 1
  BY <1>1 DEF Queued
<1> QED BY <1>2 DEF Account, Promises, Settled

\* On a first boot the base does not lag.
LEMMA FirstBase ==
  ASSUME Core, FirstBoot
  PROVE  seqNext = queueBaseSeq + qCount /\ queueBaseSeq \in Nat /\ qCount \in Nat
         /\ seqNext \in Nat
BY CapAssumption, BoundAssumption DEF Core, TypeOK, RingType, UploadType, BaseLag, FirstBoot

\* A notification adds at most itself to what is in flight.
LEMMA NotifyElems ==
  ASSUME Core, NEW p, NEW k \in {"data", "beat"}, NEW s \in Seqs, Notify(p, k, s)
  PROVE  Elems(air') \subseteq Elems(air) \cup {[kind |-> k, seq |-> s]}
<1>1. [kind |-> k, seq |-> s] \in Lines
  BY DEF Lines
<1>2. air \in Seq(Lines)
  BY DEF Core, TypeOK, WireType
<1> QED BY <1>1, <1>2, ElemsAppend DEF Notify

\* On a first boot a heartbeat names the oldest sighting that is not settled.
LEMMA HeartbeatElems ==
  ASSUME Core, FirstBoot, NEW p, Heartbeat(p)
  PROVE  \A m \in Elems(air') : m \in Elems(air) \/ m.seq = queueBaseSeq
<1>1. (IF qCount > 0 THEN queueBaseSeq ELSE seqNext) = queueBaseSeq
  BY FirstBase
<1>2. queueBaseSeq \in Seqs
  BY FirstBase, BoundAssumption DEF Core, TypeOK, RingType, UploadType, Seqs
<1>3. Elems(air') \subseteq Elems(air) \cup {[kind |-> "beat", seq |-> queueBaseSeq]}
  BY <1>1, <1>2, NotifyElems DEF Heartbeat
<1> QED BY <1>3

\* A write adds at most its own line to _inBuf.
LEMMA WriteElems ==
  ASSUME Core, NEW c \in Commands, Write(c)
  PROVE  Elems(inBuf') \subseteq Elems(inBuf) \cup {c}
<1>1. inBuf \in Seq(Commands)
  BY DEF Core, TypeOK, WireType
<1>2. CASE Len(inBuf) < InCap
  BY <1>1, <1>2, ElemsAppend DEF Write
<1>3. CASE ~(Len(inBuf) < InCap)
  <2>1. inBuf # <<>>
    BY <1>1, <1>3, BufferAssumption
  <2>2. Tail(inBuf) \in Seq(Commands)
    BY <1>1, <2>1
  <2>3. inBuf' = Append(Tail(inBuf), c)
    BY <1>3 DEF Write
  <2> QED BY <1>1, <2>1, <2>2, <2>3, ElemsTail, ElemsAppend
<1> QED BY <1>2, <1>3

\* Taking a line adds none.
LEMMA LineElems ==
  ASSUME Core, NEW c, Line(c)
  PROVE  Elems(inBuf') \subseteq Elems(inBuf) /\ Head(inBuf) \in Elems(inBuf)
BY ElemsTail DEF Line, Core, TypeOK, WireType

\* Until something is persisted nothing is captured, and then the number space
\* stays in use (saveRun, saveNode, reserveSeq).
LEMMA NvsStep == Core /\ NvsInv /\ [Next]_vars => NvsInv'
<1> SUFFICES ASSUME Core, NvsInv, [Next]_vars PROVE NvsInv'
  OBVIOUS
<1>1. CASE Report
  <2>1. nvs.space # "absent"
    BY <1>1 DEF Report, NvsInv
  <2>2. nvs'.space # "absent"
    BY <1>1, <2>1 DEF Report, ReserveSeq, Core, TypeOK, NvsType
  <2> QED BY <2>2 DEF NvsInv
<1>2. CASE UNCHANGED <<nvs, runMask, bootSeq, seqNext, dropped>>
  BY <1>2 DEF NvsInv
<1>3. CASE Reboot
  BY <1>3 DEF Reboot, NvsInv, LoadSeq
<1>4. CASE HandleRun \/ HandleSlot
  <2>1. nvs'.space = "present"
    BY <1>4 DEF HandleRun, HandleSlot, Core, TypeOK, NvsType
  <2> QED BY <2>1 DEF NvsInv
<1>5. CASE HandleHello \/ HandleSync \/ HandleRefused \/ HandleAck
  BY <1>2, <1>5 DEF HandleHello, HandleSync, HandleRefused, HandleAck, Line, ring, epoch
<1>6. CASE TickBeat \/ PumpSkip \/ PumpEnter \/ PumpSend \/ PumpEnd \/ Deliver
  BY <1>2, <1>6 DEF TickBeat, PumpSkip, PumpEnter, PumpSend, PumpEnd, Deliver, ring, epoch
<1>7. CASE PhoneHello \/ PhoneSync \/ PhoneAck \/ PhoneRun \/ PhoneSlot
  BY <1>2, <1>7 DEF PhoneHello, PhoneSync, PhoneAck, PhoneRun, PhoneSlot, Write, ring, epoch
<1>8. CASE Connect \/ Disconnect \/ TickLines \/ Timers \/ UNCHANGED vars
  BY <1>2, <1>8 DEF Connect, Disconnect, TickLines, Timers, StallTimer, BeatTimer, vars, ring, epoch
<1> QED BY <1>1, <1>3, <1>4, <1>5, <1>6, <1>7, <1>8
        DEF Next, Running, Tick, Handle, Pump, Phone, Host, ReportAP, ReportBT

\* _lost counts what was pushed out, and it is older than what is held.
LEMMA DropStep == Core /\ DropInv /\ [Next]_vars => DropInv'
<1> SUFFICES ASSUME Core, DropInv, [Next]_vars PROVE DropInv'
  OBVIOUS
<1>1. /\ queueBaseSeq \in Nat /\ qCount \in Nat /\ seqNext \in Nat /\ lost \in Nat
      /\ seqNext - qCount \in Nat
  BY CapAssumption, BoundAssumption DEF Core, TypeOK, RingType, UploadType, NvsType, BaseLag
<1>2. IsFiniteSet(dropped)
  <2>1. IsFiniteSet(1 .. seqNext - qCount - 1)
    BY <1>1, FS_Interval
  <2> QED BY <2>1, FS_Subset DEF DropInv
<1>3. CASE Report /\ Full
  <2>1. /\ qCount = CAP /\ qCount' = CAP /\ seqNext' = seqNext + 1 /\ lost' = lost + 1
        /\ dropped' = dropped \cup {seqNext - CAP}
    BY <1>3, ReportFull DEF Report
  <2>2. seqNext - CAP >= 1
    <3>1. queueBaseSeq >= 1 /\ bootSeq >= 1 /\ bootSeq \in Nat /\ CAP \in Nat
      BY CapAssumption, BoundAssumption DEF Core, TypeOK, RingType, NvsType
    <3> QED BY <1>1, <2>1, <3>1 DEF Core, BaseLag
  <2>3. seqNext - CAP \notin dropped
    BY <1>1, <2>1 DEF DropInv
  <2>4. Cardinality(dropped') = lost'
    BY <1>2, <2>1, <2>3, FS_AddElement DEF DropInv
  <2>5. dropped' \subseteq 1 .. seqNext' - qCount' - 1
    BY <1>1, <2>1, <2>2, CapAssumption DEF DropInv
  <2> QED BY <2>4, <2>5 DEF DropInv
<1>4. CASE Report /\ ~Full
  <2>1. /\ qCount' = qCount + 1 /\ seqNext' = seqNext + 1 /\ lost' = lost /\ dropped' = dropped
    BY <1>4, ReportRoom DEF Report
  <2> QED BY <1>1, <2>1 DEF DropInv
<1>5. CASE HandleAck
  <2>1. Head(inBuf).n \in Nat
    BY <1>5, LineType, BoundAssumption DEF HandleAck, Core, TypeOK, Commands, Seqs
  <2>2. qCount' \in 0 .. qCount
    BY <1>1, <1>5, <2>1 DEF HandleAck, Freed
  <2>3. dropped' = dropped /\ lost' = lost /\ seqNext' = seqNext
    BY <1>5 DEF HandleAck
  <2>4. qCount' \in Nat /\ qCount' <= qCount
    BY <1>1, <2>2
  <2>5. 1 .. seqNext - qCount - 1 \subseteq 1 .. seqNext' - qCount' - 1
    <3>1. ASSUME NEW a \in Nat, NEW b \in Nat, NEW c \in Nat, c <= b
          PROVE  1 .. a - b - 1 \subseteq 1 .. a - c - 1
      BY <3>1
    <3> QED BY <1>1, <2>3, <2>4, <3>1
  <2> QED BY <2>3, <2>5 DEF DropInv
<1>6. CASE UNCHANGED <<seqNext, qCount, dropped, lost>>
  BY <1>6 DEF DropInv
<1>7. CASE Reboot
  BY <1>7, FS_EmptySet DEF Reboot, DropInv
<1>8. CASE HandleHello \/ HandleSync \/ HandleRefused \/ HandleRun \/ HandleSlot
  BY <1>6, <1>8 DEF HandleHello, HandleSync, HandleRefused, HandleRun, HandleSlot, ring
<1>9. CASE TickBeat \/ PumpSkip \/ PumpEnter \/ PumpSend \/ PumpEnd \/ Deliver
  BY <1>6, <1>9 DEF TickBeat, PumpSkip, PumpEnter, PumpSend, PumpEnd, Deliver, ring
<1>10. CASE PhoneHello \/ PhoneSync \/ PhoneAck \/ PhoneRun \/ PhoneSlot
  BY <1>6, <1>10 DEF PhoneHello, PhoneSync, PhoneAck, PhoneRun, PhoneSlot, Write, ring
<1>11. CASE Connect \/ Disconnect \/ TickLines \/ Timers \/ UNCHANGED vars
  BY <1>6, <1>11 DEF Connect, Disconnect, TickLines, Timers, StallTimer, BeatTimer, vars, ring
<1> QED BY <1>3, <1>4, <1>5, <1>7, <1>8, <1>9, <1>10, <1>11
        DEF Next, Running, Tick, Handle, Pump, Phone, Host, ReportAP, ReportBT

\* An ack frees what lies below it, and never more than the phone settled.
LEMMA AckFrees ==
  ASSUME Core, FirstBoot, HandleAck
  PROVE  /\ queueBaseSeq' \in queueBaseSeq .. seqNext
         /\ queueBaseSeq' = queueBaseSeq
              \/ (queueBaseSeq' <= Head(inBuf).n /\ ackedBefore' = Head(inBuf).n)
         /\ qCount' = seqNext - queueBaseSeq'
         /\ Head(inBuf).n \in Nat /\ Head(inBuf).cmd = "ack"
<1>1. Head(inBuf).n \in Nat /\ Head(inBuf).cmd = "ack"
  BY LineType, BoundAssumption DEF HandleAck, Core, TypeOK, Commands, Seqs
<1>2. CASE ~(Head(inBuf).n > ackedBefore)
  <2>1. queueBaseSeq' = queueBaseSeq /\ qCount' = qCount
    BY <1>2 DEF HandleAck
  <2> QED BY <1>1, <2>1, FirstBase
<1>3. CASE Head(inBuf).n > ackedBefore
  <2> DEFINE f == Freed(Head(inBuf).n)
  <2>1. f \in 0 .. qCount /\ (f = 0 \/ queueBaseSeq + f <= Head(inBuf).n)
    BY <1>1, FirstBase DEF Freed
  <2>2. queueBaseSeq' = queueBaseSeq + f /\ qCount' = qCount - f /\ ackedBefore' = Head(inBuf).n
    BY <1>3 DEF HandleAck
  <2> HIDE DEF f
  <2> QED BY <1>1, <2>1, <2>2, FirstBase
<1> QED BY <1>2, <1>3

\* Promises survive a step that only adds to what is covered and makes none but
\* covered ones.
LEMMA KeepPromises ==
  ASSUME Core, Promises, FirstBoot' => FirstBoot,
         got \subseteq got', dropped \subseteq dropped',
         FirstBoot => /\ 1 .. queueBaseSeq' - 1 \subseteq got' \cup dropped'
                      /\ 1 .. floor' - 1 \subseteq got' \cup dropped'
                      /\ floor <= floor' /\ floor' \in Nat
                      /\ \A c \in Elems(inBuf') :
                           c \in Elems(inBuf) \/ (c.cmd = "ack" => c.n <= floor')
                      /\ \A m \in Elems(air') :
                           m \in Elems(air) \/ (m.kind = "beat" =>
                                1 .. m.seq - 1 \subseteq got' \cup dropped')
  PROVE  Promises'
<1> SUFFICES ASSUME FirstBoot' PROVE Promises'
  BY DEF Promises
<1>1. FirstBoot
  OBVIOUS
<1>2. inBuf \in Seq(Commands) /\ floor \in Nat
  BY BoundAssumption DEF Core, TypeOK, WireType, PhoneType
<1>3. \A c \in Elems(inBuf) : c.cmd = "ack" => c.n \in Nat
  BY <1>2, BoundAssumption DEF Elems, Commands, Seqs
<1>4. \A c \in Elems(inBuf) : c.cmd = "ack" => c.n <= floor'
  BY <1>1, <1>2, <1>3 DEF Promises
<1>5. \A m \in Elems(air) : m.kind = "beat" => 1 .. m.seq - 1 \subseteq got' \cup dropped'
  BY <1>1 DEF Promises, Settled
<1>6. \A c \in Elems(inBuf') : c.cmd = "ack" => c.n <= floor'
  BY <1>1, <1>4
<1>7. \A m \in Elems(air') : m.kind = "beat" => 1 .. m.seq - 1 \subseteq got' \cup dropped'
  BY <1>1, <1>5
<1> QED BY <1>1, <1>6, <1>7 DEF Promises, Settled, Elems

\* An overflow settles the number it pushes out.
LEMMA PromisesReport ==
  ASSUME Core, Promises, Report
  PROVE  Promises'
<1>1. /\ inBuf' = inBuf /\ air' = air /\ floor' = floor /\ got' = got /\ bootSeq' = bootSeq
      /\ floor \in Nat
  BY BoundAssumption DEF Report, phone, epoch, Core, TypeOK, PhoneType
<1>2. dropped \subseteq dropped'
  BY ReportFull, ReportRoom
<1>3. FirstBoot => 1 .. queueBaseSeq' - 1 \subseteq got' \cup dropped'
  <2> SUFFICES ASSUME FirstBoot, NEW s \in 1 .. queueBaseSeq' - 1, s \notin got
               PROVE  s \in dropped'
    BY <1>1
  <2>1. CASE ~Full
    BY <1>1, <2>1, ReportRoom DEF Promises, Settled
  <2>2. CASE Full
    <3>1. queueBaseSeq' = queueBaseSeq + 1 /\ dropped' = dropped \cup {queueBaseSeq}
      BY <2>2, ReportFull, FirstBase, CapAssumption
    <3>2. s \in 1 .. queueBaseSeq - 1 \/ s = queueBaseSeq
      BY <3>1, FirstBase
    <3> QED BY <3>1, <3>2 DEF Promises, Settled
  <2> QED BY <2>1, <2>2
<1>4. FirstBoot => 1 .. floor' - 1 \subseteq got' \cup dropped'
  BY <1>1, <1>2 DEF Promises, Settled
<1>5. FirstBoot' => FirstBoot
  BY <1>1 DEF FirstBoot
<1> QED BY <1>1, <1>2, <1>3, <1>4, <1>5, KeepPromises

\* A step that leaves the window, the phone and the boot alone, and adds at most
\* an ack of floor to the one buffer and a heartbeat of the base to the other.
LEMMA PromisesBuffers ==
  ASSUME Core, Promises,
         UNCHANGED <<queueBaseSeq, got, dropped, floor, bootSeq>>,
         FirstBoot => /\ \A c \in Elems(inBuf') :
                           c \in Elems(inBuf) \/ (c.cmd = "ack" => c.n = floor)
                      /\ \A m \in Elems(air') :
                           m \in Elems(air) \/ (m.kind = "beat" => m.seq = queueBaseSeq)
  PROVE  Promises'
<1>1. floor \in Nat
  BY BoundAssumption DEF Core, TypeOK, PhoneType
<1>2. FirstBoot' => FirstBoot
  BY DEF FirstBoot
<1>3. FirstBoot => /\ 1 .. queueBaseSeq' - 1 \subseteq got' \cup dropped'
                   /\ 1 .. floor' - 1 \subseteq got' \cup dropped'
                   /\ floor <= floor' /\ floor' \in Nat
  BY <1>1 DEF Promises, Settled
<1>4. FirstBoot => /\ \A c \in Elems(inBuf') :
                        c \in Elems(inBuf) \/ (c.cmd = "ack" => c.n <= floor')
                   /\ \A m \in Elems(air') :
                        m \in Elems(air) \/ (m.kind = "beat" =>
                             1 .. m.seq - 1 \subseteq got' \cup dropped')
  BY <1>1 DEF Promises, Settled
<1> QED BY <1>2, <1>3, <1>4, KeepPromises

\* handleLine: an ack frees settled numbers, a reply's heartbeat names one.
LEMMA PromisesHandle ==
  ASSUME Core, Promises, Handle
  PROVE  Promises'
<1>1. ASSUME NEW c, Line(c)
      PROVE  /\ Elems(inBuf') \subseteq Elems(inBuf) /\ Head(inBuf) \in Elems(inBuf)
             /\ floor' = floor /\ got' = got /\ bootSeq' = bootSeq
  BY <1>1, LineElems DEF Line, phone, epoch
<1>2. CASE HandleSync \/ HandleRefused
  BY <1>1, <1>2, PromisesBuffers DEF HandleSync, HandleRefused, ring
<1>3. CASE HandleHello \/ HandleRun \/ HandleSlot
  <2>1. FirstBoot => \A m \in Elems(air') :
          m \in Elems(air) \/ m.seq = queueBaseSeq
    BY <1>3, HeartbeatElems DEF HandleHello, HandleRun, HandleSlot
  <2>2. /\ Elems(inBuf') \subseteq Elems(inBuf)
        /\ UNCHANGED <<queueBaseSeq, got, dropped, floor, bootSeq>>
    BY <1>1, <1>3 DEF HandleHello, HandleRun, HandleSlot, ring
  <2> QED BY <2>1, <2>2, PromisesBuffers
<1>4. CASE HandleAck
  <2>1. /\ Elems(inBuf') \subseteq Elems(inBuf) /\ Head(inBuf) \in Elems(inBuf)
        /\ floor' = floor /\ got' = got /\ bootSeq' = bootSeq /\ dropped' = dropped
        /\ air' = air /\ floor \in Nat
    BY <1>1, <1>4, BoundAssumption DEF HandleAck, Core, TypeOK, PhoneType
  <2>2. FirstBoot => 1 .. queueBaseSeq' - 1 \subseteq got' \cup dropped'
    <3> SUFFICES ASSUME FirstBoot, NEW s \in 1 .. queueBaseSeq' - 1
                 PROVE  s \in got \cup dropped
      BY <2>1
    <3>1. s \in 1 .. queueBaseSeq - 1 \/ s \in 1 .. floor - 1
      BY <1>4, <2>1, AckFrees, FirstBase DEF Promises
    <3> QED BY <3>1 DEF Promises, Settled
  <2>3. FirstBoot => 1 .. floor' - 1 \subseteq got' \cup dropped'
    BY <2>1 DEF Promises, Settled
  <2>4. FirstBoot' => FirstBoot
    BY <2>1 DEF FirstBoot
  <2> QED BY <2>1, <2>2, <2>3, <2>4, KeepPromises
<1> QED BY <1>2, <1>3, <1>4 DEF Handle

\* What arrives is covered, so the phone may pass it.
LEMMA PromisesDeliver ==
  ASSUME Core, Promises, Deliver
  PROVE  Promises'
<1> DEFINE m   == Head(air)
           low == IF m.kind = "beat" /\ m.seq > floor THEN m.seq ELSE floor
<1>1. /\ Elems(air') \subseteq Elems(air) /\ m \in Elems(air) /\ m.seq \in Nat
      /\ inBuf' = inBuf /\ bootSeq' = bootSeq /\ queueBaseSeq' = queueBaseSeq
      /\ dropped' = dropped /\ got \subseteq got' /\ floor \in Nat
  <2>1. air \in Seq(Lines) /\ air # <<>> /\ Head(air) \in Lines /\ air' = Tail(air)
    BY DEF Deliver, Core, TypeOK, WireType
  <2>2. Elems(air') \subseteq Elems(air) /\ m \in Elems(air)
    BY <2>1, ElemsTail
  <2>3. m.seq \in Nat
    BY <2>1, BoundAssumption DEF Lines, Seqs
  <2>4. /\ inBuf' = inBuf /\ bootSeq' = bootSeq /\ queueBaseSeq' = queueBaseSeq
        /\ dropped' = dropped /\ got \subseteq got' /\ floor \in Nat
    BY BoundAssumption DEF Deliver, ring, epoch, Core, TypeOK, PhoneType
  <2> QED BY <2>2, <2>3, <2>4
<1>2. PICK n \in low .. MaxSeq + 1 : low .. n - 1 \subseteq got' /\ floor' = n
  BY DEF Deliver
<1>3. low \in Nat /\ floor <= low /\ n \in Nat /\ low <= n
  BY <1>1, <1>2, BoundAssumption
<1>4. FirstBoot => 1 .. low - 1 \subseteq got \cup dropped
  BY <1>1 DEF Promises, Settled
<1>5. FirstBoot => 1 .. floor' - 1 \subseteq got' \cup dropped'
  <2> SUFFICES ASSUME FirstBoot, NEW s \in 1 .. n - 1
               PROVE  s \in got' \cup dropped'
    BY <1>2
  <2>1. s \in 1 .. low - 1 \/ s \in low .. n - 1
    BY <1>3
  <2> QED BY <1>1, <1>2, <1>4, <2>1
<1>6. FirstBoot => 1 .. queueBaseSeq' - 1 \subseteq got' \cup dropped'
  BY <1>1 DEF Promises, Settled
<1>7. FirstBoot' => FirstBoot
  BY <1>1 DEF FirstBoot
<1>8. floor <= floor' /\ floor' \in Nat
  BY <1>1, <1>2, <1>3
<1> HIDE DEF m, low
<1> QED BY <1>1, <1>5, <1>6, <1>7, <1>8, KeepPromises

\* A write that is no ack promises nothing; an ack of floor is covered.
LEMMA PromisesWrite ==
  ASSUME Core, Promises, NEW c \in Commands, Write(c), c.cmd = "ack" => c.n = floor
  PROVE  Promises'
<1>1. \A d \in Elems(inBuf') : d \in Elems(inBuf) \/ (d.cmd = "ack" => d.n = floor)
  BY WriteElems
<1>2. air' = air /\ UNCHANGED <<queueBaseSeq, got, dropped, floor, bootSeq>>
  BY DEF Write, ring, phone, epoch
<1> QED BY <1>1, <1>2, PromisesBuffers

\* Every act of the phone.
LEMMA PromisesPhone ==
  ASSUME Core, Promises, PhoneHello \/ PhoneSync \/ PhoneAck \/ PhoneRun \/ PhoneSlot
  PROVE  Promises'
<1>1. CASE PhoneHello \/ PhoneSync
  BY <1>1, PhoneCommands, PromisesWrite DEF PhoneHello, PhoneSync, Hello, Sync
<1>2. CASE PhoneAck
  BY <1>2, PhoneCommands, PromisesWrite DEF PhoneAck, Ack
<1>3. CASE PhoneRun
  <2>1. PICK m \in {0, 1} : Write([cmd |-> "run", n |-> m])
    BY <1>3 DEF PhoneRun
  <2>2. [cmd |-> "run", n |-> m] \in Commands
    BY DEF Commands
  <2> QED BY <2>1, <2>2, PromisesWrite
<1>4. CASE PhoneSlot
  <2>1. [cmd |-> "slot", n |-> 0] \in Commands
    BY DEF Commands
  <2> QED BY <1>4, <2>1, PromisesWrite DEF PhoneSlot
<1> QED BY <1>1, <1>2, <1>3, <1>4

\* pumpUpload sends data, which promises nothing, and moves no base.
LEMMA PromisesPump ==
  ASSUME Core, Promises, Pump \/ TickBeat
  PROVE  Promises'
<1>1. inBuf' = inBuf /\ UNCHANGED <<queueBaseSeq, got, dropped, floor, bootSeq>>
  BY DEF Pump, PumpSkip, PumpEnter, PumpSend, PumpEnd, TickBeat, ring, phone, epoch
<1>2. CASE PumpSkip \/ PumpEnter \/ PumpEnd
  BY <1>1, <1>2, PromisesBuffers DEF PumpSkip, PumpEnter, PumpEnd
<1>3. CASE PumpSend
  <2>1. queue[PumpSlot] \in Seqs
    BY CursorType DEF Core, TypeOK, RingType
  <2>2. Elems(air') \subseteq Elems(air) \cup {[kind |-> "data", seq |-> queue[PumpSlot]]}
    BY <1>3, <2>1, NotifyElems DEF PumpSend
  <2>3. \A m \in Elems(air') : m \in Elems(air) \/ m.kind # "beat"
    BY <2>2
  <2> QED BY <1>1, <2>3, PromisesBuffers
<1>4. CASE TickBeat
  <2>1. FirstBoot => \A m \in Elems(air') : m \in Elems(air) \/ m.seq = queueBaseSeq
    BY <1>4, HeartbeatElems DEF TickBeat
  <2> QED BY <1>1, <2>1, PromisesBuffers
<1> QED BY <1>2, <1>3, <1>4 DEF Pump

\* The steps that only open or close a link, or pass time.
LEMMA PromisesIdle ==
  ASSUME Core, Promises, Connect \/ Disconnect \/ TickLines \/ Timers \/ UNCHANGED vars
  PROVE  Promises'
<1>1. /\ inBuf' = inBuf /\ (air' = air \/ air' = <<>>)
      /\ UNCHANGED <<queueBaseSeq, got, dropped, floor, bootSeq>>
  BY DEF Connect, Disconnect, TickLines, Timers, StallTimer, BeatTimer, vars, ring, phone, epoch
<1>2. Elems(<<>>) = {}
  BY DEF Elems
<1> QED BY <1>1, <1>2, PromisesBuffers

\* After a reboot that skipped numbers it is no first boot.
LEMMA PromisesReboot ==
  ASSUME Core, Promises, NvsInv, Reboot
  PROVE  Promises'
<1> SUFFICES ASSUME FirstBoot' PROVE Promises'
  BY DEF Promises
<1>1. nvs.space = "absent"
  BY ReserveAssumption DEF Reboot, FirstBoot, LoadSeq, Core, TypeOK, NvsType
<1>2. FirstBoot /\ dropped = {}
  BY <1>1 DEF NvsInv, FirstBoot
<1>3. Elems(inBuf') = {} /\ Elems(air') = {}
  BY DEF Reboot, Elems
<1>4. queueBaseSeq' = 1 /\ floor' = floor /\ got' = got /\ dropped' = {}
  BY DEF Reboot, phone
<1>5. 1 .. floor - 1 \subseteq got
  BY <1>2 DEF Promises, Settled
<1> QED BY <1>3, <1>4, <1>5 DEF Promises, Settled, Elems

\* Account is inductive beside Core.
LEMMA AccountStep == Core /\ Account /\ [Next]_vars => Account'
<1> SUFFICES ASSUME Core, Account, [Next]_vars PROVE Account'
  OBVIOUS
<1>1. Promises'
  <2> USE DEF Account
  <2>1. CASE Report
    BY <2>1, PromisesReport
  <2>2. CASE Handle \/ Pump \/ TickBeat
    BY <2>2, PromisesHandle, PromisesPump
  <2>3. CASE Deliver \/ PhoneHello \/ PhoneSync \/ PhoneAck \/ PhoneRun \/ PhoneSlot
    BY <2>3, PromisesDeliver, PromisesPhone
  <2>4. CASE Connect \/ Disconnect \/ TickLines \/ Timers \/ UNCHANGED vars
    BY <2>4, PromisesIdle
  <2>5. CASE Reboot
    BY <2>5, PromisesReboot
  <2> QED BY <2>1, <2>2, <2>3, <2>4, <2>5
          DEF Next, Running, Tick, Phone, Host, ReportAP, ReportBT
<1> QED BY <1>1, NvsStep, DropStep DEF Account

\* On a first boot no sighting vanishes: each is queued, with the phone, or counted
\* in _lost (queueSighting, the ack loop, sendHeartbeat).
THEOREM SightingsAccounted == Spec => []AllAccounted
BY CoreInit, CoreStep, AccountInit, AccountStep, AccountImplies, PTL DEF Spec

\* On a first boot the pump sends the sighting its cursor names, so every number
\* in flight is one that was captured.
DataInv == \A m \in Elems(air) : m.kind = "data" => m.seq \in 1 .. seqNext - 1

\* The sighting the pump sends is the one its cursor names.
LEMMA PumpSendsCursor ==
  ASSUME Core, FirstBoot, RingOrder, PumpSend
  PROVE  queue[PumpSlot] = PumpCursor /\ PumpCursor \in 1 .. seqNext - 1
<1>1. PumpCursor < seqNext /\ PumpCursor \in Nat /\ PumpCursor >= queueBaseSeq
  BY CursorType DEF PumpSend
<1>2. queueBaseSeq >= 1
  BY DEF Core, TypeOK, RingType
<1>3. PumpCursor - queueBaseSeq \in 0 .. qCount - 1
  BY <1>1, FirstBase
<1>4. queue[PumpSlot] = seqNext - qCount + (PumpCursor - queueBaseSeq)
  BY <1>3 DEF RingOrder, PumpSlot
<1> QED BY <1>1, <1>2, <1>4, FirstBase

\* Data in flight names captured sightings.
LEMMA DataStep ==
  Core /\ FirstBoot /\ RingOrder /\ DataInv /\ [Running]_vars => DataInv'
<1> SUFFICES ASSUME Core, FirstBoot, RingOrder, DataInv, [Running]_vars PROVE DataInv'
  OBVIOUS
<1>1. seqNext \in Nat /\ seqNext' \in Nat /\ seqNext <= seqNext'
  <2>1. seqNext \in Nat
    BY FirstBase
  <2>2. CASE Report
    BY <2>1, <2>2 DEF Report
  <2>3. CASE UNCHANGED seqNext
    BY <2>1, <2>3
  <2>4. CASE Handle
    BY <2>3, <2>4 DEF Handle, HandleSync, HandleHello, HandleRefused, HandleAck, HandleRun, HandleSlot
  <2>5. CASE Pump \/ TickBeat \/ TickLines \/ Timers
    BY <2>3, <2>5 DEF Pump, PumpSkip, PumpEnter, PumpSend, PumpEnd, TickBeat, TickLines, Timers,
       StallTimer, BeatTimer
  <2>6. CASE PhoneHello \/ PhoneSync \/ PhoneAck \/ PhoneRun \/ PhoneSlot \/ Deliver
    BY <2>3, <2>6 DEF PhoneHello, PhoneSync, PhoneAck, PhoneRun, PhoneSlot, Deliver, Write
  <2>7. CASE Connect \/ Disconnect \/ UNCHANGED vars
    BY <2>3, <2>7 DEF Connect, Disconnect, vars
  <2> QED BY <2>2, <2>4, <2>5, <2>6, <2>7 DEF Running, Tick, Phone, Host, ReportAP, ReportBT
<1>2. ASSUME \A m \in Elems(air') : m \in Elems(air) \/ m.kind # "data"
      PROVE  DataInv'
  BY <1>1, <1>2 DEF DataInv, Elems
<1>3. ASSUME NEW p, Heartbeat(p)
      PROVE  \A m \in Elems(air') : m \in Elems(air) \/ m.kind # "data"
  <2>1. (IF qCount > 0 THEN queueBaseSeq ELSE seqNext) \in Seqs
    BY FirstBase, BoundAssumption DEF Core, TypeOK, UploadType, Seqs
  <2>2. PICK s \in Seqs : Elems(air') \subseteq Elems(air) \cup {[kind |-> "beat", seq |-> s]}
    BY <1>3, <2>1, NotifyElems DEF Heartbeat
  <2> QED BY <2>2
<1>4. CASE UNCHANGED air \/ air' = <<>>
  BY <1>2, <1>4 DEF Elems
<1>5. CASE Deliver
  <2>1. Elems(air') \subseteq Elems(air)
    BY <1>5, ElemsTail DEF Deliver, Core, TypeOK, WireType
  <2> QED BY <1>2, <2>1
<1>6. CASE HandleHello \/ HandleRun \/ HandleSlot
  BY <1>2, <1>3, <1>6 DEF HandleHello, HandleRun, HandleSlot
<1>7. CASE TickBeat
  BY <1>2, <1>3, <1>4, <1>7 DEF TickBeat
<1>8. CASE PumpSend
  <2>1. queue[PumpSlot] \in Seqs /\ queue[PumpSlot] \in 1 .. seqNext - 1
    BY <1>8, PumpSendsCursor, CursorType DEF Core, TypeOK, RingType
  <2>2. Elems(air') \subseteq Elems(air) \cup {[kind |-> "data", seq |-> queue[PumpSlot]]}
    BY <1>8, <2>1, NotifyElems DEF PumpSend
  <2>3. \A m \in Elems(air') : m \in Elems(air) \/ m.seq \in 1 .. seqNext - 1
    BY <2>1, <2>2
  <2>4. seqNext' = seqNext
    BY <1>8 DEF PumpSend
  <2> QED BY <2>3, <2>4 DEF DataInv, Elems
<1>9. CASE Report
  BY <1>4, <1>9 DEF Report
<1>10. CASE HandleSync \/ HandleRefused \/ HandleAck \/ PumpSkip \/ PumpEnter \/ PumpEnd
  BY <1>4, <1>10 DEF HandleSync, HandleRefused, HandleAck, PumpSkip, PumpEnter, PumpEnd
<1>11. CASE PhoneHello \/ PhoneSync \/ PhoneAck \/ PhoneRun \/ PhoneSlot
  BY <1>4, <1>11 DEF PhoneHello, PhoneSync, PhoneAck, PhoneRun, PhoneSlot, Write
<1>12. CASE Connect \/ Disconnect \/ TickLines \/ Timers \/ UNCHANGED vars
  BY <1>4, <1>12 DEF Connect, Disconnect, TickLines, Timers, StallTimer, BeatTimer, vars
<1> QED BY <1>5, <1>6, <1>7, <1>8, <1>9, <1>10, <1>11, <1>12
        DEF Running, Tick, Handle, Pump, Phone, Host, ReportAP, ReportBT

FirstInv == Core /\ Account /\ RingOrder /\ DataInv /\ FirstBoot

\* The invariant of a first boot holds when it starts.
LEMMA FirstInit == Init => FirstInv
<1> SUFFICES ASSUME Init PROVE FirstInv
  OBVIOUS
<1>1. RingOrder /\ DataInv /\ FirstBoot
  BY DEF Init, RingOrder, DataInv, Elems, FirstBoot
<1> QED BY <1>1, CoreInit, AccountInit DEF FirstInv

\* Without a reboot it stays the first boot.
LEMMA BootStays == Running => UNCHANGED bootSeq
<1>1. Report => UNCHANGED bootSeq
  BY DEF Report, epoch
<1>2. Handle => UNCHANGED bootSeq
  BY DEF Handle, HandleSync, HandleHello, HandleRefused, HandleAck, HandleRun, HandleSlot, Line, epoch
<1>3. Pump \/ TickBeat \/ TickLines \/ Timers => UNCHANGED bootSeq
  BY DEF Pump, PumpSkip, PumpEnter, PumpSend, PumpEnd, TickBeat, TickLines, Timers, StallTimer,
         BeatTimer, epoch
<1>4. Phone => UNCHANGED bootSeq
  BY DEF Phone, PhoneHello, PhoneSync, PhoneAck, PhoneRun, PhoneSlot, Deliver, Write, epoch
<1>5. Connect \/ Disconnect => UNCHANGED bootSeq
  BY DEF Connect, Disconnect, epoch
<1> QED BY <1>1, <1>2, <1>3, <1>4, <1>5 DEF Running, Tick, Host, ReportAP, ReportBT

\* And the invariant with it.
LEMMA FirstStep == FirstInv /\ [Running]_vars => FirstInv'
<1> SUFFICES ASSUME FirstInv, [Running]_vars PROVE FirstInv'
  OBVIOUS
<1>1. [Next]_vars
  BY DEF Next
<1>2. Core' /\ Account' /\ RingOrder'
  BY <1>1, CoreStep, AccountStep, RingStep DEF FirstInv
<1>3. DataInv'
  BY DataStep DEF FirstInv
<1>4. UNCHANGED bootSeq
  BY BootStays DEF vars, epoch
<1>5. FirstBoot'
  BY <1>4 DEF FirstInv, FirstBoot
<1> QED BY <1>2, <1>3, <1>5 DEF FirstInv

\* How a step of a first boot moves the window: not at all, by a capture, by an
\* overflow or by an ack.
LEMMA WindowMoves ==
  ASSUME FirstInv, [Running]_vars
  PROVE  \/ UNCHANGED <<queueBaseSeq, seqNext, dropped, lost, qCount>>
         \/ Report
         \/ HandleAck
<1>1. Handle => HandleAck \/ UNCHANGED <<queueBaseSeq, seqNext, dropped, lost, qCount>>
  BY DEF Handle, HandleSync, HandleHello, HandleRefused, HandleRun, HandleSlot, ring
<1>2. Pump \/ TickBeat \/ TickLines \/ Timers
        => UNCHANGED <<queueBaseSeq, seqNext, dropped, lost, qCount>>
  BY DEF Pump, PumpSkip, PumpEnter, PumpSend, PumpEnd, TickBeat, TickLines, Timers, StallTimer,
         BeatTimer, ring
<1>3. Phone => UNCHANGED <<queueBaseSeq, seqNext, dropped, lost, qCount>>
  BY DEF Phone, PhoneHello, PhoneSync, PhoneAck, PhoneRun, PhoneSlot, Deliver, Write, ring
<1>4. Connect \/ Disconnect \/ UNCHANGED vars
        => UNCHANGED <<queueBaseSeq, seqNext, dropped, lost, qCount>>
  BY DEF Connect, Disconnect, vars, ring
<1> QED BY <1>1, <1>2, <1>3, <1>4 DEF Running, Tick, Host, ReportAP, ReportBT

\* "ack/delete": until a reboot, a sighting leaves the queue only when the phone
\* acknowledged it or a newer one pushed it out of a full queue (the ack loop).
THEOREM FreedAreAcked == FirstBootSpec => OnlyAckedFreed
<1> DEFINE Freeing == \A s \in Queued \ Queued' :
                        boots' # boots \/ s < ackedBefore' \/ lost' = lost + 1
<1>1. FirstInv /\ FirstInv' /\ [Running]_vars => [Freeing]_vars
  <2> SUFFICES ASSUME FirstInv, FirstInv', [Running]_vars,
                      NEW s \in Queued, s \notin Queued'
               PROVE  s < ackedBefore' \/ lost' = lost + 1
    OBVIOUS
  <2>1. CASE UNCHANGED <<queueBaseSeq, seqNext, dropped, lost, qCount>>
    BY <2>1 DEF Queued
  <2>2. CASE Report
    <3>1. CASE Full
      BY <3>1, <2>2, ReportFull DEF FirstInv
    <3>2. CASE ~Full
      BY <3>2, <2>2, ReportRoom, FirstBase DEF FirstInv, Queued, Report
    <3> QED BY <3>1, <3>2
  <2>3. CASE HandleAck
    <3>1. seqNext' = seqNext
      BY <2>3 DEF HandleAck
    <3>2. queueBaseSeq' \in queueBaseSeq .. seqNext /\ qCount' = seqNext - queueBaseSeq'
      BY <2>3, AckFrees DEF FirstInv
    <3>3. /\ seqNext \in Nat /\ queueBaseSeq \in Nat /\ queueBaseSeq' \in Nat
          /\ seqNext - qCount = queueBaseSeq /\ seqNext' - qCount' = queueBaseSeq'
      BY <3>1, <3>2, FirstBase DEF FirstInv
    <3>4. s \in queueBaseSeq .. seqNext - 1 /\ s \notin queueBaseSeq' .. seqNext - 1
      BY <3>1, <3>3 DEF Queued
    <3>5. s \in Nat /\ s < queueBaseSeq' /\ queueBaseSeq' # queueBaseSeq
      BY <3>3, <3>4
    <3>6. queueBaseSeq' <= ackedBefore' /\ ackedBefore' \in Nat
      BY <2>3, <3>5, AckFrees DEF FirstInv
    <3> QED BY <3>3, <3>5, <3>6
  <2> QED BY <2>1, <2>2, <2>3, WindowMoves
<1> QED BY FirstInit, FirstStep, <1>1, PTL DEF FirstBootSpec, OnlyAckedFreed, Freeing

\* The queue of a first boot implements SightingLedger: with base, next number and
\* the phone's sightings for its window, every step is one of the ledger's.
THEOREM QueueKeepsLedger == FirstBootSpec => KeepsLedger
<1>1. Init => Ledger!LedgerInit
  BY DEF Init, Ledger!LedgerInit
<1>2. FirstInv /\ FirstInv' /\ [Running]_vars => [Ledger!LedgerNext]_(Ledger!lvars)
  <2> SUFFICES ASSUME FirstInv, FirstInv', [Running]_vars
               PROVE  [Ledger!LedgerNext]_(Ledger!lvars)
    OBVIOUS
  <2> USE DEF Ledger!LedgerNext, Ledger!lvars
  <2>1. /\ seqNext \in Nat /\ queueBaseSeq \in Nat /\ qCount \in Nat
        /\ seqNext - queueBaseSeq = qCount
    BY FirstBase DEF FirstInv
  <2>2. CASE Report
    <3>1. seqNext' = seqNext + 1 /\ got' = got
      BY <2>2 DEF Report, phone
    <3>2. CASE Full
      BY <2>1, <2>2, <3>1, <3>2, ReportFull DEF FirstInv, Ledger!Overflow
    <3>3. CASE ~Full
      BY <2>1, <2>2, <3>1, <3>3, ReportRoom DEF FirstInv, Ledger!Capture
    <3> QED BY <3>2, <3>3
  <2>3. CASE HandleAck
    <3>1. seqNext' = seqNext /\ got' = got /\ dropped' = dropped
      BY <2>3 DEF HandleAck, Line, phone
    <3>2. queueBaseSeq' \in queueBaseSeq .. seqNext
      BY <2>3, AckFrees DEF FirstInv
    <3>3. CASE queueBaseSeq' = queueBaseSeq
      BY <3>1, <3>3
    <3>4. CASE queueBaseSeq' # queueBaseSeq
      <4>1. queueBaseSeq' \in queueBaseSeq + 1 .. seqNext
        BY <2>1, <3>2, <3>4
      <4>2. 1 .. queueBaseSeq' - 1 \subseteq got \cup dropped
        BY <3>1 DEF FirstInv, Account, Promises, Settled
      <4>3. queueBaseSeq >= 1
        BY DEF FirstInv, Core, TypeOK, RingType
      <4>4. queueBaseSeq .. queueBaseSeq' - 1 \subseteq got \cup dropped
        <5>1. \A a, b \in Nat : a >= 1 => a .. b - 1 \subseteq 1 .. b - 1
          OBVIOUS
        <5>2. queueBaseSeq' \in Nat
          BY <2>1, <3>2
        <5> QED BY <2>1, <4>2, <4>3, <5>1, <5>2
      <4> QED BY <3>1, <4>1, <4>4 DEF Ledger!Release
    <3> QED BY <3>3, <3>4
  <2>4. CASE Deliver
    <3>1. UNCHANGED <<queueBaseSeq, seqNext, dropped>>
      BY <2>4 DEF Deliver, ring
    <3>2. Head(air) \in Elems(air)
      BY <2>4, ElemsTail DEF Deliver, FirstInv, Core, TypeOK, WireType
    <3>3. got' = got \/ (Head(air).kind = "data" /\ got' = got \cup {Head(air).seq})
      BY <2>4 DEF Deliver
    <3>4. got' = got \/ \E s \in 1 .. seqNext - 1 : got' = got \cup {s}
      BY <3>2, <3>3 DEF FirstInv, DataInv
    <3> QED BY <3>1, <3>4 DEF Ledger!Receive
  <2>5. CASE ~Report /\ ~HandleAck /\ ~Deliver
    <3>1. UNCHANGED <<queueBaseSeq, seqNext, dropped>>
      BY <2>5, WindowMoves
    <3>2. UNCHANGED got
      <4>1. Handle => UNCHANGED got
        BY DEF Handle, HandleSync, HandleHello, HandleRefused, HandleAck, HandleRun, HandleSlot,
               Line, phone
      <4>2. Pump \/ TickBeat \/ TickLines \/ Timers => UNCHANGED got
        BY DEF Pump, PumpSkip, PumpEnter, PumpSend, PumpEnd, TickBeat, TickLines, Timers,
               StallTimer, BeatTimer, phone
      <4>3. PhoneHello \/ PhoneSync \/ PhoneAck \/ PhoneRun \/ PhoneSlot => UNCHANGED got
        BY DEF PhoneHello, PhoneSync, PhoneAck, PhoneRun, PhoneSlot, Write, phone
      <4>4. Connect \/ Disconnect \/ UNCHANGED vars => UNCHANGED got
        BY DEF Connect, Disconnect, vars, phone
      <4> QED BY <2>5, <4>1, <4>2, <4>3, <4>4
              DEF Running, Tick, Phone, Host, ReportAP, ReportBT
    <3> QED BY <3>1, <3>2
  <2> QED BY <2>2, <2>3, <2>4, <2>5
<1> QED BY FirstInit, FirstStep, <1>1, <1>2, PTL
        DEF FirstBootSpec, KeepsLedger, Ledger!LedgerSpec
=============================================================================
