----------------------- MODULE SwarmQueueNumberProofs -----------------------
(***************************************************************************)
(* The sequence numbers of the sighting queue: which the pump sends, which *)
(* an ack frees and which a reboot hands out again.                        *)
(*                                                                         *)
(* NoneSkipped needs to know that nothing acknowledged is still queued     *)
(* (AckedBelow), because a hello takes the cursor back to the acks; and    *)
(* that needs CapturedOnly, because only then does no ack name more than   *)
(* was captured.  SeqSetBack needs Reserved: how far the numbers in use    *)
(* may run before reserveSeq has stored the next block.                    *)
(***************************************************************************)
EXTENDS SwarmQueueProofs, SequenceTheorems

---------------------------------------------------------------------------
(* No sighting is skipped by the pump. *)

\* Appending and taking the first element change what a buffer holds by one.
LEMMA ElemsKept ==
  ASSUME NEW S, NEW q \in Seq(S)
  PROVE  /\ \A e \in S : Elems(q) \subseteq Elems(Append(q, e)) /\ e \in Elems(Append(q, e))
         /\ q # <<>> => Elems(q) \subseteq Elems(Tail(q)) \cup {Head(q)}
<1>1. ASSUME NEW e \in S
      PROVE  Elems(q) \subseteq Elems(Append(q, e)) /\ e \in Elems(Append(q, e))
  <2>1. /\ DOMAIN Append(q, e) = 1 .. Len(q) + 1 /\ DOMAIN q = 1 .. Len(q) /\ Len(q) \in Nat
        /\ \A i \in 1 .. Len(q) : Append(q, e)[i] = q[i]
        /\ Append(q, e)[Len(q) + 1] = e
    OBVIOUS
  <2> QED BY <2>1 DEF Elems
<1>2. ASSUME q # <<>>
      PROVE  Elems(q) \subseteq Elems(Tail(q)) \cup {Head(q)}
  <2>1. /\ Len(q) \in Nat \ {0} /\ Head(q) = q[1] /\ DOMAIN q = 1 .. Len(q)
        /\ DOMAIN Tail(q) = 1 .. Len(q) - 1
        /\ \A i \in 1 .. Len(q) - 1 : Tail(q)[i] = q[i + 1]
    <3>1. Len(q) \in Nat \ {0} /\ Head(q) = q[1] /\ DOMAIN q = 1 .. Len(q)
      BY <1>2
    <3>2. /\ Tail(q) \in Seq(S) /\ Len(Tail(q)) = Len(q) - 1
          /\ \A i \in 1 .. Len(Tail(q)) : Tail(q)[i] = q[i + 1]
      BY <1>2, HeadTailProperties
    <3>3. DOMAIN Tail(q) = 1 .. Len(Tail(q))
      BY <3>2
    <3> QED BY <3>1, <3>2, <3>3
  <2> SUFFICES ASSUME NEW i \in 1 .. Len(q) PROVE q[i] \in Elems(Tail(q)) \cup {Head(q)}
    BY <2>1 DEF Elems
  <2>2. CASE i = 1
    BY <2>1, <2>2
  <2>3. CASE i # 1
    <3>1. i - 1 \in 1 .. Len(q) - 1 /\ i - 1 + 1 = i
      BY <2>1, <2>3
    <3>2. i - 1 \in DOMAIN Tail(q) /\ Tail(q)[i - 1] = q[i]
      BY <2>1, <3>1
    <3> QED BY <3>2 DEF Elems
  <2> QED BY <2>2, <2>3
<1> QED BY <1>1, <1>2

\* InAir is what the data among the elements of air says.
LEMMA InAirElems ==
  /\ InAir = {m.seq : m \in {e \in Elems(air) : e.kind = "data"}}
  /\ InAir' = {m.seq : m \in {e \in Elems(air') : e.kind = "data"}}
BY DEF InAir, Elems

\* On a first boot the phone has, or will get, only what was captured.
CapturedOnly == FirstBoot => DataInv /\ got \subseteq 1 .. seqNext - 1

\* ... and acknowledges nothing that is still held.
AckedBelow == FirstBoot => ackedBefore <= queueBaseSeq

SkipInv == CapturedOnly /\ AckedBelow /\ NoneSkipped

\* Hence it counts no number as settled that was not handed out.
LEMMA FloorBound ==
  ASSUME Core, Account, CapturedOnly, FirstBoot
  PROVE  floor <= seqNext
<1>1. /\ floor \in Nat \ {0} /\ seqNext \in Nat \ {0} /\ qCount \in Nat
  BY CapAssumption, BoundAssumption DEF Core, TypeOK, PhoneType, UploadType, RingType
<1>2. SUFFICES ASSUME floor > seqNext PROVE FALSE
  BY <1>1
<1>3. floor - 1 \in 1 .. floor - 1 /\ floor - 1 >= seqNext
  BY <1>1, <1>2
<1>4. floor - 1 \in got \cup dropped
  BY <1>3 DEF Account, Promises, Settled
<1> QED BY <1>1, <1>3, <1>4 DEF CapturedOnly, Account, DropInv


\* Numbers are handed out upwards while the power stays on.
LEMMA SeqGrows ==
  ASSUME Core, [Running]_vars
  PROVE  seqNext \in Nat /\ seqNext' \in Nat /\ seqNext <= seqNext'
<1>1. seqNext \in Nat
  BY BoundAssumption DEF Core, TypeOK, UploadType
<1>2. CASE Report
  BY <1>1, <1>2 DEF Report
<1>3. Handle => UNCHANGED seqNext
  BY DEF Handle, HandleSync, HandleHello, HandleRefused, HandleAck, HandleRun, HandleSlot
<1>4. Pump \/ TickBeat \/ TickLines \/ Timers => UNCHANGED seqNext
  BY DEF Pump, PumpSkip, PumpEnter, PumpSend, PumpEnd, TickBeat, TickLines, Timers,
         StallTimer, BeatTimer
<1>5. Phone => UNCHANGED seqNext
  BY DEF Phone, PhoneHello, PhoneSync, PhoneAck, PhoneRun, PhoneSlot, Deliver, Write
<1>6. Connect \/ Disconnect \/ UNCHANGED vars => UNCHANGED seqNext
  BY DEF Connect, Disconnect, vars
<1> QED BY <1>1, <1>2, <1>3, <1>4, <1>5, <1>6 DEF Running, Tick, Host, ReportAP, ReportBT

\* Only a delivery adds to what the phone has, and only what was in flight.
LEMMA GotGrows ==
  ASSUME Core, [Next]_vars
  PROVE  \/ got' = got
         \/ Deliver /\ Head(air) \in Elems(air) /\ Head(air).kind = "data"
                    /\ got' = got \cup {Head(air).seq}
<1>1. Report \/ Reboot => UNCHANGED got
  BY DEF Report, Reboot, phone
<1>2. Handle => UNCHANGED got
  BY DEF Handle, HandleSync, HandleHello, HandleRefused, HandleAck, HandleRun, HandleSlot, Line, phone
<1>3. Pump \/ TickBeat \/ TickLines \/ Timers => UNCHANGED got
  BY DEF Pump, PumpSkip, PumpEnter, PumpSend, PumpEnd, TickBeat, TickLines, Timers, StallTimer,
         BeatTimer, phone
<1>4. PhoneHello \/ PhoneSync \/ PhoneAck \/ PhoneRun \/ PhoneSlot => UNCHANGED got
  BY DEF PhoneHello, PhoneSync, PhoneAck, PhoneRun, PhoneSlot, Write, phone
<1>5. Connect \/ Disconnect \/ UNCHANGED vars => UNCHANGED got
  BY DEF Connect, Disconnect, vars, phone
<1>6. Deliver => Head(air) \in Elems(air)
  BY ElemsTail DEF Deliver, Core, TypeOK, WireType
<1>7. Deliver => got' = got \/ (Head(air).kind = "data" /\ got' = got \cup {Head(air).seq})
  BY DEF Deliver
<1> QED BY <1>1, <1>2, <1>3, <1>4, <1>5, <1>6, <1>7
        DEF Next, Running, Tick, Phone, Host, ReportAP, ReportBT

\* The phone never hears of a number before it is used.
LEMMA CapturedStep ==
  ASSUME Core, Account, RingOrder, CapturedOnly, [Next]_vars
  PROVE  CapturedOnly'
<1> SUFFICES ASSUME FirstBoot' PROVE DataInv' /\ got' \subseteq 1 .. seqNext' - 1
  BY DEF CapturedOnly
<1>1. CASE Reboot
  <2>1. nvs.space = "absent"
    BY <1>1, ReserveAssumption DEF Reboot, FirstBoot, LoadSeq, Core, TypeOK, NvsType
  <2>2. got = {} /\ got' = got
    BY <1>1, <2>1 DEF Account, NvsInv, CapturedOnly, FirstBoot, Reboot, phone
  <2>3. DataInv'
    BY <1>1 DEF Reboot, DataInv, Elems
  <2> QED BY <2>2, <2>3
<1>2. CASE [Running]_vars
  <2>1. FirstBoot
    BY <1>2, BootStays DEF FirstBoot, vars, epoch
  <2>2. DataInv'
    BY <1>2, <2>1, DataStep DEF CapturedOnly
  <2>3. got' \subseteq 1 .. seqNext - 1
    BY <2>1, GotGrows DEF CapturedOnly, DataInv
  <2> QED BY <1>2, <2>2, <2>3, SeqGrows
<1> QED BY <1>1, <1>2 DEF Next

\* An ack names no number above what was handed out, so it ends at the new base.
LEMMA AckLands ==
  ASSUME Core, Account, CapturedOnly, FirstBoot, HandleAck
  PROVE  /\ Head(inBuf).n \in Nat
         /\ Head(inBuf).n <= ackedBefore =>
              UNCHANGED <<queueBaseSeq, qCount, ackedBefore, sendCursor>>
         /\ Head(inBuf).n > ackedBefore =>
              /\ ackedBefore' = Head(inBuf).n
              /\ queueBaseSeq' >= Head(inBuf).n
              /\ sendCursor' = Max2(sendCursor, Head(inBuf).n)
         /\ queueBaseSeq' \in Nat /\ queueBaseSeq' >= queueBaseSeq
<1> DEFINE n == Head(inBuf).n
<1>1. n \in Nat /\ queueBaseSeq' \in Nat /\ queueBaseSeq' >= queueBaseSeq
  BY AckFrees, FirstBase
<1>2. ackedBefore \in Nat /\ sendCursor \in Nat
  BY BoundAssumption DEF Core, TypeOK, UploadType, Seqs
<1>3. n <= seqNext
  <2>1. Head(inBuf) \in Elems(inBuf) /\ Head(inBuf).cmd = "ack"
    BY LineElems, AckFrees DEF HandleAck
  <2>2. n <= floor
    BY <2>1 DEF Account, Promises
  <2>3. floor \in Nat /\ floor <= seqNext
    BY FloorBound, BoundAssumption DEF Core, TypeOK, PhoneType
  <2> QED BY <1>1, <2>2, <2>3, FirstBase
<1>4. CASE n > ackedBefore
  <2>1. /\ queueBaseSeq' = queueBaseSeq + Freed(n) /\ ackedBefore' = n
        /\ sendCursor' = IF sendCursor < n THEN n ELSE sendCursor
    BY <1>4 DEF HandleAck
  <2>2. queueBaseSeq + Freed(n) >= n
    BY <1>1, <1>3, FirstBase DEF Freed
  <2> QED BY <1>1, <1>2, <1>4, <2>1, <2>2 DEF Max2
<1>5. CASE ~(n > ackedBefore)
  BY <1>1, <1>2, <1>5 DEF HandleAck
<1> QED BY <1>1, <1>2, <1>4, <1>5

\* What was acknowledged has left the queue, whatever is pushed out or resent.
LEMMA AckedBelowStep ==
  ASSUME Core, Account, CapturedOnly, AckedBelow, [Next]_vars
  PROVE  AckedBelow'
<1> SUFFICES ASSUME FirstBoot' PROVE ackedBefore' <= queueBaseSeq'
  BY DEF AckedBelow
<1>1. CASE Reboot
  BY <1>1 DEF Reboot, FirstBoot
<1> SUFFICES ASSUME [Running]_vars PROVE ackedBefore' <= queueBaseSeq'
  BY <1>1 DEF Next
<1>2. FirstBoot /\ ackedBefore <= queueBaseSeq /\ ackedBefore \in Nat /\ queueBaseSeq \in Nat
  BY BootStays, BoundAssumption DEF FirstBoot, vars, epoch, AckedBelow, Core, TypeOK, UploadType,
     RingType, Seqs
<1>3. CASE Report
  <2>1. ackedBefore' = ackedBefore
    BY <1>3 DEF Report, upload
  <2>2. queueBaseSeq' = queueBaseSeq \/ queueBaseSeq' = queueBaseSeq + 1
    BY <1>3, ReportFull, ReportRoom
  <2> QED BY <1>2, <2>1, <2>2
<1>4. CASE HandleAck
  BY <1>2, <1>4, AckLands
<1>5. CASE UNCHANGED <<queueBaseSeq, ackedBefore>>
  BY <1>2, <1>5
<1>6. Handle => HandleAck \/ UNCHANGED <<queueBaseSeq, ackedBefore>>
  BY DEF Handle, HandleSync, HandleHello, HandleRefused, HandleRun, HandleSlot, ring, upload
<1>7. Pump \/ TickBeat \/ TickLines \/ Timers => UNCHANGED <<queueBaseSeq, ackedBefore>>
  BY DEF Pump, PumpSkip, PumpEnter, PumpSend, PumpEnd, TickBeat, TickLines, Timers, StallTimer,
         BeatTimer, ring, upload
<1>8. Phone => UNCHANGED <<queueBaseSeq, ackedBefore>>
  BY DEF Phone, PhoneHello, PhoneSync, PhoneAck, PhoneRun, PhoneSlot, Deliver, Write, ring, upload
<1>9. Connect \/ Disconnect \/ UNCHANGED vars => UNCHANGED <<queueBaseSeq, ackedBefore>>
  BY DEF Connect, Disconnect, vars, ring, upload
<1> QED BY <1>3, <1>4, <1>5, <1>6, <1>7, <1>8, <1>9
        DEF Running, Tick, Host, ReportAP, ReportBT

\* A notification takes nothing out of the air, and is in it once the stack took it.
LEMMA NotifyKeeps ==
  ASSUME Core, NEW p, NEW k \in {"data", "beat"}, NEW s \in Seqs, Notify(p, k, s)
  PROVE  /\ InAir \subseteq InAir'
         /\ k = "data" /\ Delivers(p) => s \in InAir'
<1>1. [kind |-> k, seq |-> s] \in Lines /\ air \in Seq(Lines)
  BY DEF Lines, Core, TypeOK, WireType
<1>2. Elems(air) \subseteq Elems(air')
  BY <1>1, ElemsKept DEF Notify
<1>3. Delivers(p) => [kind |-> k, seq |-> s] \in Elems(air')
  BY <1>1, ElemsKept DEF Notify
<1> QED BY <1>2, <1>3, InAirElems

\* Nor does a heartbeat.
LEMMA HeartbeatKeeps ==
  ASSUME Core, NEW p, Heartbeat(p)
  PROVE  InAir \subseteq InAir'
<1>1. queueBaseSeq \in Seqs /\ seqNext \in Seqs
  BY BoundAssumption DEF Core, TypeOK, RingType, UploadType, NvsType, BaseLag, Seqs
<1>2. (IF qCount > 0 THEN queueBaseSeq ELSE seqNext) \in Seqs
  BY <1>1
<1> QED BY <1>2, NotifyKeeps DEF Heartbeat

\* On a first boot the queue holds the numbers from the base on.
LEMMA QueuedFromBase ==
  ASSUME Core, FirstBoot
  PROVE  Queued = queueBaseSeq .. seqNext - 1
BY FirstBase DEF Queued

\* A step after which the cursor is past nothing that is queued but what it was
\* past before, and after which nothing sent is gone.
LEMMA SkipFrame ==
  ASSUME NoneSkipped, FirstBoot' => FirstBoot, connected' /\ proven' => connected /\ proven,
         FirstBoot /\ connected /\ proven =>
           \A s \in Queued' : s < sendCursor' => s \in Queued /\ s < sendCursor,
         got \cup InAir \subseteq got' \cup InAir'
  PROVE  NoneSkipped'
<1> SUFFICES ASSUME NIMBLE2, FirstBoot', connected', proven', NEW s \in Queued', s < sendCursor'
             PROVE  s \in got' \cup InAir'
  BY DEF NoneSkipped
<1>1. s \in Queued /\ s < sendCursor
  OBVIOUS
<1> QED BY <1>1 DEF NoneSkipped

\* A step that touches neither queue nor cursor, and no air but by a heartbeat.
LEMMA SkipIdle ==
  ASSUME NoneSkipped, UNCHANGED <<bootSeq, seqNext, qCount, sendCursor, got>>,
         connected' /\ proven' => connected /\ proven, InAir \subseteq InAir'
  PROVE  NoneSkipped'
BY SkipFrame DEF FirstBoot, Queued

\* pumpUpload: the cursor advances by one, past the sighting that was sent.
LEMMA SkipPump ==
  ASSUME Core, RingOrder, SkipInv, Pump
  PROVE  NoneSkipped'
<1> USE DEF SkipInv
<1>1. /\ UNCHANGED <<bootSeq, seqNext, qCount, queueBaseSeq, got, connected, proven, ackedBefore>>
      /\ Queued' = Queued /\ FirstBoot' = FirstBoot
  BY DEF Pump, PumpSkip, PumpEnter, PumpSend, PumpEnd, epoch, ring, phone, link, upload, Queued,
         FirstBoot
<1>2. sendCursor \in Nat /\ ackedBefore \in Nat /\ queueBaseSeq \in Nat
  BY BoundAssumption DEF Core, TypeOK, UploadType, RingType, Seqs
<1>3. FirstBoot => \A s \in Queued : s \in Nat /\ s >= queueBaseSeq
  BY FirstBase, QueuedFromBase
<1>4. CASE PumpSkip
  BY <1>1, <1>4, SkipIdle DEF PumpSkip, upload, InAir
<1>5. CASE PumpEnter
  <2>1. InAir' = InAir
    BY <1>5 DEF PumpEnter, InAir
  <2>2. FirstBoot => sendCursor' = queueBaseSeq \/ sendCursor' = Max2(sendCursor, queueBaseSeq)
    BY <1>2, <1>5 DEF PumpEnter, AckedBelow, Max2
  <2>3. FirstBoot => \A s \in Queued : s < sendCursor' => s < sendCursor
    BY <1>2, <1>3, <2>2 DEF Max2
  <2> QED BY <1>1, <2>1, <2>3, SkipFrame
<1>6. CASE PumpEnd
  <2>1. InAir' = InAir
    BY <1>6 DEF PumpEnd, InAir
  <2>2. sendCursor' = sendCursor \/ sendCursor' = Max2(sendCursor, queueBaseSeq)
    BY <1>6 DEF PumpEnd, PumpCursor
  <2>3. FirstBoot => \A s \in Queued : s < sendCursor' => s < sendCursor
    BY <1>2, <1>3, <2>2 DEF Max2
  <2> QED BY <1>1, <2>1, <2>3, SkipFrame
<1>7. CASE PumpSend
  <2> SUFFICES ASSUME NIMBLE2, FirstBoot, connected, proven, NEW s \in Queued, s < sendCursor'
               PROVE  s \in got \cup InAir'
    BY <1>1 DEF NoneSkipped
  <2>1. queue[PumpSlot] = PumpCursor /\ queue[PumpSlot] \in Seqs
    BY <1>7, PumpSendsCursor, CursorType DEF Core, TypeOK, RingType
  <2>2. Notify(proven, "data", PumpCursor) /\ PumpCursor \in Seqs /\ Delivers(proven)
    BY <1>7, <2>1 DEF PumpSend, Sends, Delivers
  <2>3. PumpCursor \in InAir' /\ InAir \subseteq InAir'
    BY <2>2, NotifyKeeps
  <2>4. sendCursor' = PumpCursor + 1 /\ s \in Nat /\ s >= queueBaseSeq
    BY <1>3, <1>7 DEF PumpSend
  <2>5. CASE s = PumpCursor
    BY <2>3, <2>5
  <2>6. CASE s # PumpCursor
    <3>1. s < sendCursor
      BY <1>2, <2>4, <2>6 DEF PumpCursor, Max2
    <3> QED BY <2>3, <3>1 DEF NoneSkipped
  <2> QED BY <2>5, <2>6
<1> QED BY <1>4, <1>5, <1>6, <1>7 DEF Pump

\* handleLine: a hello takes the cursor back to the acks, an ack takes it along.
LEMMA SkipHandle ==
  ASSUME Core, Account, SkipInv, Handle
  PROVE  NoneSkipped'
<1> USE DEF SkipInv
<1>1. UNCHANGED <<bootSeq, seqNext, got, connected>> /\ FirstBoot' = FirstBoot
  BY DEF Handle, HandleSync, HandleHello, HandleRefused, HandleAck, HandleRun, HandleSlot, Line,
         epoch, phone, FirstBoot
<1>2. CASE HandleSync \/ HandleRefused
  BY <1>1, <1>2, SkipIdle DEF HandleSync, HandleRefused, ring, upload, InAir
<1>3. CASE HandleRun \/ HandleSlot
  <2>1. InAir \subseteq InAir'
    BY <1>3, HeartbeatKeeps DEF HandleRun, HandleSlot
  <2> QED BY <1>1, <1>3, <2>1, SkipIdle DEF HandleRun, HandleSlot, ring, upload
<1>4. CASE HandleHello
  <2>1. Queued' = Queued /\ sendCursor' = ackedBefore
    BY <1>1, <1>4 DEF HandleHello, ring, Queued
  <2>2. FirstBoot => \A s \in Queued : ~(s < ackedBefore)
    BY FirstBase, QueuedFromBase, BoundAssumption DEF AckedBelow, Core, TypeOK, UploadType, Seqs
  <2> QED BY <1>1, <2>1, <2>2 DEF NoneSkipped
<1>5. CASE HandleAck
  <2>1. InAir' = InAir /\ proven' = proven
    BY <1>5 DEF HandleAck, InAir
  <2>2. FirstBoot => \A s \in Queued' : s < sendCursor' => s \in Queued /\ s < sendCursor
    <3> SUFFICES ASSUME FirstBoot, NEW s \in Queued', s < sendCursor'
                 PROVE  s \in Queued /\ s < sendCursor
      OBVIOUS
    <3>1. /\ queueBaseSeq' \in queueBaseSeq .. seqNext /\ qCount' = seqNext - queueBaseSeq'
          /\ queueBaseSeq \in Nat /\ seqNext \in Nat /\ Queued = queueBaseSeq .. seqNext - 1
      BY <1>5, AckFrees, FirstBase, QueuedFromBase
    <3>2. s \in Nat /\ s >= queueBaseSeq' /\ s < seqNext
      <4>1. \A a, b, c \in Nat : b \in a .. c => c - (c - b) = b
        OBVIOUS
      <4>2. queueBaseSeq' \in Nat /\ seqNext' = seqNext
        BY <1>1, <3>1
      <4>3. seqNext' - qCount' = queueBaseSeq'
        BY <3>1, <4>1, <4>2
      <4>4. s \in queueBaseSeq' .. seqNext - 1
        BY <4>2, <4>3 DEF Queued
      <4> QED BY <3>1, <4>2, <4>4
    <3>3. sendCursor \in Nat /\ ackedBefore \in Nat
      BY BoundAssumption DEF Core, TypeOK, UploadType, Seqs
    <3>4. s < sendCursor
      BY <1>5, <3>1, <3>2, <3>3, AckLands DEF Max2
    <3> QED BY <3>1, <3>2, <3>4
  <2> QED BY <1>1, <2>1, <2>2, SkipFrame
<1> QED BY <1>2, <1>3, <1>4, <1>5 DEF Handle

\* A capture is never before the cursor.
LEMMA SkipReport ==
  ASSUME Core, CursorBounds, SkipInv, Report
  PROVE  NoneSkipped'
<1>1. /\ UNCHANGED <<bootSeq, got, connected, proven, sendCursor, air>> /\ seqNext' = seqNext + 1
      /\ InAir' = InAir /\ FirstBoot' = FirstBoot
  BY DEF Report, epoch, phone, link, upload, InAir, FirstBoot
<1>2. FirstBoot => \A s \in Queued' : s < sendCursor' => s \in Queued /\ s < sendCursor
  <2> SUFFICES ASSUME FirstBoot, NEW s \in Queued', s < sendCursor PROVE s \in Queued
    BY <1>1
  <2>1. /\ queueBaseSeq \in Nat /\ seqNext \in Nat /\ Queued = queueBaseSeq .. seqNext - 1
        /\ qCount \in Nat /\ seqNext = queueBaseSeq + qCount
    BY FirstBase, QueuedFromBase
  <2>2. qCount' = qCount \/ qCount' = qCount + 1
    BY ReportFull, ReportRoom
  <2>3. s \in queueBaseSeq .. seqNext
    BY <1>1, <2>1, <2>2 DEF Queued
  <2>4. sendCursor <= seqNext /\ sendCursor \in Nat
    <3>1. ackedBefore <= queueBaseSeq /\ ackedBefore \in Nat /\ sendCursor \in Nat
      BY BoundAssumption DEF SkipInv, AckedBelow, Core, TypeOK, UploadType, Seqs
    <3>2. sendCursor <= Max2(seqNext, ackedBefore)
      BY DEF CursorBounds
    <3> QED BY <2>1, <3>1, <3>2 DEF Max2
  <2> QED BY <2>1, <2>3, <2>4
<1> QED BY <1>1, <1>2, SkipFrame DEF SkipInv

\* What arrives goes from the air to the phone.
LEMMA SkipDeliver ==
  ASSUME Core, SkipInv, Deliver
  PROVE  NoneSkipped'
<1>1. /\ UNCHANGED <<bootSeq, seqNext, qCount, sendCursor, connected, proven>>
      /\ FirstBoot' = FirstBoot /\ Queued' = Queued
  BY DEF Deliver, epoch, ring, upload, link, FirstBoot, Queued
<1>2. air \in Seq(Lines) /\ air # <<>> /\ air' = Tail(air)
  BY DEF Deliver, Core, TypeOK, WireType
<1>3. Elems(air) \subseteq Elems(air') \cup {Head(air)}
  BY <1>2, ElemsKept
<1>4. got \subseteq got' /\ (Head(air).kind = "data" => Head(air).seq \in got')
  BY DEF Deliver
<1>5. got \cup InAir \subseteq got' \cup InAir'
  BY <1>3, <1>4, InAirElems
<1> QED BY <1>1, <1>5, SkipFrame DEF SkipInv

\* Nothing is skipped by any step, power cycles included.
LEMMA SkipStep ==
  ASSUME Core, RingOrder, CursorBounds, Account, SkipInv, [Next]_vars
  PROVE  SkipInv'
<1>1. CapturedOnly' /\ AckedBelow'
  BY CapturedStep, AckedBelowStep DEF SkipInv
<1>2. NoneSkipped'
  <2>1. CASE Handle \/ Pump \/ Report \/ Deliver
    BY <2>1, SkipHandle, SkipPump, SkipReport, SkipDeliver
  <2>2. CASE TickBeat
    <3>1. InAir \subseteq InAir'
      BY <2>2, HeartbeatKeeps DEF TickBeat, InAir
    <3> QED BY <2>2, <3>1, SkipIdle DEF TickBeat, epoch, ring, upload, link, phone, SkipInv
  <2>3. CASE Connect \/ Disconnect \/ Reboot
    BY <2>3 DEF Connect, Disconnect, Reboot, NoneSkipped
  <2>4. CASE TickLines \/ Timers \/ UNCHANGED vars
    BY <2>4, SkipIdle DEF TickLines, Timers, StallTimer, BeatTimer, vars, epoch, ring, upload, link,
       phone, InAir, SkipInv
  <2>5. CASE PhoneHello \/ PhoneSync \/ PhoneAck \/ PhoneRun \/ PhoneSlot
    BY <2>5, SkipIdle DEF PhoneHello, PhoneSync, PhoneAck, PhoneRun, PhoneSlot, Write, epoch, ring,
       upload, link, phone, InAir, SkipInv
  <2> QED BY <2>1, <2>2, <2>3, <2>4, <2>5
          DEF Next, Running, Tick, Phone, Host, ReportAP, ReportBT
<1> QED BY <1>1, <1>2 DEF SkipInv

\* In a NimBLE 2 build, on a proven link of a first boot, every queued sighting
\* before the upload cursor is with the phone or on its way (pumpUpload, hello, ack).
THEOREM NoSightingSkipped == Spec => []NoneSkipped
<1>1. Init => SkipInv
  BY DEF Init, SkipInv, CapturedOnly, AckedBelow, NoneSkipped, DataInv, Elems
<1>2. Init => RingOrder /\ CursorBounds
  BY DEF Init, RingOrder, CursorBounds, Max2
<1>3. SkipInv => NoneSkipped
  BY DEF SkipInv
<1> QED BY <1>1, <1>2, <1>3, CoreInit, CoreStep, AccountInit, AccountStep, RingStep, CursorStep,
           SkipStep, PTL DEF Spec

---------------------------------------------------------------------------
(* What a reboot may hand out again. *)

\* Multiples of the reserved block.
LEMMA BlockMultiples ==
  /\ 0 % RESERVE = 0 /\ RESERVE % RESERVE = 0
  /\ \A a \in Nat : a % RESERVE = 0 => (a + RESERVE) % RESERVE = 0
<1>1. \A k \in Nat : (k * RESERVE) % RESERVE = 0
  BY ReserveAssumption
<1>2. ASSUME NEW a \in Nat, a % RESERVE = 0
      PROVE  (a + RESERVE) % RESERVE = 0
  <2> DEFINE q == a \div RESERVE
  <2>1. q \in Nat /\ a = RESERVE * q + (a % RESERVE)
    BY ReserveAssumption
  <2> HIDE DEF q
  <2>2. a = q * RESERVE
    BY <1>2, <2>1, ReserveAssumption
  <2>3. a + RESERVE = (q + 1) * RESERVE
    BY <2>1, <2>2, ReserveAssumption
  <2>4. ((q + 1) * RESERVE) % RESERVE = 0
    BY <1>1, <2>1
  <2> QED BY <2>3, <2>4
<1> QED BY <1>2, ReserveAssumption

\* The next boot starts at the reservation; what is used in this one lies below it,
\* or in the block this one started with.
Reserved ==
  /\ nvs.space = "absent" => bootSeq = 1 /\ seqNext = 1 /\ usedBefore = 0 /\ nvs.seqrsv = 0
  /\ nvs.seqrsv % RESERVE = 0
  /\ bootSeq = 1 \/ bootSeq % RESERVE = 0
  /\ bootSeq <= LoadSeq(nvs) /\ LoadSeq(nvs) <= seqNext + RESERVE
  /\ seqNext < LoadSeq(nvs) \/ (LoadSeq(nvs) = bootSeq /\ seqNext < bootSeq + RESERVE)

\* The first boot uses what lies below the reservation, the second nothing of that.
SetBack ==
  /\ boots >= 1
  /\ boots = 1 => bootSeq = 1 /\ usedBefore = 0
  /\ boots <= 2 => usedBefore < LoadSeq(nvs)

SeqInv == Reserved /\ SetBack /\ SeqSetBack

\* reserveSeq, saveRun and saveNode move the reservation up.
LEMMA ReserveKept ==
  ASSUME Core, Reserved, bootSeq' = bootSeq, seqNext' = seqNext, usedBefore' = usedBefore,
         nvs' = nvs \/ (nvs'.space = "present" /\ nvs'.seqrsv = nvs.seqrsv)
  PROVE  Reserved' /\ LoadSeq(nvs)' >= LoadSeq(nvs)
<1>1. CASE nvs' = nvs
  BY <1>1, ReserveAssumption DEF Reserved, LoadSeq, Core, TypeOK, NvsType
<1>2. CASE nvs'.space = "present" /\ nvs'.seqrsv = nvs.seqrsv /\ nvs.space = "present"
  BY <1>2, ReserveAssumption DEF Reserved, LoadSeq, Core, TypeOK, NvsType
<1>3. CASE nvs'.space = "present" /\ nvs'.seqrsv = nvs.seqrsv /\ nvs.space = "absent"
  BY <1>3, ReserveAssumption DEF Reserved, LoadSeq
<1> QED BY <1>1, <1>2, <1>3 DEF Core, TypeOK, NvsType

\* A capture reserves the next block before it uses up the last one.
LEMMA ReserveReport ==
  ASSUME Core, Reserved, NvsInv, Report
  PROVE  Reserved' /\ LoadSeq(nvs)' >= LoadSeq(nvs)
<1>1. /\ seqNext \in Nat \ {0} /\ seqNext' = seqNext + 1 /\ bootSeq' = bootSeq /\ usedBefore' = usedBefore
      /\ bootSeq \in Nat /\ nvs.seqrsv \in Nat /\ nvs.space = "present" /\ RESERVE \in Nat \ {0, 1}
  BY BoundAssumption, ReserveAssumption DEF Report, epoch, NvsInv, Core, TypeOK, UploadType, NvsType
<1> DEFINE L == IF nvs.seqrsv < RESERVE THEN RESERVE ELSE nvs.seqrsv
<1>2. LoadSeq(nvs) = L /\ L \in Nat /\ L % RESERVE = 0
  BY <1>1, BlockMultiples DEF LoadSeq, Reserved
<1>3. CASE (seqNext + 1) % RESERVE = 0
  <2>1. nvs'.space = "present" /\ nvs'.seqrsv = seqNext + 1 + RESERVE
    BY <1>1, <1>3 DEF Report, ReserveSeq, Core, TypeOK, NvsType
  <2>2. LoadSeq(nvs') = seqNext + 1 + RESERVE
    BY <1>1, <2>1 DEF LoadSeq
  <2>3. nvs'.seqrsv % RESERVE = 0
    <3>1. seqNext + 1 \in Nat
      BY <1>1
    <3>2. (seqNext + 1 + RESERVE) % RESERVE = 0
      BY <1>3, <3>1, BlockMultiples
    <3> QED BY <2>1, <3>2
  <2>4. L <= seqNext + 1 + RESERVE /\ bootSeq <= L
    BY <1>1, <1>2 DEF Reserved
  <2>5. /\ bootSeq' <= LoadSeq(nvs') /\ LoadSeq(nvs') <= seqNext' + RESERVE
        /\ seqNext' < LoadSeq(nvs') /\ LoadSeq(nvs') >= LoadSeq(nvs)
    <3> HIDE DEF L
    <3> QED BY <1>1, <1>2, <2>2, <2>4
  <2> QED BY <1>1, <2>1, <2>3, <2>5 DEF Reserved
<1>4. CASE (seqNext + 1) % RESERVE # 0
  <2>1. nvs' = nvs
    BY <1>4 DEF Report, ReserveSeq
  <2>2. CASE seqNext < L
    <3>1. seqNext + 1 < L
      BY <1>1, <1>2, <1>4, <2>2
    <3> QED BY <1>1, <1>2, <2>1, <3>1 DEF Reserved
  <2>3. CASE L = bootSeq /\ seqNext < bootSeq + RESERVE
    <3>1. (bootSeq + RESERVE) % RESERVE = 0
      BY <1>1, <1>2, <2>3, BlockMultiples
    <3>2. seqNext + 1 < bootSeq + RESERVE
      BY <1>1, <1>4, <2>3, <3>1
    <3> QED BY <1>1, <1>2, <2>1, <2>3, <3>2 DEF Reserved
  <2> QED BY <1>2, <2>2, <2>3 DEF Reserved
<1> QED BY <1>3, <1>4

\* A power cycle: what was used lies below the reservation it starts from, if this
\* boot renewed it, and otherwise less than a block above.
LEMMA SeqReboot ==
  ASSUME Core, NvsInv, SeqInv, Reboot
  PROVE  SeqInv'
<1> DEFINE L == LoadSeq(nvs)
<1>1. /\ seqNext' = L /\ bootSeq' = L /\ nvs' = nvs /\ boots' = boots + 1
      /\ usedBefore' = IF seqNext > bootSeq /\ seqNext - 1 > usedBefore THEN seqNext - 1 ELSE usedBefore
  BY DEF Reboot
<1>2. /\ seqNext \in Nat \ {0} /\ bootSeq \in Nat \ {0} /\ usedBefore \in Nat /\ boots \in Nat
      /\ RESERVE \in Nat \ {0, 1} /\ nvs.seqrsv \in Nat /\ L \in Nat
  BY BoundAssumption, ReserveAssumption DEF Core, TypeOK, UploadType, NvsType, LoadSeq
<1>3. L = 1 \/ L % RESERVE = 0
  BY <1>2, BlockMultiples DEF SeqInv, Reserved, LoadSeq
<1>4. LoadSeq(nvs') = L
  BY <1>1
<1>5. Reserved'
  <2>1. nvs.space = "absent" => L = 1 /\ seqNext = 1 /\ bootSeq = 1 /\ usedBefore = 0 /\ nvs.seqrsv = 0
    BY DEF SeqInv, Reserved, LoadSeq
  <2>2. nvs.space = "absent" => usedBefore' = 0
    BY <1>1, <2>1
  <2> HIDE DEF L
  <2>3. L <= L + RESERVE /\ L < L + RESERVE
    BY <1>2
  <2>4. nvs'.seqrsv % RESERVE = 0
    BY <1>1 DEF SeqInv, Reserved
  <2>5. /\ bootSeq' = 1 \/ bootSeq' % RESERVE = 0
        /\ bootSeq' <= LoadSeq(nvs') /\ LoadSeq(nvs') <= seqNext' + RESERVE
        /\ LoadSeq(nvs') = bootSeq' /\ seqNext' < bootSeq' + RESERVE
    BY <1>1, <1>2, <1>3, <1>4, <2>3
  <2> QED BY <1>1, <2>1, <2>2, <2>4, <2>5 DEF Reserved
<1>6. usedBefore' < L + RESERVE /\ (boots = 1 => usedBefore' < L)
  <2>1. /\ bootSeq <= L /\ usedBefore < bootSeq + RESERVE
        /\ seqNext < L \/ (L = bootSeq /\ seqNext < bootSeq + RESERVE)
    BY DEF SeqInv, Reserved, SeqSetBack
  <2>2. boots = 1 => bootSeq = 1 /\ usedBefore = 0 /\ usedBefore < L
    BY <1>2 DEF SeqInv, SetBack
  <2>3. boots = 1 => seqNext - 1 < L
    <3>1. nvs.space = "absent" => L = 1 /\ seqNext = 1
      BY DEF SeqInv, Reserved, LoadSeq
    <3>2. nvs.space # "absent" => L >= RESERVE
      BY <1>2 DEF LoadSeq
    <3> HIDE DEF L
    <3> QED BY <1>2, <2>1, <2>2, <3>1, <3>2
  <2> HIDE DEF L
  <2> QED BY <1>1, <1>2, <2>1, <2>2, <2>3
<1>7. SetBack' /\ SeqSetBack'
  <2> HIDE DEF L
  <2> QED BY <1>1, <1>2, <1>4, <1>6 DEF SeqInv, SetBack, SeqSetBack
<1> QED BY <1>5, <1>7 DEF SeqInv

\* What every step does to the numbers and to their reservation.
LEMMA SeqStep ==
  ASSUME Core, NvsInv, SeqInv, [Next]_vars
  PROVE  SeqInv'
<1>1. CASE Reboot
  BY <1>1, SeqReboot
<1>2. ASSUME epoch' = epoch, Reserved' /\ LoadSeq(nvs)' >= LoadSeq(nvs)
      PROVE  SeqInv'
  <2>1. /\ usedBefore \in Nat /\ LoadSeq(nvs) \in Nat /\ LoadSeq(nvs') \in Nat
        /\ LoadSeq(nvs') >= LoadSeq(nvs)
    <3>1. nvs'.seqrsv \in Nat /\ nvs.seqrsv \in Nat /\ RESERVE \in Nat /\ usedBefore \in Nat
      BY CoreStep, ReserveAssumption DEF Core, TypeOK, NvsType
    <3> QED BY <1>2, <3>1 DEF LoadSeq
  <2>2. SetBack' /\ SeqSetBack'
    BY <1>2, <2>1 DEF epoch, SeqInv, SetBack, SeqSetBack
  <2> QED BY <1>2, <2>2 DEF SeqInv
<1>3. CASE Report
  BY <1>2, <1>3, ReserveReport DEF SeqInv, Report
<1>4. ASSUME epoch' = epoch, seqNext' = seqNext,
             nvs' = nvs \/ (nvs'.space = "present" /\ nvs'.seqrsv = nvs.seqrsv)
      PROVE  SeqInv'
  BY <1>2, <1>4, ReserveKept DEF SeqInv, epoch
<1>5. CASE HandleRun \/ HandleSlot
  <2>1. nvs'.space = "present" /\ nvs'.seqrsv = nvs.seqrsv
    BY <1>5 DEF HandleRun, HandleSlot, Core, TypeOK, NvsType
  <2> QED BY <1>4, <1>5, <2>1 DEF HandleRun, HandleSlot, Line
<1>6. CASE HandleSync \/ HandleHello \/ HandleRefused \/ HandleAck
  BY <1>4, <1>6 DEF HandleSync, HandleHello, HandleRefused, HandleAck, Line
<1>7. CASE Pump \/ TickBeat \/ TickLines \/ Timers
  BY <1>4, <1>7 DEF Pump, PumpSkip, PumpEnter, PumpSend, PumpEnd, TickBeat, TickLines, Timers,
     StallTimer, BeatTimer
<1>8. CASE Phone
  BY <1>4, <1>8 DEF Phone, PhoneHello, PhoneSync, PhoneAck, PhoneRun, PhoneSlot, Deliver, Write
<1>9. CASE Connect \/ Disconnect \/ UNCHANGED vars
  BY <1>4, <1>9 DEF Connect, Disconnect, vars
<1> QED BY <1>1, <1>3, <1>5, <1>6, <1>7, <1>8, <1>9
        DEF Next, Running, Tick, Handle, Host, ReportAP, ReportBT

\* A reboot sets the numbers back by less than a reserved block, and the second boot
\* starts past all of the first (loadPersist, reserveSeq).
THEOREM NumbersSetBack == Spec => []SeqSetBack
<1>1. Init => SeqInv
  BY BlockMultiples, ReserveAssumption
     DEF Init, SeqInv, Reserved, SetBack, SeqSetBack, LoadSeq
<1>2. SeqInv => SeqSetBack
  BY DEF SeqInv
<1>3. Init => NvsInv
  BY DEF Init, NvsInv
<1> QED BY <1>1, <1>2, <1>3, CoreInit, CoreStep, NvsStep, SeqStep, PTL DEF Spec

---------------------------------------------------------------------------
(* What an ack frees on any boot. *)

\* Base and head are apart by what the boot skipped: an ack compares its number with
\* the base, so what it frees is less than that above it (the ack loop, loadPersist).
THEOREM FreedWithinBootSkip == Spec => FreedWithinSkipped
<1> DEFINE Freeing == \A s \in Queued \ Queued' :
                        boots' # boots \/ s < ackedBefore' + (bootSeq - 1) \/ lost' = lost + 1
<1>1. Core /\ [Next]_vars => [Freeing]_vars
  <2> SUFFICES ASSUME Core, [Next]_vars, boots' = boots,
                      NEW s \in Queued, s \notin Queued'
               PROVE  s < ackedBefore' + (bootSeq - 1) \/ lost' = lost + 1
    OBVIOUS
  <2>1. /\ queueBaseSeq \in Nat /\ qCount \in Nat /\ seqNext \in Nat /\ bootSeq \in Nat \ {0}
        /\ seqNext - qCount = queueBaseSeq + (bootSeq - 1) /\ boots \in Nat /\ ackedBefore \in Nat
    BY CapAssumption, BoundAssumption
       DEF Core, TypeOK, RingType, UploadType, NvsType, BaseLag, Seqs
  <2>2. s \in Nat /\ s >= queueBaseSeq + (bootSeq - 1) /\ s < seqNext
    BY <2>1 DEF Queued
  <2>3. CASE Report
    <3>1. CASE Full
      BY <2>3, <3>1, ReportFull
    <3>2. CASE ~Full
      BY <2>1, <2>2, <2>3, <3>2, ReportRoom DEF Queued, Report
    <3> QED BY <3>1, <3>2
  <2>4. CASE HandleAck
    <3> DEFINE n == Head(inBuf).n
    <3>1. n \in Nat /\ seqNext' = seqNext
      BY <2>4, LineType, BoundAssumption DEF HandleAck, Core, TypeOK, Commands, Seqs
    <3>2. n > ackedBefore
      BY <2>4 DEF HandleAck, Queued
    <3>3. qCount' = qCount - Freed(n) /\ ackedBefore' = n
      BY <2>4, <3>2 DEF HandleAck
    <3>4. Freed(n) \in 0 .. qCount /\ (Freed(n) = 0 \/ queueBaseSeq + Freed(n) <= n)
      BY <2>1, <3>1 DEF Freed
    <3> HIDE DEF n
    <3>5. s < (seqNext - qCount) + Freed(n)
      <4> DEFINE f == Freed(n)
      <4>1. f \in Nat /\ f <= qCount /\ qCount' = qCount - f
        BY <2>1, <3>3, <3>4
      <4> HIDE DEF f
      <4>2. \A a \in Nat : a >= seqNext' - qCount' /\ a < seqNext => a \in Queued'
        BY <2>1, <3>1, <4>1 DEF Queued
      <4>3. s < seqNext - (qCount - f)
        BY <2>1, <2>2, <3>1, <4>1, <4>2
      <4> QED BY <2>1, <4>1, <4>3 DEF f
    <3>6. Freed(n) # 0
      BY <2>1, <2>2, <3>5
    <3> QED BY <2>1, <2>2, <3>1, <3>3, <3>4, <3>5, <3>6
  <2>5. ASSUME UNCHANGED <<seqNext, qCount>> PROVE FALSE
    BY <2>5 DEF Queued
  <2>6. Handle => HandleAck \/ UNCHANGED <<seqNext, qCount>>
    BY DEF Handle, HandleSync, HandleHello, HandleRefused, HandleRun, HandleSlot, ring
  <2>7. Pump \/ TickBeat \/ TickLines \/ Timers => UNCHANGED <<seqNext, qCount>>
    BY DEF Pump, PumpSkip, PumpEnter, PumpSend, PumpEnd, TickBeat, TickLines, Timers, StallTimer,
           BeatTimer, ring
  <2>8. Phone => UNCHANGED <<seqNext, qCount>>
    BY DEF Phone, PhoneHello, PhoneSync, PhoneAck, PhoneRun, PhoneSlot, Deliver, Write, ring
  <2>9. Connect \/ Disconnect \/ UNCHANGED vars => UNCHANGED <<seqNext, qCount>>
    BY DEF Connect, Disconnect, vars, ring
  <2>10. ~Reboot
    BY <2>1 DEF Reboot
  <2> QED BY <2>3, <2>4, <2>5, <2>6, <2>7, <2>8, <2>9, <2>10
          DEF Next, Running, Tick, Host, ReportAP, ReportBT
<1> QED BY <1>1, CoreInit, CoreStep, PTL DEF Spec, FreedWithinSkipped, Freeing
=============================================================================
