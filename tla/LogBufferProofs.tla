-------------------------- MODULE LogBufferProofs --------------------------
(***************************************************************************)
(* The safety of the log for every set of appending tasks, every buffer,   *)
(* line and margin: a buffer is overrun, a line lost and the order of the  *)
(* lines broken only where an append overlapped another one, or was past   *)
(* the wait when a save or a new log began.                                *)
(***************************************************************************)
EXTENDS LogBuffer, SequenceTheorems, TLAPS

---------------------------------------------------------------------------
(* The invariant *)

Late(w) == wpc[w] \in {"copy", "load", "store"}

\* A line in hand that overlapped nothing so far.
Lone(w) == wpc[w] # "idle" /\ wline[w] \notin raced

Hands ==
  \A w \in Writers :
    /\ wpc[w] # "idle" => wline[w] \in 1 .. lines
    /\ Lone(w) => \A v \in Writers \ {w} : wpc[v] = "idle"
    /\ (Lone(w) /\ Late(w)) => ~saving

Saves == phase # "overrun" =>
           (saving <=> phase \in {"file", "secondA", "secondB", "zeroA", "zeroB"})

\* The place add() found for such a line is still free, or holds its bytes.
Room ==
  \A w \in Writers : Lone(w) =>
    /\ wpc[w] \in {"wait", "copy"} => size[active] + LineLen <= BUF_SIZE
    /\ wpc[w] \in {"load", "store"} =>
         /\ size[wbuf[w]] + LineLen <= BUF_SIZE
         /\ \A k \in 1 .. LineLen :
              mem[wbuf[w]][size[wbuf[w]] + k - 1] = [line |-> wline[w], part |-> k]
    /\ wpc[w] = "store" => wreg[w] = size[wbuf[w]] + LineLen

\* A line held where no size about to be stored cuts it off.
Holds(n, b) ==
  \E i \in 0 .. size[b] - 1 :
    /\ mem[b][i].line = n
    /\ \A w \in Writers : (wpc[w] = "store" /\ wbuf[w] = b) => i < wreg[w]

\* The buffers save() has still to write.
ToWrite(b) ==
  /\ phase \notin {"zeroA", "zeroB"}
  /\ phase = "secondA" => b = "A"
  /\ phase = "secondB" => b = "B"

Settled(n) == n \in InHand \/ n \in OnCard \/ n \in excused \/ n \in raced

Found == \A n \in 1 .. lines : Settled(n) \/ \E b \in Bufs : ToWrite(b) /\ Holds(n, b)

LogInv == TypeOK /\ Hands /\ Saves /\ Room /\ Found

---------------------------------------------------------------------------
(* Steps *)

LEMMA TwoBufs ==
  ASSUME NEW b \in Bufs
  PROVE  /\ Other(b) \in Bufs /\ Other(b) # b /\ Other(Other(b)) = b
         /\ \A c \in Bufs : c = b \/ c = Other(b)
         /\ "A" \in Bufs /\ "B" \in Bufs
  BY DEF Bufs, Other

LEMMA Constants ==
  /\ LineLen \in Nat /\ LineLen >= 1 /\ BUF_SIZE \in Nat /\ LineLen < BUF_SIZE
  /\ MARGIN \in Nat /\ MaxLines \in Nat /\ "main" \in Writers
  BY SizeAssumption, MarginAssumption, WriterAssumption, BoundAssumption

LEMMA HandIs ==
  /\ \A w \in Writers : wpc[w] # "idle" => wline[w] \in InHand
  /\ \A n \in InHand : \E w \in Writers : wpc[w] # "idle" /\ wline[w] = n
  /\ Underway \subseteq InHand
  /\ \A w \in Writers : Late(w) => wline[w] \in Underway
  BY DEF InHand, Underway, Late

LEMMA HandType == ASSUME LogInv PROVE InHand \subseteq 1 .. lines /\ 1 .. lines \subseteq 1 .. MaxLines
  <1>1. InHand \subseteq 1 .. lines BY HandIs DEF LogInv, Hands
  <1>2. lines \in 0 .. MaxLines BY DEF LogInv, TypeOK
  <1> QED BY <1>1, <1>2, Constants

LEMMA InitLog == Init => LogInv
  <1> SUFFICES ASSUME Init PROVE LogInv
    OBVIOUS
  <1>1. Blank \in Bytes BY Constants DEF Blank, Bytes
  <1>2. mem \in [Bufs -> [0 .. BUF_SIZE - 1 -> Bytes]] BY <1>1 DEF Init
  <1>3. size \in [Bufs -> 0 .. BUF_SIZE] BY Constants DEF Init
  <1>4. card \in Seq(Bytes) BY DEF Init
  <1>5. /\ wpc \in [Writers -> {"idle", "wait", "copy", "load", "store"}]
        /\ wline \in [Writers -> 0 .. MaxLines] /\ wbuf \in [Writers -> Bufs]
        /\ wreg \in [Writers -> 0 .. BUF_SIZE + LineLen]
    BY Constants DEF Init, Bufs
  <1>6. /\ active \in Bufs /\ writing \in BOOLEAN /\ saving = FALSE /\ phase = "scan"
        /\ live = {} /\ lines = 0 /\ excused = {} /\ raced = {}
    BY DEF Init, Bufs
  <1>7. TypeOK
    <2>1. saving \in BOOLEAN /\ live \subseteq Writers /\ lines \in 0 .. MaxLines
      <3>1. MaxLines \in Nat BY Constants
      <3>2. 0 \in 0 .. MaxLines BY <3>1
      <3> QED BY <1>6, <3>2
    <2>3. excused \subseteq 0 .. MaxLines /\ raced \subseteq 1 .. MaxLines BY <1>6
    <2>2. /\ phase # "overrun"
          /\ phase \in {"scan", "swarm", "header", "save", "file", "secondA", "secondB",
                        "zeroA", "zeroB", "menu", "title", "overrun"}
      BY <1>6
    <2> QED BY <1>2, <1>3, <1>4, <1>5, <1>6, <2>1, <2>2, <2>3 DEF TypeOK
  <1>8. \A w \in Writers : wpc[w] = "idle" BY DEF Init
  <1>9. Hands /\ Room BY <1>8 DEF Hands, Room, Lone
  <1>10. Saves BY <1>6 DEF Saves
  <1>11. Found BY <1>6 DEF Found
  <1> QED BY <1>7, <1>9, <1>10, <1>11 DEF LogInv

\* A line past the end of a buffer: its append overlapped something.
LEMMA OverrunKeeps ==
  ASSUME LogInv, Overrun, raced # {}
  PROVE  LogInv'
  <1>1. /\ phase' = "overrun" /\ mem' = mem /\ size' = size /\ active' = active
        /\ writing' = writing /\ saving' = saving /\ card' = card /\ live' = live
        /\ wpc' = wpc /\ wline' = wline /\ wbuf' = wbuf /\ wreg' = wreg
        /\ lines' = lines /\ excused' = excused /\ raced' = raced
    BY DEF Overrun, state, writer, history
  <1>2. TypeOK' BY <1>1 DEF LogInv, TypeOK
  <1>3. Hands' BY <1>1 DEF LogInv, Hands, Lone, Late
  <1>4. Room' BY <1>1 DEF LogInv, Room, Lone
  <1>5. Saves' BY <1>1 DEF Saves
  <1>6. InHand' = InHand /\ OnCard' = OnCard BY <1>1 DEF InHand, OnCard
  <1>7. Found'
    <2> SUFFICES ASSUME NEW n \in 1 .. lines
                 PROVE  Settled(n)' \/ \E b \in Bufs : ToWrite(b)' /\ Holds(n, b)'
      BY <1>1 DEF Found
    <2>1. CASE Settled(n) BY <1>1, <1>6, <2>1 DEF Settled
    <2>2. ASSUME NEW b \in Bufs, Holds(n, b) PROVE ToWrite(b)' /\ Holds(n, b)'
      BY <1>1, <2>2 DEF ToWrite, Holds
    <2> QED BY <2>1, <2>2 DEF LogInv, Found
  <1> QED BY <1>2, <1>3, <1>4, <1>5, <1>7 DEF LogInv

\* What stays of Found where a step changes neither sizes nor bytes.
LEMMA FoundStays ==
  ASSUME Found, size' = size, lines' = lines, raced \subseteq raced', excused \subseteq excused',
         OnCard \subseteq OnCard', \A n \in InHand : n \in InHand' \/ n \in raced',
         \A n \in 1 .. lines, b \in Bufs : ToWrite(b) /\ Holds(n, b) => ToWrite(b)' /\ Holds(n, b)'
  PROVE  Found'
  <1> SUFFICES ASSUME NEW n \in 1 .. lines
               PROVE  Settled(n)' \/ \E b \in Bufs : ToWrite(b)' /\ Holds(n, b)'
    BY DEF Found
  <1>1. CASE Settled(n) BY <1>1 DEF Settled
  <1>2. CASE \E b \in Bufs : ToWrite(b) /\ Holds(n, b) BY <1>2
  <1> QED BY <1>1, <1>2 DEF Found

\* add: the line found room, here or in the empty other buffer, and nobody else
\* has one in hand, or it is raced.
LEMMA AddKeeps ==
  ASSUME LogInv, NEW w \in Writers, Add(w)
  PROVE  LogInv'
  <1>1. /\ mem' = mem /\ size' = size /\ writing' = writing /\ saving' = saving /\ card' = card
        /\ phase' = phase /\ live' = live /\ wbuf' = wbuf /\ wreg' = wreg /\ excused' = excused
        /\ wpc[w] = "idle" /\ lines < MaxLines /\ ~NoRoom(active)
        /\ active' = IF Switches(active) THEN Other(active) ELSE active
    BY DEF Add, At
  <1>2. /\ TypeOK /\ active \in Bufs /\ Other(active) \in Bufs /\ size[active] \in Nat
        /\ size[Other(active)] \in Nat /\ lines \in 0 .. MaxLines /\ lines \in Nat
    <2>1. /\ TypeOK /\ active \in Bufs /\ lines \in 0 .. MaxLines
          /\ size \in [Bufs -> 0 .. BUF_SIZE]
      BY DEF LogInv, TypeOK
    <2>2. Other(active) \in Bufs BY <2>1, TwoBufs
    <2>3. size[active] \in 0 .. BUF_SIZE /\ size[Other(active)] \in 0 .. BUF_SIZE
      BY <2>1, <2>2
    <2> QED BY <2>1, <2>2, <2>3, Constants
  <1>3. /\ active' \in Bufs /\ size[active'] + LineLen <= BUF_SIZE
        /\ active' = active \/ size[active'] = 0
    <2>1. CASE Switches(active) BY <1>1, <1>2, <2>1, Constants DEF Switches
    <2>2. CASE ~Switches(active)
      <3>1. size[active] + LineLen < BUF_SIZE \/ size[Other(active)] = 0
        BY <1>1, <1>2, Constants DEF NoRoom
      <3>2. size[active] + LineLen + MARGIN < BUF_SIZE \/ size[Other(active)] # 0
        BY <1>2, <2>2, Constants DEF Switches
      <3> QED BY <1>1, <1>2, <2>2, <3>1, <3>2, Constants
    <2> QED BY <2>1, <2>2
  <1>4. CASE ~writing
    <2>1. wpc' = wpc /\ wline' = wline /\ lines' = lines /\ raced' = raced
      BY <1>4 DEF Add
    <2>2. TypeOK' BY <1>1, <1>2, <1>3, <2>1 DEF TypeOK
    <2>3. Hands' BY <1>1, <2>1 DEF LogInv, Hands, Lone, Late
    <2>4. Room' BY <1>1, <1>3, <2>1 DEF LogInv, Room, Lone
    <2>5. Saves' BY <1>1 DEF LogInv, Saves
    <2>6. Found'
      <3>1. InHand' = InHand /\ OnCard' = OnCard BY <1>1, <2>1 DEF InHand, OnCard
      <3>2. \A n \in 1 .. lines, b \in Bufs : ToWrite(b) /\ Holds(n, b) => ToWrite(b)' /\ Holds(n, b)'
        BY <1>1, <2>1 DEF ToWrite, Holds
      <3> QED BY <1>1, <2>1, <3>1, <3>2, FoundStays DEF LogInv
    <2> QED BY <2>2, <2>3, <2>4, <2>5, <2>6 DEF LogInv
  <1>5. CASE writing
    <2>1. /\ wpc' = [wpc EXCEPT ![w] = "wait"] /\ wline' = [wline EXCEPT ![w] = lines + 1]
          /\ lines' = lines + 1
          /\ raced' = IF InHand = {} THEN raced ELSE raced \cup InHand \cup {lines + 1}
      BY <1>5 DEF Add
    <2>2. /\ wpc'[w] = "wait" /\ wline'[w] = lines + 1
          /\ \A v \in Writers \ {w} : wpc'[v] = wpc[v] /\ wline'[v] = wline[v]
      BY <2>1 DEF LogInv, TypeOK
    <2>3. raced \subseteq raced' /\ InHand \subseteq InHand' /\ lines + 1 \in InHand'
      <3>1. \A n \in InHand : \E v \in Writers \ {w} : wpc[v] # "idle" /\ wline[v] = n
        BY <1>1 DEF InHand
      <3>2. InHand \subseteq InHand' BY <2>2, <3>1 DEF InHand
      <3>3. lines + 1 \in InHand' BY <2>2 DEF InHand
      <3> QED BY <2>1, <3>2, <3>3
    <2>4. TypeOK'
      <3>1. lines + 1 \in 1 .. MaxLines /\ lines + 1 \in 0 .. MaxLines BY <1>1, <1>2, Constants
      <3>2. raced' \subseteq 1 .. MaxLines
        BY <1>2, <2>1, <3>1, HandType DEF TypeOK
      <3>3. /\ wpc' \in [Writers -> {"idle", "wait", "copy", "load", "store"}]
            /\ wline' \in [Writers -> 0 .. MaxLines]
        BY <2>1, <3>1, <1>2 DEF TypeOK
      <3>4. phase' = "overrun" => raced' # {} BY <1>1, <1>2, <2>3 DEF TypeOK
      <3> QED BY <1>1, <1>2, <1>3, <2>1, <3>1, <3>2, <3>3, <3>4 DEF TypeOK
    <2>5. ASSUME InHand = {} PROVE Hands' /\ Room'
      <3>1. raced' = raced /\ \A v \in Writers : wpc[v] = "idle" BY <2>1, <2>5, HandIs
      <3>2. \A v \in Writers \ {w} : wpc'[v] = "idle" BY <2>2, <3>1
      <3>3. Hands'
        <4>1. \A v \in Writers : (wpc'[v] # "idle") => v = w BY <3>2
        <4>2. wline'[w] \in 1 .. lines' BY <1>2, <2>1, <2>2
        <4> QED BY <2>2, <3>2, <4>1, <4>2 DEF Hands, Lone, Late
      <3>4. Room' BY <1>1, <1>3, <2>2, <3>2 DEF Room, Lone
      <3> QED BY <3>3, <3>4
    <2>6. ASSUME InHand # {} PROVE Hands' /\ Room'
      <3>1. raced' = raced \cup InHand \cup {lines + 1} BY <2>1, <2>6
      <3>2. \A v \in Writers : ~Lone(v)' BY <2>2, <3>1, HandIs DEF Lone
      <3>3. \A v \in Writers : wpc'[v] # "idle" => wline'[v] \in 1 .. lines'
        <4>1. \A v \in Writers : wpc[v] # "idle" => wline[v] \in 1 .. lines
          BY DEF LogInv, Hands
        <4>2. lines + 1 \in 1 .. lines' /\ 1 .. lines \subseteq 1 .. lines' BY <1>2, <2>1
        <4> QED BY <2>2, <4>1, <4>2
      <3> QED BY <3>2, <3>3 DEF Hands, Room
    <2>7. Hands' /\ Room' BY <2>5, <2>6
    <2>8. Saves' BY <1>1 DEF LogInv, Saves
    <2>9. Found'
      <3> SUFFICES ASSUME NEW n \in 1 .. lines'
                   PROVE  Settled(n)' \/ \E b \in Bufs : ToWrite(b)' /\ Holds(n, b)'
        BY DEF Found
      <3>1. CASE n = lines + 1 BY <2>3, <3>1 DEF Settled
      <3>2. CASE n \in 1 .. lines
        <4>1. OnCard' = OnCard BY <1>1 DEF OnCard
        <4>2. CASE Settled(n) BY <1>1, <2>3, <4>1, <4>2 DEF Settled
        <4>3. ASSUME NEW b \in Bufs, ToWrite(b), Holds(n, b) PROVE ToWrite(b)' /\ Holds(n, b)'
          <5>1. \A v \in Writers : wpc'[v] = "store" => wpc[v] = "store" BY <2>2
          <5>2. ToWrite(b)' BY <1>1, <4>3 DEF ToWrite
          <5>3. Holds(n, b)' BY <1>1, <4>3, <5>1 DEF Holds
          <5> QED BY <5>2, <5>3
        <4> QED BY <3>2, <4>2, <4>3 DEF LogInv, Found
      <3> QED BY <1>2, <2>1, <3>1, <3>2
    <2> QED BY <2>4, <2>7, <2>8, <2>9 DEF LogInv
  <1> QED BY <1>2, <1>4, <1>5 DEF TypeOK

LEMMA WaitedKeeps ==
  ASSUME LogInv, NEW w \in Writers, Waited(w)
  PROVE  LogInv'
  <1>1. /\ mem' = mem /\ size' = size /\ active' = active /\ writing' = writing
        /\ saving' = saving /\ card' = card /\ phase' = phase /\ live' = live
        /\ wline' = wline /\ wbuf' = wbuf /\ wreg' = wreg
        /\ lines' = lines /\ excused' = excused /\ raced' = raced
        /\ wpc[w] = "wait" /\ wpc' = [wpc EXCEPT ![w] = "copy"] /\ ~saving
    BY DEF Waited, At, state, history
  <1>2. wpc'[w] = "copy" /\ \A v \in Writers \ {w} : wpc'[v] = wpc[v]
    BY <1>1 DEF LogInv, TypeOK
  <1>3. TypeOK' BY <1>1 DEF LogInv, TypeOK
  <1>4. \A v \in Writers : (wpc'[v] = "idle" <=> wpc[v] = "idle") /\ (wpc'[v] = "store" => wpc[v] = "store")
    BY <1>1, <1>2
  <1>5. Hands' BY <1>1, <1>2, <1>4 DEF LogInv, Hands, Lone, Late
  <1>6. Room'
    <2>1. ASSUME NEW v \in Writers, v # w, Lone(v)' PROVE wpc'[v] = wpc[v] /\ Lone(v)
      BY <1>1, <1>2, <2>1 DEF Lone
    <2>2. Lone(w)' => size[active] + LineLen <= BUF_SIZE
      BY <1>1, <1>4 DEF LogInv, Room, Lone
    <2> QED BY <1>1, <1>2, <2>1, <2>2 DEF LogInv, Room
  <1>7. Saves' BY <1>1 DEF LogInv, Saves
  <1>8. Found'
    <2>1. InHand' = InHand /\ OnCard' = OnCard BY <1>1, <1>4 DEF InHand, OnCard
    <2>2. \A n \in 1 .. lines, b \in Bufs : ToWrite(b) /\ Holds(n, b) => ToWrite(b)' /\ Holds(n, b)'
      BY <1>1, <1>4 DEF ToWrite, Holds
    <2> QED BY <1>1, <2>1, <2>2, FoundStays DEF LogInv
  <1> QED BY <1>3, <1>5, <1>6, <1>7, <1>8 DEF LogInv

\* memcpy: the bytes go behind what is held.
LEMMA CopyMem ==
  ASSUME LogInv, NEW w \in Writers, Copy(w), size[active] + LineLen <= BUF_SIZE
  PROVE  /\ mem' \in [Bufs -> [0 .. BUF_SIZE - 1 -> Bytes]]
         /\ \A b \in Bufs : \A i \in 0 .. size[b] - 1 : mem'[b][i] = mem[b][i]
         /\ \A b \in Bufs : b # active => mem'[b] = mem[b]
         /\ \A k \in 1 .. LineLen :
              mem'[active][size[active] + k - 1] = [line |-> wline[w], part |-> k]
  <1> DEFINE n == wline[w]
             at == size[active]
  <1>1. /\ mem \in [Bufs -> [0 .. BUF_SIZE - 1 -> Bytes]] /\ active \in Bufs
        /\ size \in [Bufs -> 0 .. BUF_SIZE] /\ n \in 0 .. MaxLines
        /\ at \in Nat /\ at + LineLen <= BUF_SIZE
    BY Constants DEF LogInv, TypeOK
  <1>2. mem' = [mem EXCEPT ![active] = [i \in DOMAIN mem[active] |->
               IF i \in at .. at + LineLen - 1 THEN Line(n)[i - at + 1] ELSE mem[active][i]]]
    <2>1. ~(size[active] + LineLen > BUF_SIZE) BY <1>1, Constants
    <2> QED BY <2>1 DEF Copy
  <1> HIDE DEF n, at
  <1>3. \A k \in 1 .. LineLen : Line(n)[k] = [line |-> n, part |-> k] /\ Line(n)[k] \in Bytes
    BY <1>1 DEF Line, Bytes
  <1>4. /\ mem'[active] = [i \in 0 .. BUF_SIZE - 1 |->
             IF i \in at .. at + LineLen - 1 THEN Line(n)[i - at + 1] ELSE mem[active][i]]
        /\ \A b \in Bufs : b # active => mem'[b] = mem[b]
        /\ mem' = [b \in Bufs |-> mem'[b]]
    <2>1. DOMAIN mem[active] = 0 .. BUF_SIZE - 1 /\ DOMAIN mem = Bufs BY <1>1
    <2> QED BY <1>1, <1>2, <2>1
  <1>5. mem' \in [Bufs -> [0 .. BUF_SIZE - 1 -> Bytes]]
    <2>1. \A i \in at .. at + LineLen - 1 : i - at + 1 \in 1 .. LineLen BY <1>1, Constants
    <2>2. ASSUME NEW i \in 0 .. BUF_SIZE - 1 PROVE mem'[active][i] \in Bytes
      <3>1. CASE i \in at .. at + LineLen - 1
        <4>1. mem'[active][i] = Line(n)[i - at + 1] BY <1>4, <3>1
        <4> QED BY <1>3, <2>1, <3>1, <4>1
      <3>2. CASE i \notin at .. at + LineLen - 1
        <4>1. mem'[active][i] = mem[active][i] BY <1>4, <3>2
        <4>2. mem[active] \in [0 .. BUF_SIZE - 1 -> Bytes] BY <1>1
        <4> QED BY <4>1, <4>2
      <3> QED BY <3>1, <3>2
    <2>3. mem'[active] \in [0 .. BUF_SIZE - 1 -> Bytes] BY <1>4, <2>2
    <2>4. \A b \in Bufs : mem'[b] \in [0 .. BUF_SIZE - 1 -> Bytes] BY <1>1, <1>4, <2>3
    <2> QED BY <1>4, <2>4
  <1>6. \A k \in 1 .. LineLen : mem'[active][at + k - 1] = [line |-> n, part |-> k]
    <2> SUFFICES ASSUME NEW k \in 1 .. LineLen
                 PROVE  mem'[active][at + k - 1] = [line |-> n, part |-> k]
      OBVIOUS
    <2>1. at + k - 1 \in 0 .. BUF_SIZE - 1 /\ at + k - 1 \in at .. at + LineLen - 1
          /\ (at + k - 1) - at + 1 = k
      BY <1>1, Constants
    <2> QED BY <1>3, <1>4, <2>1
  <1>7. ASSUME NEW b \in Bufs, NEW i \in 0 .. size[b] - 1 PROVE mem'[b][i] = mem[b][i]
    <2>1. CASE b # active BY <1>4, <2>1
    <2>2. CASE b = active
      <3>1. i \in 0 .. BUF_SIZE - 1 /\ i \notin at .. at + LineLen - 1
        BY <1>1, <2>2, Constants DEF at
      <3> QED BY <1>4, <2>2, <3>1
    <2> QED BY <2>1, <2>2
  <1> QED BY <1>4, <1>5, <1>6, <1>7 DEF n, at

LEMMA CopyKeeps ==
  ASSUME LogInv, NEW w \in Writers, Copy(w)
  PROVE  LogInv'
  <1>0. wpc[w] = "copy" BY DEF Copy, At
  <1>1. CASE size[active] + LineLen > BUF_SIZE
    <2>1. ~(size[active] + LineLen <= BUF_SIZE) BY <1>1, Constants DEF LogInv, TypeOK
    <2>2. ~Lone(w) BY <1>0, <2>1 DEF LogInv, Room
    <2>3. raced # {} BY <1>0, <2>2 DEF Lone
    <2>4. Overrun BY <1>1 DEF Copy
    <2> QED BY <2>3, <2>4, OverrunKeeps
  <1>2. CASE ~(size[active] + LineLen > BUF_SIZE)
    <2>1. /\ size' = size /\ active' = active /\ writing' = writing
          /\ saving' = saving /\ card' = card /\ phase' = phase /\ live' = live
          /\ wline' = wline /\ wreg' = wreg
          /\ lines' = lines /\ excused' = excused /\ raced' = raced
          /\ wpc' = [wpc EXCEPT ![w] = "load"] /\ wbuf' = [wbuf EXCEPT ![w] = active]
      BY <1>2 DEF Copy, history
    <2>2. size[active] + LineLen <= BUF_SIZE /\ active \in Bufs
      BY <1>2, Constants DEF LogInv, TypeOK
    <2>3. /\ mem' \in [Bufs -> [0 .. BUF_SIZE - 1 -> Bytes]]
          /\ \A b \in Bufs : \A i \in 0 .. size[b] - 1 : mem'[b][i] = mem[b][i]
          /\ \A k \in 1 .. LineLen :
               mem'[active][size[active] + k - 1] = [line |-> wline[w], part |-> k]
      BY <2>2, CopyMem
    <2>4. /\ wpc'[w] = "load" /\ wbuf'[w] = active
          /\ \A v \in Writers \ {w} : wpc'[v] = wpc[v] /\ wbuf'[v] = wbuf[v]
      BY <2>1 DEF LogInv, TypeOK
    <2>5. TypeOK' BY <2>1, <2>2, <2>3 DEF LogInv, TypeOK
    <2>6. \A v \in Writers : /\ wpc'[v] = "idle" <=> wpc[v] = "idle"
                             /\ wpc'[v] = "store" => wpc[v] = "store" /\ wbuf'[v] = wbuf[v]
      BY <1>0, <2>4
    <2>7. Hands'
      <3>1. \A v \in Writers : Lone(v)' <=> Lone(v) BY <2>1, <2>6 DEF Lone
      <3>2. \A v \in Writers : Late(v)' => Late(v) BY <1>0, <2>4 DEF Late
      <3> QED BY <2>1, <2>6, <3>1, <3>2 DEF LogInv, Hands
    <2>8. Room'
      <3>1. ASSUME NEW v \in Writers, Lone(v)', v # w PROVE FALSE
        <4>1. Lone(v) BY <2>1, <2>4, <3>1 DEF Lone
        <4> QED BY <1>0, <3>1, <4>1 DEF LogInv, Hands
      <3> QED BY <2>1, <2>2, <2>3, <2>4, <3>1 DEF Room
    <2>9. Saves' BY <2>1 DEF LogInv, Saves
    <2>10. Found'
      <3>1. InHand' = InHand /\ OnCard' = OnCard BY <2>1, <2>6 DEF InHand, OnCard
      <3>2. ASSUME NEW n \in 1 .. lines, NEW b \in Bufs, ToWrite(b) /\ Holds(n, b)
            PROVE  ToWrite(b)' /\ Holds(n, b)'
        <4>1. ToWrite(b)' BY <2>1, <3>2 DEF ToWrite
        <4>2. PICK i \in 0 .. size[b] - 1 :
                /\ mem[b][i].line = n
                /\ \A v \in Writers : (wpc[v] = "store" /\ wbuf[v] = b) => i < wreg[v]
          BY <3>2 DEF Holds
        <4>3. mem'[b][i].line = n BY <2>3, <4>2
        <4>4. \A v \in Writers : (wpc'[v] = "store" /\ wbuf'[v] = b) => i < wreg[v]
          BY <2>6, <4>2
        <4> QED BY <2>1, <4>1, <4>3, <4>4 DEF Holds
      <3> QED BY <2>1, <3>1, <3>2, FoundStays DEF LogInv
    <2> QED BY <2>5, <2>7, <2>8, <2>9, <2>10 DEF LogInv
  <1> QED BY <1>1, <1>2

LEMMA LoadKeeps ==
  ASSUME LogInv, NEW w \in Writers, Load(w)
  PROVE  LogInv'
  <1>1. /\ mem' = mem /\ size' = size /\ active' = active /\ writing' = writing
        /\ saving' = saving /\ card' = card /\ phase' = phase /\ live' = live
        /\ wline' = wline /\ wbuf' = wbuf
        /\ lines' = lines /\ excused' = excused /\ raced' = raced
        /\ wpc[w] = "load" /\ wpc' = [wpc EXCEPT ![w] = "store"]
        /\ wreg' = [wreg EXCEPT ![w] = size[wbuf[w]] + LineLen]
    BY DEF Load, At, state, history
  <1>2. /\ wpc'[w] = "store" /\ wreg'[w] = size[wbuf[w]] + LineLen
        /\ \A v \in Writers \ {w} : wpc'[v] = wpc[v] /\ wreg'[v] = wreg[v]
        /\ wbuf[w] \in Bufs /\ size[wbuf[w]] \in 0 .. BUF_SIZE
    BY <1>1 DEF LogInv, TypeOK
  <1>3. TypeOK'
    <2>1. size[wbuf[w]] + LineLen \in 0 .. BUF_SIZE + LineLen BY <1>2, Constants
    <2>2. wreg' \in [Writers -> 0 .. BUF_SIZE + LineLen] BY <1>1, <2>1 DEF LogInv, TypeOK
    <2> QED BY <1>1, <2>2 DEF LogInv, TypeOK
  <1>4. \A v \in Writers : /\ wpc'[v] = "idle" <=> wpc[v] = "idle"
                           /\ Lone(v)' <=> Lone(v)
                           /\ Late(v)' <=> Late(v)
    BY <1>1, <1>2 DEF Lone, Late
  <1>5. Hands' BY <1>1, <1>4 DEF LogInv, Hands
  <1>6. Room'
    <2>1. ASSUME NEW v \in Writers, Lone(v)', v # w PROVE FALSE
      BY <1>1, <1>4, <2>1 DEF LogInv, Hands
    <2>2. Lone(w) => /\ size[wbuf[w]] + LineLen <= BUF_SIZE
                     /\ \A k \in 1 .. LineLen :
                          mem[wbuf[w]][size[wbuf[w]] + k - 1] = [line |-> wline[w], part |-> k]
      BY <1>1 DEF LogInv, Room
    <2> QED BY <1>1, <1>2, <1>4, <2>1, <2>2 DEF Room
  <1>7. Saves' BY <1>1 DEF LogInv, Saves
  <1>8. Found'
    <2>1. InHand' = InHand /\ OnCard' = OnCard BY <1>1, <1>4 DEF InHand, OnCard
    <2>2. ASSUME NEW n \in 1 .. lines, NEW b \in Bufs, ToWrite(b) /\ Holds(n, b)
          PROVE  ToWrite(b)' /\ Holds(n, b)'
      <3>1. ToWrite(b)' BY <1>1, <2>2 DEF ToWrite
      <3>2. PICK i \in 0 .. size[b] - 1 :
              /\ mem[b][i].line = n
              /\ \A v \in Writers : (wpc[v] = "store" /\ wbuf[v] = b) => i < wreg[v]
        BY <2>2 DEF Holds
      <3>3. wbuf[w] = b => i < wreg'[w] BY <1>2, <3>2, Constants
      <3>4. \A v \in Writers : (wpc'[v] = "store" /\ wbuf'[v] = b) => i < wreg'[v]
        BY <1>1, <1>2, <3>2, <3>3
      <3> QED BY <1>1, <3>1, <3>2, <3>4 DEF Holds
    <2> QED BY <1>1, <2>1, <2>2, FoundStays DEF LogInv
  <1> QED BY <1>3, <1>5, <1>6, <1>7, <1>8 DEF LogInv

\* bufSizeX += len: what it may cut off or uncover is of lines that overlapped.
LEMMA StoreKeeps ==
  ASSUME LogInv, NEW w \in Writers, Store(w)
  PROVE  LogInv'
  <1>0. wpc[w] = "store" /\ wreg[w] \in Nat /\ wbuf[w] \in Bufs
    BY Constants DEF LogInv, TypeOK, Store, At
  <1>1. CASE wreg[w] > BUF_SIZE
    <2>1. ~Lone(w)
      <3>1. SUFFICES ASSUME Lone(w) PROVE FALSE OBVIOUS
      <3>2. wreg[w] = size[wbuf[w]] + LineLen /\ size[wbuf[w]] + LineLen <= BUF_SIZE
        BY <1>0, <3>1 DEF LogInv, Room
      <3> QED BY <1>0, <1>1, <3>2, Constants
    <2>2. raced # {} BY <1>0, <2>1 DEF Lone
    <2>3. Overrun BY <1>1 DEF Store
    <2> QED BY <2>2, <2>3, OverrunKeeps
  <1>2. CASE ~(wreg[w] > BUF_SIZE)
    <2>1. /\ mem' = mem /\ active' = active /\ writing' = writing
          /\ saving' = saving /\ card' = card /\ phase' = phase /\ live' = live
          /\ lines' = lines /\ excused' = excused /\ raced' = raced
          /\ size' = [size EXCEPT ![wbuf[w]] = wreg[w]]
          /\ wpc' = [wpc EXCEPT ![w] = "idle"] /\ wline' = [wline EXCEPT ![w] = 0]
          /\ wbuf' = [wbuf EXCEPT ![w] = "A"] /\ wreg' = [wreg EXCEPT ![w] = 0]
      BY <1>2 DEF Store, history
    <2>2. /\ wpc'[w] = "idle" /\ size'[wbuf[w]] = wreg[w]
          /\ \A v \in Writers \ {w} : /\ wpc'[v] = wpc[v] /\ wline'[v] = wline[v]
                                      /\ wbuf'[v] = wbuf[v] /\ wreg'[v] = wreg[v]
          /\ \A b \in Bufs : b # wbuf[w] => size'[b] = size[b]
          /\ size \in [Bufs -> 0 .. BUF_SIZE]
      BY <1>0, <2>1 DEF LogInv, TypeOK
    <2>3. TypeOK'
      <3>1. wreg[w] \in 0 .. BUF_SIZE BY <1>0, <1>2, Constants
      <3>2. /\ size' \in [Bufs -> 0 .. BUF_SIZE] BY <2>1, <3>1 DEF LogInv, TypeOK
      <3>3. /\ wpc' \in [Writers -> {"idle", "wait", "copy", "load", "store"}]
            /\ wbuf' \in [Writers -> Bufs]
        BY <2>1, TwoBufs DEF LogInv, TypeOK, Bufs
      <3>4. wline' \in [Writers -> 0 .. MaxLines] /\ wreg' \in [Writers -> 0 .. BUF_SIZE + LineLen]
        <4>1. 0 \in 0 .. MaxLines /\ 0 \in 0 .. BUF_SIZE + LineLen BY Constants
        <4> QED BY <2>1, <4>1 DEF LogInv, TypeOK
      <3> QED BY <2>1, <3>2, <3>3, <3>4 DEF LogInv, TypeOK
    <2>4. \A v \in Writers : wpc'[v] # "idle" => v # w /\ wpc[v] # "idle" BY <2>2
    <2>5. \A v \in Writers : Lone(v)' => ~Lone(w) /\ Lone(v) /\ v # w
      BY <1>0, <2>1, <2>2, <2>4 DEF LogInv, Hands, Lone
    <2>6. Hands'
      <3>1. \A v \in Writers : Late(v)' => Late(v) BY <2>2 DEF Late
      <3>2. \A v \in Writers : wpc'[v] # "idle" => wline'[v] \in 1 .. lines'
        BY <2>1, <2>2, <2>4 DEF LogInv, Hands
      <3>3. \A v \in Writers : Lone(v)' => \A u \in Writers \ {v} : wpc'[u] = "idle"
        BY <2>4, <2>5 DEF LogInv, Hands
      <3> QED BY <2>1, <2>5, <3>1, <3>2, <3>3 DEF LogInv, Hands
    <2>7. Room'
      <3>1. ASSUME NEW v \in Writers, Lone(v)' PROVE FALSE
        BY <1>0, <2>5, <3>1 DEF LogInv, Hands
      <3> QED BY <3>1 DEF Room
    <2>8. Saves' BY <2>1 DEF LogInv, Saves
    <2>9. Found'
      <3> SUFFICES ASSUME NEW n \in 1 .. lines
                   PROVE  Settled(n)' \/ \E b \in Bufs : ToWrite(b)' /\ Holds(n, b)'
        BY <2>1 DEF Found
      <3>1. OnCard' = OnCard BY <2>1 DEF OnCard
      <3>2. CASE n \in OnCard \/ n \in excused \/ n \in raced BY <2>1, <3>1, <3>2 DEF Settled
      <3>3. ASSUME n \in InHand, n \notin InHand', n \notin raced
            PROVE  \E b \in Bufs : ToWrite(b)' /\ Holds(n, b)'
        <4>1. wline[w] = n
          <5>1. PICK v \in Writers : wpc[v] # "idle" /\ wline[v] = n BY <3>3, HandIs
          <5>2. v # w => n \in InHand' BY <2>2, <5>1 DEF InHand
          <5> QED BY <3>3, <5>1, <5>2
        <4>2. Lone(w) /\ Late(w) BY <1>0, <3>3, <4>1 DEF Lone, Late
        <4>0. PICK c \in Bufs : c = wbuf[w] BY <1>0
        <4>3. /\ wreg[w] = size[c] + LineLen /\ \A v \in Writers \ {w} : wpc[v] = "idle"
              /\ \A k \in 1 .. LineLen : mem[c][size[c] + k - 1] = [line |-> n, part |-> k]
          BY <1>0, <4>0, <4>1, <4>2 DEF LogInv, Room, Hands
        <4>4. size[c] \in 0 .. size'[c] - 1 /\ mem'[c][size[c]].line = n
          <5>1. size[c] \in Nat /\ size'[c] = size[c] + LineLen BY <2>2, <4>0, <4>3, Constants
          <5>2. 1 \in 1 .. LineLen /\ size[c] + 1 - 1 = size[c] BY <5>1, Constants
          <5>3. mem[c][size[c]] = [line |-> n, part |-> 1] BY <4>3, <5>2
          <5> QED BY <2>1, <5>1, <5>3, Constants
        <4>5. \A v \in Writers : wpc'[v] # "store" BY <2>2, <4>3
        <4>6. phase \notin {"zeroA", "zeroB", "secondA", "secondB"}
          BY <1>0, <4>2 DEF LogInv, Hands, Saves, Store, At
        <4>7. ToWrite(c)' BY <2>1, <4>6 DEF ToWrite
        <4>8. Holds(n, c)' BY <4>4, <4>5 DEF Holds
        <4> QED BY <4>7, <4>8
      <3>4. ASSUME NEW b \in Bufs, ToWrite(b), Holds(n, b) PROVE ToWrite(b)' /\ Holds(n, b)'
        <4>1. ToWrite(b)' BY <2>1, <3>4 DEF ToWrite
        <4>2. PICK i \in 0 .. size[b] - 1 :
                /\ mem[b][i].line = n
                /\ \A v \in Writers : (wpc[v] = "store" /\ wbuf[v] = b) => i < wreg[v]
          BY <3>4 DEF Holds
        <4>3. i \in 0 .. size'[b] - 1
          <5>1. CASE b = wbuf[w]
            <6>1. i < wreg[w] /\ size'[b] = wreg[w] /\ i \in Nat BY <1>0, <2>2, <4>2, <5>1
            <6> QED BY <1>0, <6>1
          <5>2. CASE b # wbuf[w] BY <2>2, <4>2, <5>2
          <5> QED BY <5>1, <5>2
        <4>4. \A v \in Writers : (wpc'[v] = "store" /\ wbuf'[v] = b) => i < wreg'[v]
          BY <2>2, <4>2
        <4> QED BY <2>1, <4>1, <4>2, <4>3, <4>4 DEF Holds
      <3>5. CASE n \in InHand' BY <3>5 DEF Settled
      <3> QED BY <3>2, <3>3, <3>4, <3>5 DEF LogInv, Found, Settled
    <2> QED BY <2>3, <2>6, <2>7, <2>8, <2>9 DEF LogInv
  <1> QED BY <1>1, <1>2
---------------------------------------------------------------------------
(* loop() *)

LEMMA HeldIs ==
  ASSUME TypeOK, NEW b \in Bufs
  PROVE  /\ Held(b) \in Seq(Bytes) /\ Len(Held(b)) = size[b]
         /\ \A i \in 1 .. size[b] : Held(b)[i] = mem[b][i - 1]
         /\ InMem(b) = {Held(b)[i].line : i \in 1 .. size[b]}
         /\ InMem(b) \subseteq 0 .. MaxLines
  <1>1. size[b] \in 0 .. BUF_SIZE /\ mem[b] \in [0 .. BUF_SIZE - 1 -> Bytes]
    BY DEF TypeOK
  <1>2. \A i \in 1 .. size[b] : i - 1 \in 0 .. BUF_SIZE - 1
    BY <1>1, Constants
  <1>3. \A i \in 1 .. size[b] : mem[b][i - 1] \in Bytes
    BY <1>1, <1>2
  <1>4. Held(b) \in Seq(Bytes) /\ Len(Held(b)) = size[b]
    BY <1>1, <1>3, Constants DEF Held
  <1>5. \A i \in 1 .. size[b] : Held(b)[i] = mem[b][i - 1]
    BY DEF Held
  <1>6. InMem(b) = {Held(b)[i].line : i \in 1 .. size[b]}
    <2>1. ASSUME NEW i \in 0 .. size[b] - 1
          PROVE  i + 1 \in 1 .. size[b] /\ Held(b)[i + 1] = mem[b][i]
      BY <1>1, <1>5, Constants
    <2>2. ASSUME NEW i \in 1 .. size[b]
          PROVE  i - 1 \in 0 .. size[b] - 1 /\ Held(b)[i] = mem[b][i - 1]
      BY <1>1, <1>5, Constants
    <2> QED BY <2>1, <2>2 DEF InMem
  <1>7. \A x \in Bytes : x.line \in 0 .. MaxLines BY DEF Bytes
  <1>8. InMem(b) \subseteq 0 .. MaxLines BY <1>3, <1>5, <1>6, <1>7
  <1> QED BY <1>4, <1>5, <1>6, <1>8

LEMMA UnsavedIs ==
  ASSUME TypeOK
  PROVE  /\ Unsaved \subseteq 0 .. MaxLines
         /\ \A b \in Bufs : \A n : Holds(n, b) => n \in InMem(b) /\ n \in Unsaved
  <1>1. \A b \in Bufs : InMem(b) \subseteq 0 .. MaxLines BY HeldIs
  <1>2. Unsaved \subseteq 0 .. MaxLines BY <1>1 DEF Unsaved, Bufs
  <1>3. ASSUME NEW n, NEW b \in Bufs, Holds(n, b) PROVE n \in InMem(b)
    BY <1>3 DEF Holds, InMem
  <1>4. \A b \in Bufs : InMem(b) \subseteq Unsaved BY DEF Unsaved, Bufs
  <1> QED BY <1>2, <1>3, <1>4

Phases == {"scan", "swarm", "header", "save", "file", "secondA", "secondB",
           "zeroA", "zeroB", "menu", "title", "overrun"}

\* The steps of loop() that move no byte and empty nothing.
LEMMA LoopKeeps ==
  ASSUME LogInv,
         mem' = mem, size' = size, active' = active, card' = card, wpc' = wpc, wline' = wline,
         wbuf' = wbuf, wreg' = wreg, lines' = lines,
         writing' \in BOOLEAN, saving' \in BOOLEAN, live' \subseteq Writers, phase' \in Phases,
         phase' = "overrun" => phase = "overrun",
         excused \subseteq excused', excused' \subseteq 0 .. MaxLines,
         raced' = raced \/ raced' = raced \cup Underway,
         saving' => saving \/ raced' = raced \cup Underway,
         Saves',
         \A n \in 1 .. lines, b \in Bufs :
           ToWrite(b) /\ Holds(n, b) => ToWrite(b)' \/ n \in excused'
  PROVE  LogInv'
  <1>1. Underway \subseteq InHand /\ raced \subseteq raced' BY HandIs
  <1>2. TypeOK'
    <2>1. raced' \subseteq 1 .. MaxLines BY <1>1, HandType DEF LogInv, TypeOK
    <2>2. phase' = "overrun" => raced' # {} BY <1>1 DEF LogInv, TypeOK
    <2> QED BY <2>1, <2>2 DEF LogInv, TypeOK, Phases
  <1>3. \A w \in Writers : /\ Lone(w)' => Lone(w)
                           /\ Late(w)' <=> Late(w)
                           /\ (Lone(w)' /\ Late(w)) => ~saving'
    <2>1. ASSUME NEW w \in Writers, Lone(w)' PROVE Lone(w) BY <1>1, <2>1 DEF Lone
    <2>2. ASSUME NEW w \in Writers PROVE Late(w)' <=> Late(w) BY DEF Late
    <2>3. ASSUME NEW w \in Writers, Lone(w)', Late(w) PROVE ~saving'
      <3>1. wline[w] \in Underway BY <2>3, HandIs
      <3>2. wline[w] \notin raced' BY <2>3 DEF Lone
      <3>3. ~saving BY <2>1, <2>3 DEF LogInv, Hands
      <3> QED BY <3>1, <3>2, <3>3
    <2> QED BY <2>1, <2>2, <2>3
  <1>4. Hands' BY <1>3 DEF LogInv, Hands
  <1>5. Room' BY <1>3 DEF LogInv, Room
  <1>6. Found'
    <2>1. InHand' = InHand /\ OnCard' = OnCard BY DEF InHand, OnCard
    <2>2. \A b \in Bufs : \A n : Holds(n, b) => Holds(n, b)' BY DEF Holds
    <2> SUFFICES ASSUME NEW n \in 1 .. lines
                 PROVE  Settled(n)' \/ \E b \in Bufs : ToWrite(b)' /\ Holds(n, b)'
      BY DEF Found
    <2>3. CASE Settled(n) BY <1>1, <2>1, <2>3 DEF Settled
    <2>4. ASSUME NEW b \in Bufs, ToWrite(b), Holds(n, b)
          PROVE  n \in excused' \/ (ToWrite(b)' /\ Holds(n, b)')
      BY <2>2, <2>4
    <2> QED BY <2>3, <2>4 DEF LogInv, Found, Settled
  <1> QED BY <1>2, <1>4, <1>5, <1>6 DEF LogInv

\* The steps that empty a buffer: what it held is settled, and the lines past
\* the wait are raced.
LEMMA EmptyKeeps ==
  ASSUME LogInv,
         mem' = mem, active' = active, card' = card, wpc' = wpc, wline' = wline,
         wbuf' = wbuf, wreg' = wreg, lines' = lines,
         size' \in [Bufs -> 0 .. BUF_SIZE], \A b \in Bufs : size'[b] = size[b] \/ size'[b] = 0,
         writing' \in BOOLEAN, saving' \in BOOLEAN, live' \subseteq Writers,
         phase' \in Phases, phase' # "overrun",
         excused \subseteq excused', excused' \subseteq 0 .. MaxLines,
         raced \subseteq raced', raced' \subseteq 1 .. MaxLines,
         \A w \in Writers : Lone(w)' => ~Late(w),
         Saves', \A n \in 1 .. lines : Settled(n)'
  PROVE  LogInv'
  <1>1. TypeOK' BY DEF LogInv, TypeOK, Phases
  <1>2. \A w \in Writers : /\ Lone(w)' => Lone(w)
                           /\ Late(w)' <=> Late(w)
    BY DEF Lone, Late
  <1>3. Hands' BY <1>2 DEF LogInv, Hands
  <1>4. Room'
    <2>1. ASSUME NEW w \in Writers, Lone(w)'
          PROVE  wpc[w] \notin {"copy", "load", "store"} /\ size'[active] + LineLen <= BUF_SIZE
      <3>1. wpc[w] \notin {"copy", "load", "store"} BY <2>1 DEF Late
      <3>2. wpc[w] = "wait" /\ Lone(w)
        BY <1>2, <2>1, <3>1 DEF Lone, LogInv, TypeOK
      <3>3. size[active] + LineLen <= BUF_SIZE BY <3>2 DEF LogInv, Room
      <3>4. active \in Bufs BY DEF LogInv, TypeOK
      <3> QED BY <3>1, <3>3, <3>4, Constants
    <2> QED BY <2>1 DEF Room
  <1>5. Found' BY DEF Found
  <1> QED BY <1>1, <1>3, <1>4, <1>5 DEF LogInv

LEMMA QuietKeeps ==
  ASSUME LogInv,
         ScanDone \/ BleDone \/ Skip \/ SaveNothing \/ SaveBegin \/ SaveFails \/ UNCHANGED vars
  PROVE  LogInv'
  <1>1. /\ saving \in BOOLEAN /\ excused \subseteq 0 .. MaxLines /\ writing \in BOOLEAN
        /\ phase \in Phases /\ live \subseteq Writers
    BY DEF LogInv, TypeOK, Phases
  <1>2. Saves BY DEF LogInv
  <1>3. CASE ScanDone
    <2>1. live' \subseteq Writers BY <1>1, <1>3 DEF ScanDone
    <2>2. phase = "scan" /\ phase' = "swarm" BY <1>3 DEF ScanDone
    <2>3. Saves' BY <1>2, <1>3, <2>2 DEF Saves, ScanDone, state
    <2> QED BY <1>1, <1>3, <2>1, <2>2, <2>3, LoopKeeps
          DEF ScanDone, state, writer, history, ToWrite, Phases
  <1>4. CASE BleDone
    <2>1. live' \subseteq Writers BY <1>1, <1>4 DEF BleDone
    <2>2. Saves' BY <1>2, <1>4 DEF Saves, BleDone, state
    <2> QED BY <1>1, <1>4, <2>1, <2>2, LoopKeeps
          DEF BleDone, state, writer, history, ToWrite
  <1>5. CASE Skip
    <2>1. /\ phase \in {"swarm", "header", "title", "menu"} /\ phase' \in {"save", "scan"}
          /\ UNCHANGED <<state, card, live, writer, history>>
      BY <1>5 DEF Skip, Stay
    <2>2. Saves' BY <1>2, <2>1 DEF Saves, state
    <2> QED BY <1>1, <2>1, <2>2, LoopKeeps DEF state, writer, history, ToWrite, Phases
  <1>6. CASE SaveNothing
    <2>1. /\ phase = "save" /\ phase' = "menu"
          /\ UNCHANGED <<state, card, live, writer, history>>
      BY <1>6 DEF SaveNothing
    <2>2. Saves' BY <1>2, <2>1 DEF Saves, state
    <2> QED BY <1>1, <2>1, <2>2, LoopKeeps DEF state, writer, history, ToWrite, Phases
  <1>7. CASE SaveBegin
    <2>1. /\ phase = "save" /\ phase' = "file" /\ saving' = TRUE /\ raced' = raced \cup Underway
          /\ UNCHANGED <<mem, size, active, writing, card, live, writer, lines, excused>>
      BY <1>7 DEF SaveBegin
    <2>2. Saves' BY <2>1 DEF Saves
    <2> QED BY <1>1, <2>1, <2>2, LoopKeeps DEF writer, ToWrite, Phases
  <1>8. CASE SaveFails
    <2>1. /\ phase = "file" /\ phase' = "zeroA" /\ excused' = excused \cup Unsaved
          /\ UNCHANGED <<state, card, live, writer, lines, raced>>
      BY <1>8 DEF SaveFails
    <2>2. /\ excused' \subseteq 0 .. MaxLines
          /\ \A n \in 1 .. lines, b \in Bufs : Holds(n, b) => n \in excused'
      BY <1>1, <2>1, UnsavedIs DEF LogInv
    <2>3. Saves' BY <1>2, <2>1 DEF Saves, state
    <2> QED BY <1>1, <2>1, <2>2, <2>3, LoopKeeps DEF state, writer, ToWrite, Phases
  <1>9. CASE UNCHANGED vars
    <2>1. Saves' BY <1>2, <1>9 DEF Saves, vars, state
    <2> QED BY <1>1, <1>9, <2>1, LoopKeeps DEF vars, state, writer, history, ToWrite
  <1> QED BY <1>3, <1>4, <1>5, <1>6, <1>7, <1>8, <1>9

\* openFile: what it empties it excuses, and a line past the wait is raced.
LEMMA OpenKeeps ==
  ASSUME LogInv, NEW to \in {"header", "title"}, Open(to), phase \in {"swarm", "menu"}
  PROVE  LogInv'
  <1>1. /\ mem' = mem /\ active' = active /\ saving' = saving /\ card' = card /\ lines' = lines
        /\ wpc' = wpc /\ wline' = wline /\ wbuf' = wbuf /\ wreg' = wreg /\ phase' = to
        /\ live' = live \cup {"main"} /\ writing' \in BOOLEAN
    BY DEF Open, writer
  <1>2. /\ saving' \in BOOLEAN /\ live' \subseteq Writers /\ phase' \in Phases
        /\ phase' # "overrun"
    BY <1>1, Constants DEF LogInv, TypeOK, Phases
  <1>3. Saves' BY <1>1 DEF LogInv, Saves
  <1>4. CASE writing'
    <2>1. /\ size' = [b \in Bufs |-> 0] /\ excused' = excused \cup Unsaved
          /\ raced' = raced \cup Underway
      BY <1>4 DEF Open
    <2>2. size' \in [Bufs -> 0 .. BUF_SIZE] /\ \A b \in Bufs : size'[b] = 0 BY <2>1, Constants
    <2>3. excused' \subseteq 0 .. MaxLines BY <2>1, UnsavedIs DEF LogInv, TypeOK
    <2>4. raced' \subseteq 1 .. MaxLines
      <3>1. Underway \subseteq 1 .. MaxLines BY HandIs, HandType
      <3> QED BY <2>1, <3>1 DEF LogInv, TypeOK
    <2>5. ASSUME NEW w \in Writers, Lone(w)' PROVE ~Late(w)
      BY <1>1, <2>1, <2>5, HandIs DEF Lone
    <2>6. ASSUME NEW n \in 1 .. lines PROVE Settled(n)'
      <3>1. InHand' = InHand /\ OnCard' = OnCard BY <1>1 DEF InHand, OnCard
      <3>2. Settled(n) \/ n \in Unsaved BY UnsavedIs DEF LogInv, Found
      <3> QED BY <2>1, <3>1, <3>2 DEF Settled
    <2> QED BY <1>1, <1>2, <1>3, <2>1, <2>2, <2>3, <2>4, <2>5, <2>6, EmptyKeeps
  <1>5. CASE ~writing'
    <2>1. size' = size /\ excused' = excused /\ raced' = raced BY <1>5 DEF Open
    <2>2. excused' \subseteq 0 .. MaxLines BY <2>1 DEF LogInv, TypeOK
    <2>3. \A b \in Bufs : ToWrite(b)' BY <1>1 DEF ToWrite
    <2> QED BY <1>1, <1>2, <1>3, <2>1, <2>2, <2>3, LoopKeeps
  <1> QED BY <1>1, <1>4, <1>5

\* A buffer written behind the card.
LEMMA CardGrows ==
  ASSUME TypeOK, NEW b \in Bufs, card' = card \o Held(b)
  PROVE  card' \in Seq(Bytes) /\ OnCard' = OnCard \cup InMem(b)
  <1>1. /\ card \in Seq(Bytes) /\ Held(b) \in Seq(Bytes) /\ Len(Held(b)) = size[b]
        /\ InMem(b) = {Held(b)[i].line : i \in 1 .. size[b]}
    BY HeldIs DEF TypeOK
  <1>2. PICK s, t : s = card /\ t = Held(b)
    OBVIOUS
  <1>3. /\ s \in Seq(Bytes) /\ t \in Seq(Bytes) /\ Len(s) \in Nat /\ Len(t) \in Nat
        /\ DOMAIN s = 1 .. Len(s)
    BY <1>1, <1>2
  <1> DEFINE u == s \o t
  <1>4. /\ u \in Seq(Bytes) /\ Len(u) = Len(s) + Len(t)
        /\ \A i \in 1 .. Len(s) + Len(t) : u[i] = IF i <= Len(s) THEN s[i] ELSE t[i - Len(s)]
    BY <1>3, ConcatProperties
  <1> HIDE DEF u
  <1>5. DOMAIN u = 1 .. Len(s) + Len(t) BY <1>3, <1>4
  <1>6. ASSUME NEW i \in 1 .. Len(s) + Len(t)
        PROVE  (i \in 1 .. Len(s) /\ u[i] = s[i]) \/ \E j \in 1 .. Len(t) : u[i] = t[j]
    <2>1. CASE i <= Len(s) BY <1>3, <1>4, <2>1
    <2>2. CASE ~(i <= Len(s))
      <3>1. i - Len(s) \in 1 .. Len(t) BY <1>3, <2>2
      <3> QED BY <1>4, <2>2, <3>1
    <2> QED BY <2>1, <2>2
  <1>7. ASSUME NEW i \in 1 .. Len(s) PROVE i \in 1 .. Len(s) + Len(t) /\ u[i] = s[i]
    BY <1>3, <1>4
  <1>8. ASSUME NEW j \in 1 .. Len(t)
        PROVE  \E i \in 1 .. Len(s) + Len(t) : u[i] = t[j]
    <2>1. /\ Len(s) + j \in 1 .. Len(s) + Len(t) /\ ~(Len(s) + j <= Len(s))
          /\ Len(s) + j - Len(s) = j
      BY <1>3
    <2>2. u[Len(s) + j] = t[j] BY <1>4, <2>1
    <2> QED BY <2>1, <2>2
  <1>9. /\ OnCard = {s[i].line : i \in 1 .. Len(s)}
        /\ OnCard' = {u[i].line : i \in 1 .. Len(s) + Len(t)}
        /\ InMem(b) = {t[j].line : j \in 1 .. Len(t)}
    <2>1. card = s /\ card' = u /\ Len(t) = size[b] BY <1>1, <1>2 DEF u
    <2>2. OnCard = {s[i].line : i \in 1 .. Len(s)} BY <1>3, <2>1 DEF OnCard
    <2>3. OnCard' = {u[i].line : i \in 1 .. Len(s) + Len(t)} BY <1>5, <2>1 DEF OnCard
    <2> QED BY <1>1, <1>2, <2>1, <2>2, <2>3
  <1>10. OnCard' \subseteq OnCard \cup InMem(b) BY <1>6, <1>9
  <1>11. OnCard \subseteq OnCard' BY <1>7, <1>9
  <1>12. InMem(b) \subseteq OnCard' BY <1>8, <1>9
  <1>13. card' \in Seq(Bytes) BY <1>2, <1>4 DEF u
  <1> QED BY <1>10, <1>11, <1>12, <1>13

\* A save writes the buffer that is not in use, then the other.
LEMMA WriteKeeps ==
  ASSUME LogInv, SaveFirst \/ \E b \in Bufs : SaveSecond(b)
  PROVE  LogInv'
  <1>1. /\ mem' = mem /\ size' = size /\ active' = active /\ writing' = writing
        /\ saving' = saving /\ live' = live /\ wpc' = wpc /\ wline' = wline
        /\ wbuf' = wbuf /\ wreg' = wreg /\ lines' = lines /\ excused' = excused /\ raced' = raced
        /\ phase \in {"file", "secondA", "secondB"} /\ phase' \in {"secondA", "secondB", "zeroA"}
    BY DEF SaveFirst, SaveSecond, state, writer, history
  <1>2. active \in Bufs BY DEF LogInv, TypeOK
  <1>3. PICK b \in Bufs : /\ card' = card \o Held(b)
                          /\ \A c \in Bufs : ToWrite(c) => c = b \/ ToWrite(c)'
    <2>1. CASE SaveFirst
      <3>1. PICK a \in Bufs : a = active BY <1>2
      <3>2. card' = card \o Held(Other(a)) BY <2>1, <3>1 DEF SaveFirst
      <3>3. ToWrite(a)' BY <2>1, <3>1 DEF SaveFirst, ToWrite, Bufs
      <3>4. Other(a) \in Bufs /\ \A c \in Bufs : c = a \/ c = Other(a) BY TwoBufs
      <3> QED BY <3>2, <3>3, <3>4
    <2>2. ASSUME NEW b \in Bufs, SaveSecond(b)
          PROVE  card' = card \o Held(b) /\ \A c \in Bufs : ToWrite(c) => c = b
      <3>1. card' = card \o Held(b) /\ phase = IF b = "A" THEN "secondA" ELSE "secondB"
        BY <2>2 DEF SaveSecond
      <3>2. b = "A" \/ b = "B" BY DEF Bufs
      <3> QED BY <3>1, <3>2 DEF ToWrite
    <2> QED BY <2>1, <2>2
  <1>4. card' \in Seq(Bytes) /\ OnCard' = OnCard \cup InMem(b) BY <1>3, CardGrows DEF LogInv
  <1>5. TypeOK' BY <1>1, <1>4 DEF LogInv, TypeOK
  <1>6. Hands' BY <1>1 DEF LogInv, Hands, Lone, Late
  <1>7. Room' BY <1>1 DEF LogInv, Room, Lone
  <1>8. Saves' BY <1>1 DEF LogInv, Saves
  <1>9. Found'
    <2> SUFFICES ASSUME NEW n \in 1 .. lines
                 PROVE  Settled(n)' \/ \E c \in Bufs : ToWrite(c)' /\ Holds(n, c)'
      BY <1>1 DEF Found
    <2>1. InHand' = InHand BY <1>1 DEF InHand
    <2>2. CASE Settled(n) BY <1>1, <1>4, <2>1, <2>2 DEF Settled
    <2>3. ASSUME NEW c \in Bufs, ToWrite(c), Holds(n, c)
          PROVE  n \in OnCard' \/ (ToWrite(c)' /\ Holds(n, c)')
      <3>1. n \in InMem(c) BY <2>3, UnsavedIs DEF LogInv
      <3>2. Holds(n, c)' BY <1>1, <2>3 DEF Holds
      <3> QED BY <1>3, <1>4, <2>3, <3>1, <3>2
    <2> QED BY <2>2, <2>3 DEF LogInv, Found, Settled
  <1> QED BY <1>5, <1>6, <1>7, <1>8, <1>9 DEF LogInv

LEMMA ZeroKeeps ==
  ASSUME LogInv, ZeroA \/ ZeroB
  PROVE  LogInv'
  <1>1. /\ mem' = mem /\ active' = active /\ writing' = writing /\ card' = card
        /\ live' = live /\ wpc' = wpc /\ wline' = wline /\ wbuf' = wbuf /\ wreg' = wreg
        /\ lines' = lines /\ excused' = excused /\ raced' = raced
        /\ phase \in {"zeroA", "zeroB"} /\ phase' \in {"zeroB", "menu"}
        /\ (saving' = saving /\ phase' = "zeroB") \/ (saving' = FALSE /\ phase' = "menu")
    BY DEF ZeroA, ZeroB, writer, history
  <1>2. PICK b \in Bufs : size' = [size EXCEPT ![b] = 0]
    BY TwoBufs DEF ZeroA, ZeroB, Bufs
  <1>3. size' \in [Bufs -> 0 .. BUF_SIZE] /\ \A c \in Bufs : size'[c] = size[c] \/ size'[c] = 0
    <2>1. 0 \in 0 .. BUF_SIZE BY Constants
    <2> QED BY <1>2, <2>1 DEF LogInv, TypeOK
  <1>4. saving BY <1>1 DEF LogInv, Saves
  <1>5. Saves' /\ saving' \in BOOLEAN BY <1>1, <1>4 DEF Saves
  <1>6. \A w \in Writers : Lone(w)' => ~Late(w) BY <1>1, <1>4 DEF LogInv, Hands, Lone
  <1>7. ASSUME NEW n \in 1 .. lines PROVE Settled(n)'
    <2>1. Settled(n) BY <1>1 DEF LogInv, Found, ToWrite
    <2>2. InHand' = InHand /\ OnCard' = OnCard BY <1>1 DEF InHand, OnCard
    <2> QED BY <1>1, <2>1, <2>2 DEF Settled
  <1>8. /\ writing' \in BOOLEAN /\ live' \subseteq Writers /\ phase' \in Phases
        /\ phase' # "overrun" /\ excused' \subseteq 0 .. MaxLines /\ raced' \subseteq 1 .. MaxLines
    BY <1>1 DEF LogInv, TypeOK, Phases
  <1> QED BY <1>1, <1>3, <1>5, <1>6, <1>7, <1>8, EmptyKeeps

LEMMA LogStep == LogInv /\ [Next]_vars => LogInv'
  <1> SUFFICES ASSUME LogInv, [Next]_vars PROVE LogInv'
    OBVIOUS
  <1>1. CASE SwarmStart \/ MenuStart
    <2>1. \E to \in {"header", "title"} : Open(to) /\ phase \in {"swarm", "menu"}
      BY <1>1 DEF SwarmStart, MenuStart
    <2> QED BY <2>1, OpenKeeps
  <1>2. CASE Loop
    BY <1>1, <1>2, QuietKeeps, WriteKeeps, ZeroKeeps DEF Loop, Save
  <1>3. CASE BleDone \/ UNCHANGED vars BY <1>3, QuietKeeps
  <1>4. ASSUME NEW w \in Writers, Add(w) \/ Write(w) PROVE LogInv'
    BY <1>4, AddKeeps, WaitedKeeps, CopyKeeps, LoadKeeps, StoreKeeps DEF Write
  <1> QED BY <1>2, <1>3, <1>4 DEF Next

LEMMA LogAlways == Spec => []LogInv
  <1> QED BY InitLog, LogStep, PTL DEF Spec

---------------------------------------------------------------------------
(* What a line may be lost to *)

\* Every variable keeps its type, and no append is written past the end of a
\* buffer unless it overlapped another, a save or an open.
THEOREM LogTypes == Spec => []TypeOK
  <1>1. LogInv => TypeOK BY DEF LogInv
  <1> QED BY <1>1, LogAlways, PTL

\* No line add() took is lost but with the card, to a new log, or to a race of
\* its own append.
THEOREM LogOnlyRacedLost == Spec => []OnlyRacedLost
  <1>1. LogInv => OnlyRacedLost
    <2>1. ASSUME LogInv, NEW n \in 1 .. lines PROVE Kept(n) \/ n \in raced
      BY <2>1, UnsavedIs DEF LogInv, Found, Settled, Kept
    <2> QED BY <2>1 DEF OnlyRacedLost
  <1> QED BY <1>1, LogAlways, PTL
---------------------------------------------------------------------------
(* The order of the lines, as long as nothing overlapped *)

\* Whole lines in order, as WholeLinesInOrder says it of the card; that every
\* line is complete is said of each byte.
Whole(s) ==
  \A i \in 1 .. Len(s) :
    /\ s[i].line # 0 /\ s[i].part # 0
    /\ i + LineLen - s[i].part <= Len(s)
    /\ s[i].part > 1 => i > 1 /\ s[i - 1] = [line |-> s[i].line, part |-> s[i].part - 1]
    /\ (s[i].part = 1 /\ i > 1) => s[i - 1].part = LineLen /\ s[i - 1].line < s[i].line

Before(s, t) == \A i \in 1 .. Len(s), j \in 1 .. Len(t) : s[i].line < t[j].line
Below(s, n)  == \A i \in 1 .. Len(s) : s[i].line < n

Contents == Whole(card) /\ \A b \in Bufs : Whole(Held(b))
Numbers  == Below(card, lines + 1) /\ \A b \in Bufs : Below(Held(b), lines + 1)

\* The buffer in use holds the newest lines, the other one older ones, the card
\* the oldest, until save() has written them.
InOrder ==
  /\ \A b \in Bufs : ToWrite(b) => Before(card, Held(b))
  /\ phase \notin {"secondA", "secondB", "zeroA", "zeroB"} =>
       Before(Held(Other(active)), Held(active))
  /\ phase = "zeroB" => size["A"] = 0

\* A line in hand is the newest, and goes behind all others.
Newest ==
  \A w \in Writers :
    /\ wpc[w] # "idle" => /\ Below(card, wline[w])
                         /\ \A b \in Bufs : Below(Held(b), wline[w])
    /\ wpc[w] \in {"load", "store"} => wbuf[w] = active \/ size[active] = 0

OrderInv == raced = {} => Contents /\ Numbers /\ InOrder /\ Newest

LEMMA ByteIs ==
  ASSUME NEW x \in Bytes
  PROVE  x.line \in 0 .. MaxLines /\ x.part \in 0 .. LineLen /\ x.line \in Nat /\ x.part \in Nat
  <1>1. x.line \in 0 .. MaxLines /\ x.part \in 0 .. LineLen BY DEF Bytes
  <1> QED BY <1>1

\* Older whole lines followed by newer ones.
LEMMA JoinWhole ==
  ASSUME NEW s \in Seq(Bytes), NEW t \in Seq(Bytes), Whole(s), Whole(t), Before(s, t)
  PROVE  /\ s \o t \in Seq(Bytes) /\ Whole(s \o t)
         /\ \A i \in 1 .. Len(s \o t) : \/ \E j \in 1 .. Len(s) : (s \o t)[i] = s[j]
                                        \/ \E j \in 1 .. Len(t) : (s \o t)[i] = t[j]
         /\ \A j \in 1 .. Len(s) : \E i \in 1 .. Len(s \o t) : (s \o t)[i] = s[j]
         /\ \A j \in 1 .. Len(t) : \E i \in 1 .. Len(s \o t) : (s \o t)[i] = t[j]
  <1> DEFINE u == s \o t
  <1>1. /\ u \in Seq(Bytes) /\ Len(u) = Len(s) + Len(t) /\ Len(s) \in Nat /\ Len(t) \in Nat
        /\ \A i \in 1 .. Len(s) : u[i] = s[i] /\ s[i] \in Bytes
        /\ \A i \in 1 .. Len(t) : u[Len(s) + i] = t[i] /\ t[i] \in Bytes
    BY ConcatProperties
  <1>2. \A i \in 1 .. Len(u) : i \in 1 .. Len(s) \/ i - Len(s) \in 1 .. Len(t)
    BY <1>1
  <1>3. \A i \in 1 .. Len(u) : \/ i \in 1 .. Len(s) /\ u[i] = s[i]
                               \/ i - Len(s) \in 1 .. Len(t) /\ u[i] = t[i - Len(s)]
    BY <1>1, <1>2
  <1>4. Len(u) = Len(s) + Len(t) /\ Len(s) \in Nat /\ Len(t) \in Nat BY <1>1
  <1> HIDE DEF u
  <1>5. Whole(u)
    <2> SUFFICES ASSUME NEW i \in 1 .. Len(u)
                 PROVE  /\ u[i].line # 0 /\ u[i].part # 0
                        /\ i + LineLen - u[i].part <= Len(u)
                        /\ u[i].part > 1 =>
                             i > 1 /\ u[i - 1] = [line |-> u[i].line, part |-> u[i].part - 1]
                        /\ (u[i].part = 1 /\ i > 1) =>
                             u[i - 1].part = LineLen /\ u[i - 1].line < u[i].line
      BY DEF Whole
    <2>1. CASE i \in 1 .. Len(s)
      <3>1. u[i] = s[i] /\ (i > 1 => u[i - 1] = s[i - 1])
        <4>1. i > 1 => i - 1 \in 1 .. Len(s) BY <2>1
        <4>2. \A k \in 1 .. Len(s) : u[k] = s[k] BY <1>1
        <4> QED BY <2>1, <4>1, <4>2
      <3>2. s[i].part \in Nat BY <1>1, <2>1, ByteIs
      <3>3. /\ s[i].line # 0 /\ s[i].part # 0
            /\ i + LineLen - s[i].part <= Len(s)
            /\ s[i].part > 1 => i > 1 /\ s[i - 1] = [line |-> s[i].line, part |-> s[i].part - 1]
            /\ (s[i].part = 1 /\ i > 1) => s[i - 1].part = LineLen /\ s[i - 1].line < s[i].line
        BY <2>1 DEF Whole
      <3>4. i + LineLen - s[i].part <= Len(u)
        <4> DEFINE q == s[i].part
        <4>1. i + LineLen - q <= Len(s) /\ q \in Nat /\ i \in Nat BY <2>1, <3>2, <3>3
        <4> HIDE DEF q
        <4>2. i + LineLen - q <= Len(u) BY <1>4, <4>1, Constants
        <4> QED BY <4>2 DEF q
      <3> QED BY <3>1, <3>3, <3>4
    <2>2. CASE i - Len(s) \in 1 .. Len(t) /\ i - Len(s) > 1
      <3> DEFINE j == i - Len(s)
      <3>1. u[i] = t[j] /\ u[i - 1] = t[j - 1] /\ j \in 1 .. Len(t) /\ j > 1
        <4>1. /\ j \in 1 .. Len(t) /\ j - 1 \in 1 .. Len(t) /\ j > 1
              /\ Len(s) + j = i /\ Len(s) + (j - 1) = i - 1
          BY <1>4, <2>2
        <4>2. \A k \in 1 .. Len(t) : u[Len(s) + k] = t[k] BY <1>1
        <4> HIDE DEF j
        <4>3. u[Len(s) + j] = t[j] /\ u[Len(s) + (j - 1)] = t[j - 1] BY ONLY <4>1, <4>2
        <4> QED BY <4>1, <4>3
      <3>2. t[j].part \in Nat BY <1>1, <2>2, ByteIs
      <3>3. /\ t[j].line # 0 /\ t[j].part # 0
            /\ j + LineLen - t[j].part <= Len(t)
            /\ t[j].part > 1 => t[j - 1] = [line |-> t[j].line, part |-> t[j].part - 1]
            /\ t[j].part = 1 => t[j - 1].part = LineLen /\ t[j - 1].line < t[j].line
        BY <3>1 DEF Whole
      <3>4. i = Len(s) + j /\ i > 1 BY <1>1, <2>2
      <3> HIDE DEF j
      <3>5. i + LineLen - t[j].part <= Len(u)
        <4> DEFINE q == t[j].part
        <4>1. j + LineLen - q <= Len(t) /\ q \in Nat /\ j \in Nat BY <3>1, <3>2, <3>3
        <4> HIDE DEF q
        <4>2. i + LineLen - q <= Len(u) BY <1>4, <3>4, <4>1, Constants
        <4> QED BY <4>2 DEF q
      <3> QED BY <3>1, <3>3, <3>4, <3>5
    <2>3. CASE i = Len(s) + 1 /\ 1 \in 1 .. Len(t)
      <3>1. u[i] = t[1] /\ t[1] \in Bytes BY <1>1, <2>3
      <3>2. t[1].part \in Nat /\ t[1].line \in Nat BY <3>1, ByteIs
      <3>3. /\ t[1].line # 0 /\ t[1].part # 0 /\ ~(t[1].part > 1)
            /\ 1 + LineLen - t[1].part <= Len(t)
        <4>1. \A j \in 1 .. Len(t) : /\ t[j].line # 0 /\ t[j].part # 0
                                     /\ j + LineLen - t[j].part <= Len(t)
                                     /\ t[j].part > 1 => j > 1
          BY DEF Whole
        <4>2. 1 \in 1 .. Len(t) BY <2>3
        <4>3. ~(1 > 1) OBVIOUS
        <4> QED BY <4>1, <4>2, <4>3
      <3>6. t[1].part = 1 BY <3>2, <3>3
      <3>4. CASE Len(s) = 0 BY <1>1, <2>3, <3>1, <3>3, <3>4, <3>6
      <3>5. CASE Len(s) > 0
        <4>1. Len(s) \in 1 .. Len(s) /\ i - 1 = Len(s) /\ u[i - 1] = s[Len(s)]
          BY <1>1, <2>3, <3>5
        <4>2. s[Len(s)].part \in 0 .. LineLen BY <1>1, <4>1, ByteIs
        <4>3. Len(s) + LineLen - s[Len(s)].part <= Len(s) BY <4>1 DEF Whole
        <4>4. s[Len(s)].part = LineLen BY <1>1, <4>2, <4>3, Constants
        <4>5. s[Len(s)].line < t[1].line BY <2>3, <4>1 DEF Before
        <4>6. i + LineLen - 1 <= Len(u) BY <1>4, <2>3, <3>3, <3>6, Constants
        <4>7. u[i - 1].part = LineLen /\ u[i - 1].line < u[i].line BY <3>1, <4>1, <4>4, <4>5
        <4>8. u[i].part = 1 /\ ~(1 > 1) BY <3>1, <3>6
        <4>9. i + LineLen - u[i].part <= Len(u) BY <4>6, <4>8
        <4>10. ~(u[i].part > 1) /\ u[i].line # 0 /\ u[i].part # 0 BY <3>1, <3>3, <4>8
        <4> QED BY <4>7, <4>9, <4>10
      <3>7. Len(s) = 0 \/ Len(s) > 0 BY <1>1
      <3> QED BY <3>4, <3>5, <3>7
    <2>4. \/ i \in 1 .. Len(s)
          \/ i - Len(s) \in 1 .. Len(t) /\ i - Len(s) > 1
          \/ i = Len(s) + 1 /\ 1 \in 1 .. Len(t)
      BY <1>2, <1>4
    <2> QED BY <2>1, <2>2, <2>3, <2>4
  <1>6. \A j \in 1 .. Len(s) : j \in 1 .. Len(u) /\ u[j] = s[j] BY <1>1
  <1>7. \A j \in 1 .. Len(t) : Len(s) + j \in 1 .. Len(u) /\ u[Len(s) + j] = t[j] BY <1>1
  <1>8. \A i \in 1 .. Len(u) : \/ \E j \in 1 .. Len(s) : u[i] = s[j]
                               \/ \E j \in 1 .. Len(t) : u[i] = t[j]
    BY <1>3
  <1>9. u \in Seq(Bytes) BY <1>1
  <1> QED BY <1>5, <1>6, <1>7, <1>8, <1>9 DEF u

LEMMA LineWhole ==
  ASSUME NEW n \in 1 .. MaxLines
  PROVE  /\ Line(n) \in Seq(Bytes) /\ Len(Line(n)) = LineLen /\ Whole(Line(n))
         /\ \A k \in 1 .. LineLen : Line(n)[k] = [line |-> n, part |-> k]
  <1>1. \A k \in 1 .. LineLen : [line |-> n, part |-> k] \in Bytes BY DEF Bytes
  <1>2. Line(n) \in Seq(Bytes) /\ Len(Line(n)) = LineLen BY <1>1, Constants DEF Line
  <1>3. \A k \in 1 .. LineLen : Line(n)[k] = [line |-> n, part |-> k] BY DEF Line
  <1>4. \A k \in 1 .. LineLen : k > 1 => k - 1 \in 1 .. LineLen BY Constants
  <1>5. Whole(Line(n)) BY <1>2, <1>3, <1>4 DEF Whole
  <1> QED BY <1>2, <1>3, <1>5

LEMMA LineAppended ==
  ASSUME NEW s \in Seq(Bytes), NEW n \in 1 .. MaxLines, NEW m,
         \A i \in 1 .. Len(s) : m[i - 1] = s[i],
         \A k \in 1 .. LineLen : m[Len(s) + k - 1] = [line |-> n, part |-> k]
  PROVE  [i \in 1 .. Len(s) + LineLen |-> m[i - 1]] = s \o Line(n)
  <1> DEFINE h == s \o Line(n)
             l == Line(n)
  <1>1. /\ l \in Seq(Bytes) /\ Len(l) = LineLen
        /\ \A k \in 1 .. LineLen : l[k] = [line |-> n, part |-> k]
    BY LineWhole
  <1>2. Len(s) \in Nat OBVIOUS
  <1> HIDE DEF l
  <1>3. /\ s \o l \in Seq(Bytes) /\ Len(s \o l) = Len(s) + Len(l)
        /\ \A i \in 1 .. Len(s) : (s \o l)[i] = s[i]
        /\ \A i \in 1 .. Len(l) : (s \o l)[Len(s) + i] = l[i]
    <2>1. /\ s \o l \in Seq(Bytes) /\ Len(s \o l) = Len(s) + Len(l)
          /\ \A i \in 1 .. Len(s) + Len(l) : (s \o l)[i] = IF i <= Len(s) THEN s[i] ELSE l[i - Len(s)]
      <3>1. s \in Seq(Bytes) /\ l \in Seq(Bytes) BY <1>1
      <3> QED BY ONLY <3>1, ConcatProperties
    <2>2. Len(l) \in Nat /\ Len(s) \in Nat BY <1>1, <1>2
    <2>3. ASSUME NEW i \in 1 .. Len(s) PROVE (s \o l)[i] = s[i]
      BY <2>1, <2>2
    <2>4. ASSUME NEW i \in 1 .. Len(l) PROVE (s \o l)[Len(s) + i] = l[i]
      <3>1. Len(s) + i \in 1 .. Len(s) + Len(l) /\ ~(Len(s) + i <= Len(s)) /\ Len(s) + i - Len(s) = i
        BY <2>2
      <3> QED BY <2>1, <3>1
    <2> QED BY <2>1, <2>3, <2>4
  <1>4. h = s \o l BY DEF l
  <1> HIDE DEF h
  <1>5. \A i \in 1 .. Len(s) + LineLen : i \in 1 .. Len(s) \/ i - Len(s) \in 1 .. LineLen
    BY <1>2, Constants
  <1>6. ASSUME NEW i \in 1 .. Len(s) + LineLen PROVE h[i] = m[i - 1]
    <2>1. CASE i \in 1 .. Len(s) BY <1>3, <1>4, <2>1
    <2>2. CASE i - Len(s) \in 1 .. LineLen
      <3>1. Len(s) + (i - Len(s)) = i BY <1>2
      <3>2. h[i] = [line |-> n, part |-> i - Len(s)] BY <1>1, <1>3, <1>4, <2>2, <3>1
      <3>3. m[Len(s) + (i - Len(s)) - 1] = [line |-> n, part |-> i - Len(s)]
        BY <2>2
      <3> QED BY <3>1, <3>2, <3>3
    <2> QED BY <1>5, <2>1, <2>2
  <1>7. h \in Seq(Bytes) /\ Len(h) = Len(s) + LineLen BY <1>1, <1>3, <1>4
  <1>8. h = [i \in 1 .. Len(s) + LineLen |-> h[i]] BY <1>7
  <1>9. s \o Line(n) = h BY DEF h
  <1> QED BY <1>6, <1>8, <1>9

LEMMA Hollow ==
  /\ Whole(<<>>) /\ \A n : Below(<<>>, n)
  /\ \A s : Before(s, <<>>) /\ Before(<<>>, s)
  <1>1. Len(<<>>) = 0 /\ 1 .. 0 = {} OBVIOUS
  <1> QED BY <1>1 DEF Whole, Below, Before

LEMMA HeldWhen ==
  ASSUME NEW b
  PROVE  /\ (mem' = mem /\ size'[b] = size[b]) => Held(b)' = Held(b)
         /\ size'[b] = 0 => Held(b)' = <<>>
         /\ size[b] = 0 => Held(b) = <<>>
  <1>1. 1 .. 0 = {} OBVIOUS
  <1> QED BY <1>1 DEF Held

\* A step that writes, moves and empties nothing.
LEMMA QuietOrder ==
  ASSUME OrderInv, raced \subseteq raced',
         size' = size, active' = active, card' = card, lines' = lines, wline' = wline,
         \A b \in Bufs : Held(b)' = Held(b),
         \A w \in Writers : wpc'[w] # "idle" => wpc[w] # "idle",
         \A w \in Writers : wpc'[w] \in {"load", "store"} =>
           wbuf'[w] = active \/ (wpc[w] \in {"load", "store"} /\ wbuf'[w] = wbuf[w]),
         \A b \in Bufs : ToWrite(b)' => ToWrite(b),
         phase' \in {"secondA", "secondB", "zeroA", "zeroB"}
           \/ phase \notin {"secondA", "secondB", "zeroA", "zeroB"},
         phase' = "zeroB" => phase = "zeroB",
         active \in Bufs
  PROVE  OrderInv'
  <1> SUFFICES ASSUME raced' = {} PROVE Contents' /\ Numbers' /\ InOrder' /\ Newest'
    BY DEF OrderInv
  <1>1. Contents /\ Numbers /\ InOrder /\ Newest BY DEF OrderInv
  <1>2. Contents' BY <1>1 DEF Contents, Whole
  <1>3. Numbers' BY <1>1 DEF Numbers, Below
  <1>4. InOrder'
    <2>0. PICK a, o : a = active /\ o = Other(active) OBVIOUS
    <2>1. a \in Bufs /\ o \in Bufs BY <2>0, TwoBufs
    <2>2. ASSUME NEW b \in Bufs, ToWrite(b)' PROVE Before(card, Held(b))'
      <3>1. Before(card, Held(b)) BY <1>1, <2>2 DEF InOrder
      <3> QED BY <3>1 DEF Before
    <2>3. /\ Held(active)' = Held(a) /\ Held(Other(active))' = Held(o)
      <3>1. active' = a /\ Other(active)' = o BY <2>0 DEF Other
      <3>2. Held(active)' = Held(a)' BY <3>1 DEF Held
      <3>3. Held(Other(active))' = Held(o)' BY <3>1 DEF Held
      <3> QED BY <2>1, <3>2, <3>3
    <2>4. phase' \notin {"secondA", "secondB", "zeroA", "zeroB"} =>
            Before(Held(Other(active)), Held(active))'
      <3>1. phase' \notin {"secondA", "secondB", "zeroA", "zeroB"} => Before(Held(o), Held(a))
        BY <1>1, <2>0 DEF InOrder
      <3> QED BY <2>3, <3>1 DEF Before
    <2>5. phase' = "zeroB" => size'["A"] = 0 BY <1>1 DEF InOrder
    <2> QED BY <2>2, <2>4, <2>5 DEF InOrder
  <1>5. Newest'
    <2>1. ASSUME NEW w \in Writers, wpc'[w] # "idle"
          PROVE  Below(card, wline[w])' /\ \A b \in Bufs : Below(Held(b), wline[w])'
      <3>1. Below(card, wline[w]) /\ \A b \in Bufs : Below(Held(b), wline[w])
        BY <1>1, <2>1 DEF Newest
      <3> QED BY <3>1 DEF Below
    <2>2. ASSUME NEW w \in Writers, wpc'[w] \in {"load", "store"}
          PROVE  wbuf'[w] = active' \/ size'[active'] = 0
      BY <1>1, <2>2 DEF Newest
    <2> QED BY <2>1, <2>2 DEF Newest
  <1> QED BY <1>2, <1>3, <1>4, <1>5

\* A step that empties buffers.
LEMMA EmptyOrder ==
  ASSUME OrderInv, raced \subseteq raced', active \in Bufs,
         mem' = mem, active' = active, card' = card, lines' = lines,
         wpc' = wpc, wline' = wline, wbuf' = wbuf,
         \A b \in Bufs : size'[b] = size[b] \/ size'[b] = 0,
         InOrder'
  PROVE  OrderInv'
  <1> SUFFICES ASSUME raced' = {} PROVE Contents' /\ Numbers' /\ Newest'
    BY DEF OrderInv
  <1>1. Contents /\ Numbers /\ Newest BY DEF OrderInv
  <1>2. ASSUME NEW b \in Bufs PROVE Held(b)' = Held(b) \/ Held(b)' = <<>> BY HeldWhen
  <1>3. Contents'
    <2>1. ASSUME NEW b \in Bufs PROVE Whole(Held(b))'
      <3>1. Whole(Held(b)) /\ Whole(<<>>) BY <1>1, Hollow DEF Contents
      <3> QED BY <1>2, <3>1 DEF Whole
    <2> QED BY <1>1, <2>1 DEF Contents, Whole
  <1>4. Numbers'
    <2>1. ASSUME NEW b \in Bufs PROVE Below(Held(b), lines + 1)'
      <3>1. Below(Held(b), lines + 1) /\ Below(<<>>, lines + 1) BY <1>1, Hollow DEF Numbers
      <3> QED BY <1>2, <3>1 DEF Below
    <2> QED BY <1>1, <2>1 DEF Numbers, Below
  <1>5. Newest'
    <2>1. ASSUME NEW w \in Writers, wpc[w] # "idle", NEW b \in Bufs
          PROVE  Below(card, wline[w])' /\ Below(Held(b), wline[w])'
      <3>1. Below(card, wline[w]) /\ Below(Held(b), wline[w]) /\ Below(<<>>, wline[w])
        BY <1>1, <2>1, Hollow DEF Newest
      <3> QED BY <1>2, <3>1 DEF Below
    <2>2. ASSUME NEW w \in Writers, wpc[w] \in {"load", "store"}
          PROVE  wbuf[w] = active \/ size'[active] = 0
      BY <1>1, <2>2 DEF Newest
    <2>3. \E b : b \in Bufs BY TwoBufs
    <2> QED BY <2>1, <2>2, <2>3 DEF Newest
  <1> QED BY <1>3, <1>4, <1>5

LEMMA AllEmpty ==
  ASSUME active' \in Bufs, \A b \in Bufs : size'[b] = 0
  PROVE  InOrder'
  <1>1. PICK a, o : a = active' /\ o = Other(active)' OBVIOUS
  <1>2. a \in Bufs /\ o \in Bufs BY <1>1 DEF Bufs, Other
  <1>3. \A b \in Bufs : Held(b)' = <<>> BY HeldWhen
  <1>4. Held(active)' = Held(a)' /\ Held(Other(active))' = Held(o)' BY <1>1 DEF Held
  <1>5. Before(Held(Other(active)), Held(active))' BY <1>2, <1>3, <1>4, Hollow DEF Before
  <1>6. \A b \in Bufs : Before(card, Held(b))' BY <1>3, Hollow DEF Before
  <1>7. size'["A"] = 0 BY TwoBufs
  <1> QED BY <1>5, <1>6, <1>7 DEF InOrder

\* add: the newest line; it goes to the empty buffer only if the other is full.
LEMMA AddOrder ==
  ASSUME LogInv, OrderInv, NEW w \in Writers, Add(w)
  PROVE  OrderInv'
  <1>1. /\ mem' = mem /\ size' = size /\ card' = card /\ phase' = phase /\ wbuf' = wbuf
        /\ wpc[w] = "idle" /\ active' = IF Switches(active) THEN Other(active) ELSE active
        /\ active \in Bufs /\ lines \in Nat
    BY Constants DEF Add, At, LogInv, TypeOK
  <1>2. lines' \in {lines, lines + 1} /\ raced \subseteq raced' BY DEF Add
  <1> SUFFICES ASSUME raced' = {} PROVE Contents' /\ Numbers' /\ InOrder' /\ Newest'
    BY DEF OrderInv
  <1>3. Contents /\ Numbers /\ InOrder /\ Newest BY <1>2 DEF OrderInv
  <1>4. \A b \in Bufs : Held(b)' = Held(b) BY <1>1, HeldWhen
  <1>5. Contents'
    <2>1. Whole(card) /\ \A b \in Bufs : Whole(Held(b)) BY <1>3 DEF Contents
    <2>2. Whole(card)' BY <1>1, <2>1 DEF Whole
    <2>3. ASSUME NEW b \in Bufs PROVE Whole(Held(b))'
      <3>1. Whole(Held(b)) /\ Held(b)' = Held(b) BY <1>4, <2>1
      <3> QED BY ONLY <3>1 DEF Whole
    <2> QED BY <2>2, <2>3 DEF Contents
  <1>6. Below(card, lines + 1) /\ \A b \in Bufs : Below(Held(b), lines + 1)
    BY <1>3 DEF Numbers
  <1>7. Numbers'
    <2>1. ASSUME NEW s, \A i \in 1 .. Len(s) : s[i].line \in Nat, Below(s, lines + 1)
          PROVE  Below(s, lines' + 1)
      BY <1>1, <1>2, <2>1 DEF Below
    <2>2. Below(card, lines' + 1)
      <3>1. card \in Seq(Bytes) BY DEF LogInv, TypeOK
      <3>2. \A i \in 1 .. Len(card) : card[i].line \in Nat BY <3>1, ByteIs
      <3> QED BY <1>6, <2>1, <3>2
    <2>3. ASSUME NEW b \in Bufs PROVE Below(Held(b), lines' + 1)
      <3>1. Held(b) \in Seq(Bytes) BY HeldIs DEF LogInv
      <3>2. \A i \in 1 .. Len(Held(b)) : Held(b)[i].line \in Nat BY <3>1, ByteIs
      <3> QED BY <1>6, <2>1, <3>2
    <2> QED BY <1>1, <1>4, <2>2, <2>3 DEF Numbers, Below
  <1>8. InOrder'
    <2>0. PICK a, o : a = active' /\ o = Other(active)' OBVIOUS
    <2>1. a \in Bufs /\ o \in Bufs /\ o = Other(a) BY <1>1, <2>0, TwoBufs DEF Other
    <2>2. Held(active)' = Held(a)' /\ Held(Other(active))' = Held(o)' BY <2>0 DEF Held
    <2>3. \A b \in Bufs : ToWrite(b)' => Before(card, Held(b))'
      <3>1. ASSUME NEW b \in Bufs, ToWrite(b)' PROVE Before(card, Held(b))
        BY <1>1, <1>3, <3>1 DEF InOrder, ToWrite
      <3> QED BY <1>1, <1>4, <3>1 DEF Before
    <2>4. phase \notin {"secondA", "secondB", "zeroA", "zeroB"} => Before(Held(o), Held(a))
      <3>1. CASE Switches(active)
        <4>1. a = Other(active) BY <1>1, <2>0, <3>1
        <4>2. size[a] = 0 BY <3>1, <4>1 DEF Switches
        <4>3. Held(a) = <<>> BY <4>2, HeldWhen
        <4> QED BY <4>3, Hollow
      <3>2. CASE ~Switches(active)
        <4>1. a = active /\ o = Other(active) BY <1>1, <2>0, <2>1, <3>2
        <4> QED BY <1>3, <4>1 DEF InOrder
      <3> QED BY <3>1, <3>2
    <2>5. phase' \notin {"secondA", "secondB", "zeroA", "zeroB"} =>
            Before(Held(Other(active)), Held(active))'
      BY <1>1, <1>4, <2>1, <2>2, <2>4 DEF Before
    <2>6. phase' = "zeroB" => size'["A"] = 0 BY <1>1, <1>3 DEF InOrder
    <2> QED BY <2>3, <2>5, <2>6 DEF InOrder
  <1>9. Newest'
    <2>1. CASE ~writing
      <3>1. wpc' = wpc /\ wline' = wline BY <2>1 DEF Add
      <3>2. ASSUME NEW v \in Writers, wpc'[v] # "idle", NEW b \in Bufs
            PROVE  Below(card, wline[v])' /\ Below(Held(b), wline[v])'
        <4>1. Below(card, wline[v]) /\ Below(Held(b), wline[v]) BY <1>3, <3>1, <3>2 DEF Newest
        <4> QED BY <1>1, <1>4, <3>1, <4>1 DEF Below
      <3>3. ASSUME NEW v \in Writers, wpc'[v] \in {"load", "store"}
            PROVE  wbuf'[v] = active' \/ size'[active'] = 0
        <4>1. wbuf[v] = active \/ size[active] = 0 BY <1>3, <3>1, <3>3 DEF Newest
        <4>2. CASE Switches(active) BY <1>1, <4>2 DEF Switches
        <4>3. CASE ~Switches(active) BY <1>1, <4>1, <4>3
        <4> QED BY <4>2, <4>3
      <3>4. \E b : b \in Bufs BY DEF Bufs
      <3> QED BY <3>2, <3>3, <3>4 DEF Newest
    <2>2. CASE writing
      <3>1. /\ wpc' = [wpc EXCEPT ![w] = "wait"] /\ wline' = [wline EXCEPT ![w] = lines + 1]
            /\ raced' = IF InHand = {} THEN raced ELSE raced \cup InHand \cup {lines + 1}
        BY <2>2 DEF Add
      <3>2. InHand = {} BY <3>1
      <3>3. \A v \in Writers : wpc[v] = "idle" BY <3>2, HandIs
      <3>4. /\ wpc'[w] = "wait" /\ wline'[w] = lines + 1
            /\ \A v \in Writers : wpc'[v] # "idle" => v = w
        BY <3>1, <3>3 DEF LogInv, TypeOK
      <3>5. Below(card, wline[w])' /\ \A b \in Bufs : Below(Held(b), wline[w])'
        BY <1>1, <1>4, <1>6, <3>4 DEF Below
      <3> QED BY <3>4, <3>5 DEF Newest
    <2> QED BY <2>1, <2>2 DEF LogInv, TypeOK
  <1> QED BY <1>5, <1>7, <1>8, <1>9

\* The steps of write() but the last: nothing held moves.
LEMMA HandOrder ==
  ASSUME LogInv, LogInv', OrderInv, NEW w \in Writers, Waited(w) \/ Copy(w) \/ Load(w)
  PROVE  OrderInv'
  <1>1. active \in Bufs BY DEF LogInv, TypeOK
  <1>2. CASE Waited(w)
    <2>1. /\ mem' = mem /\ size' = size /\ active' = active /\ card' = card /\ phase' = phase
          /\ wline' = wline /\ wbuf' = wbuf /\ lines' = lines /\ raced' = raced
          /\ wpc[w] = "wait" /\ wpc' = [wpc EXCEPT ![w] = "copy"]
      BY <1>2 DEF Waited, At, state, history
    <2>2. wpc'[w] = "copy" /\ \A v \in Writers \ {w} : wpc'[v] = wpc[v]
      BY <2>1 DEF LogInv, TypeOK
    <2>3. \A b \in Bufs : Held(b)' = Held(b) BY <2>1, HeldWhen
    <2>4. \A v \in Writers : /\ wpc'[v] # "idle" => wpc[v] # "idle"
                             /\ wpc'[v] \in {"load", "store"} => wpc[v] \in {"load", "store"}
      BY <2>1, <2>2
    <2>5. \A b \in Bufs : ToWrite(b)' => ToWrite(b) BY <2>1 DEF ToWrite
    <2> QED BY <1>1, <2>1, <2>3, <2>4, <2>5, QuietOrder
  <1>3. CASE Load(w)
    <2>1. /\ mem' = mem /\ size' = size /\ active' = active /\ card' = card /\ phase' = phase
          /\ wline' = wline /\ wbuf' = wbuf /\ lines' = lines /\ raced' = raced
          /\ wpc[w] = "load" /\ wpc' = [wpc EXCEPT ![w] = "store"]
      BY <1>3 DEF Load, At, state, history
    <2>2. wpc'[w] = "store" /\ \A v \in Writers \ {w} : wpc'[v] = wpc[v]
      BY <2>1 DEF LogInv, TypeOK
    <2>3. \A b \in Bufs : Held(b)' = Held(b) BY <2>1, HeldWhen
    <2>4. \A v \in Writers : /\ wpc'[v] # "idle" => wpc[v] # "idle"
                             /\ wpc'[v] \in {"load", "store"} => wpc[v] \in {"load", "store"}
      BY <2>1, <2>2
    <2>5. \A b \in Bufs : ToWrite(b)' => ToWrite(b) BY <2>1 DEF ToWrite
    <2> QED BY <1>1, <2>1, <2>3, <2>4, <2>5, QuietOrder
  <1>4. CASE Copy(w) /\ size[active] + LineLen > BUF_SIZE
    <2>1. phase' = "overrun" BY <1>4 DEF Copy, Overrun
    <2>2. raced' # {} BY <2>1 DEF LogInv, TypeOK
    <2> QED BY <2>2 DEF OrderInv
  <1>5. CASE Copy(w) /\ ~(size[active] + LineLen > BUF_SIZE)
    <2>1. /\ size' = size /\ active' = active /\ card' = card /\ phase' = phase
          /\ wline' = wline /\ lines' = lines /\ raced' = raced /\ wpc[w] = "copy"
          /\ wpc' = [wpc EXCEPT ![w] = "load"] /\ wbuf' = [wbuf EXCEPT ![w] = active]
      BY <1>5 DEF Copy, At, history
    <2>0. size[active] \in Nat BY <1>1, Constants DEF LogInv, TypeOK
    <2>2. size[active] + LineLen <= BUF_SIZE BY <1>5, <2>0, Constants
    <2>3. \A b \in Bufs : \A i \in 0 .. size[b] - 1 : mem'[b][i] = mem[b][i]
      BY <1>5, <2>2, CopyMem
    <2>4. ASSUME NEW b \in Bufs PROVE Held(b)' = Held(b)
      <3>1. size[b] \in Nat BY Constants DEF LogInv, TypeOK
      <3>2. \A i \in 1 .. size[b] : i - 1 \in 0 .. size[b] - 1 BY <3>1
      <3> QED BY <2>1, <2>3, <3>2 DEF Held
    <2>5. /\ wpc'[w] = "load" /\ wbuf'[w] = active
          /\ \A v \in Writers \ {w} : wpc'[v] = wpc[v] /\ wbuf'[v] = wbuf[v]
      BY <2>1 DEF LogInv, TypeOK
    <2>6. \A v \in Writers :
            /\ wpc'[v] # "idle" => wpc[v] # "idle"
            /\ wpc'[v] \in {"load", "store"} =>
                 wbuf'[v] = active \/ (wpc[v] \in {"load", "store"} /\ wbuf'[v] = wbuf[v])
      BY <2>1, <2>5
    <2>7. \A b \in Bufs : ToWrite(b)' => ToWrite(b) BY <2>1 DEF ToWrite
    <2> QED BY <1>1, <2>1, <2>4, <2>6, <2>7, QuietOrder
  <1> QED BY <1>2, <1>3, <1>4, <1>5

\* bufSizeX += len: the line in hand goes behind what its buffer holds.
LEMMA StoreOrder ==
  ASSUME LogInv, LogInv', OrderInv, NEW w \in Writers, Store(w)
  PROVE  OrderInv'
  <1> SUFFICES ASSUME raced' = {} PROVE Contents' /\ Numbers' /\ InOrder' /\ Newest'
    BY DEF OrderInv
  <1>1. ~(wreg[w] > BUF_SIZE)
    <2>1. phase' # "overrun" BY DEF LogInv, TypeOK
    <2> QED BY <2>1 DEF Store, Overrun
  <1>2. /\ mem' = mem /\ active' = active /\ card' = card /\ phase' = phase
        /\ lines' = lines /\ raced' = raced /\ wpc[w] = "store" /\ phase # "overrun"
        /\ size' = [size EXCEPT ![wbuf[w]] = wreg[w]]
        /\ wpc' = [wpc EXCEPT ![w] = "idle"]
    BY <1>1 DEF Store, At, history
  <1>3. Contents /\ Numbers /\ InOrder /\ Newest BY <1>2 DEF OrderInv
  <1>4. PICK c, d, n, a : c = wbuf[w] /\ d = Other(c) /\ n = wline[w] /\ a = active OBVIOUS
  <1>5. /\ c \in Bufs /\ d \in Bufs /\ d # c /\ (\A b \in Bufs : b = c \/ b = d)
        /\ size \in [Bufs -> 0 .. BUF_SIZE] /\ a \in Bufs /\ card \in Seq(Bytes)
        /\ lines \in 0 .. MaxLines
    BY <1>4, TwoBufs DEF LogInv, TypeOK
  <1>6. Lone(w) /\ Late(w) BY <1>2 DEF Lone, Late
  <1>7. /\ size[c] + LineLen <= BUF_SIZE /\ wreg[w] = size[c] + LineLen
        /\ \A k \in 1 .. LineLen : mem[c][size[c] + k - 1] = [line |-> n, part |-> k]
    BY <1>2, <1>4, <1>6 DEF LogInv, Room
  <1>8. /\ n \in 1 .. lines /\ n \in 1 .. MaxLines
        /\ \A v \in Writers \ {w} : wpc[v] = "idle"
        /\ phase \notin {"secondA", "secondB", "zeroA", "zeroB"}
    <2>1. n \in 1 .. lines /\ ~saving /\ \A v \in Writers \ {w} : wpc[v] = "idle"
      BY <1>2, <1>4, <1>6 DEF LogInv, Hands
    <2>2. n \in 1 .. MaxLines BY <2>1, HandType
    <2> QED BY <1>2, <2>1, <2>2 DEF LogInv, Saves
  <1>9. Below(card, n) /\ Below(Held(c), n) /\ Below(Held(d), n) /\ (c = a \/ size[a] = 0)
    BY <1>2, <1>3, <1>4, <1>5 DEF Newest
  <1>10. /\ size'[c] = size[c] + LineLen /\ size'[d] = size[d] /\ size[c] \in Nat
    BY <1>2, <1>4, <1>5, <1>7, Constants
  <1>11. /\ Held(c) \in Seq(Bytes) /\ Len(Held(c)) = size[c]
         /\ \A i \in 1 .. size[c] : Held(c)[i] = mem[c][i - 1]
    BY <1>5, HeldIs DEF LogInv
  <1>12. /\ Line(n) \in Seq(Bytes) /\ Len(Line(n)) = LineLen /\ Whole(Line(n))
         /\ \A k \in 1 .. LineLen : Line(n)[k].line = n
    <2>1. /\ Line(n) \in Seq(Bytes) /\ Len(Line(n)) = LineLen /\ Whole(Line(n))
          /\ \A k \in 1 .. LineLen : Line(n)[k] = [line |-> n, part |-> k]
      BY <1>8, LineWhole
    <2> QED BY <2>1
  <1> DEFINE h == Held(c) \o Line(n)
  <1>13. Held(d)' = Held(d) /\ Held(c)' = h
    <2>1. Held(d)' = Held(d) BY <1>2, <1>10, HeldWhen
    <2>2. Held(c)' = [i \in 1 .. size[c] + LineLen |-> mem[c][i - 1]]
      BY <1>2, <1>10 DEF Held
    <2> DEFINE s == Held(c)
               m == mem[c]
    <2>3. /\ s \in Seq(Bytes) /\ Len(s) = size[c] /\ \A i \in 1 .. Len(s) : m[i - 1] = s[i]
          /\ \A k \in 1 .. LineLen : m[Len(s) + k - 1] = [line |-> n, part |-> k]
      BY <1>7, <1>11
    <2> HIDE DEF s, m
    <2>4. [i \in 1 .. Len(s) + LineLen |-> m[i - 1]] = s \o Line(n)
      BY <1>8, <2>3, LineAppended
    <2> QED BY <2>1, <2>2, <2>3, <2>4 DEF s, m
  <1>14. Whole(card) /\ Whole(Held(c)) /\ Whole(Held(d)) BY <1>3, <1>5 DEF Contents
  <1>15. Before(Held(c), Line(n)) BY <1>9, <1>12 DEF Before, Below
  <1>16. /\ h \in Seq(Bytes) /\ Whole(h)
         /\ \A i \in 1 .. Len(h) : \/ \E j \in 1 .. Len(Held(c)) : h[i] = Held(c)[j]
                                   \/ \E j \in 1 .. Len(Line(n)) : h[i] = Line(n)[j]
    BY <1>11, <1>12, <1>14, <1>15, JoinWhole
  <1> HIDE DEF h
  <1>17. Contents'
    <2>1. Whole(card)' BY <1>2, <1>14 DEF Whole
    <2>2. Whole(Held(c))' BY <1>13, <1>16 DEF Whole
    <2>3. Whole(Held(d))' BY <1>13, <1>14 DEF Whole
    <2>4. \A b \in Bufs : Whole(Held(b))' BY <1>5, <2>2, <2>3
    <2> QED BY <2>1, <2>4 DEF Contents
  <1>18. Numbers'
    <2>1. Below(card, lines + 1) /\ Below(Held(c), lines + 1) /\ Below(Held(d), lines + 1)
      BY <1>3, <1>5 DEF Numbers
    <2>2. n < lines + 1 BY <1>5, <1>8, Constants
    <2>3. \A j \in 1 .. Len(Held(c)) : Held(c)[j].line < lines + 1 BY <2>1 DEF Below
    <2>4. \A i \in 1 .. Len(h) : h[i].line < lines + 1 BY <1>12, <1>16, <2>2, <2>3
    <2>5. Below(card, lines + 1)' /\ Below(Held(d), lines + 1)' BY <1>2, <1>13, <2>1 DEF Below
    <2>6. Below(Held(c), lines + 1)' BY <1>2, <1>13, <2>4 DEF Below
    <2>7. \A b \in Bufs : Below(Held(b), lines + 1)' BY <1>5, <2>5, <2>6
    <2> QED BY <2>5, <2>7 DEF Numbers
  <1>19. ASSUME NEW s, Below(s, n), Before(s, Held(c)) PROVE Before(s, h)
    <2>1. \A i \in 1 .. Len(s), j \in 1 .. Len(Held(c)) : s[i].line < Held(c)[j].line
      BY <1>19 DEF Before
    <2>2. \A i \in 1 .. Len(s), j \in 1 .. Len(Line(n)) : s[i].line < Line(n)[j].line
      BY <1>12, <1>19 DEF Below
    <2> QED BY <1>16, <2>1, <2>2 DEF Before
  <1>20. InOrder'
    <2>1. ToWrite(c) /\ ToWrite(d) BY <1>8 DEF ToWrite
    <2>2. Before(card, Held(c)) /\ Before(card, Held(d)) /\ Before(Held(Other(a)), Held(a))
      BY <1>3, <1>4, <1>5, <1>8, <2>1 DEF InOrder
    <2>3. Before(card, h) BY <1>9, <1>19, <2>2
    <2>4. Before(card, Held(c))' /\ Before(card, Held(d))' BY <1>2, <1>13, <2>2, <2>3 DEF Before
    <2>5. Before(Held(Other(active)), Held(active))'
      <3>1. Held(active)' = Held(a)' BY <1>2, <1>4 DEF Held
      <3>2. CASE c = a
        <4>1. Held(Other(active))' = Held(d)' BY <1>2, <1>4, <3>2 DEF Held, Other
        <4>2. Before(Held(d), h) BY <1>4, <1>9, <1>19, <2>2, <3>2
        <4> QED BY <1>13, <3>1, <3>2, <4>1, <4>2 DEF Before
      <3>3. CASE c # a
        <4>1. a = d /\ size[d] = 0 BY <1>5, <1>9, <3>3
        <4>2. Held(active)' = <<>> BY <1>13, <3>1, <4>1, HeldWhen
        <4> QED BY <4>2, Hollow DEF Before
      <3> QED BY <3>2, <3>3
    <2>6. phase' # "zeroB" BY <1>2, <1>8
    <2>7. \A b \in Bufs : Before(card, Held(b))' BY <1>5, <2>4
    <2> QED BY <2>5, <2>6, <2>7 DEF InOrder
  <1>21. \A v \in Writers : wpc'[v] = "idle"
    <2>1. wpc \in [Writers -> {"idle", "wait", "copy", "load", "store"}] BY DEF LogInv, TypeOK
    <2> QED BY <1>2, <1>8, <2>1
  <1>22. Newest' BY <1>21 DEF Newest
  <1> QED BY <1>17, <1>18, <1>20, <1>22

\* A save writes the older buffer, then the newer one.
LEMMA WriteOrder ==
  ASSUME LogInv, OrderInv, SaveFirst \/ \E b \in Bufs : SaveSecond(b)
  PROVE  OrderInv'
  <1>1. /\ mem' = mem /\ size' = size /\ active' = active /\ wpc' = wpc /\ wline' = wline
        /\ wbuf' = wbuf /\ lines' = lines /\ raced' = raced
        /\ phase' \in {"secondA", "secondB", "zeroA"}
    BY DEF SaveFirst, SaveSecond, state, writer, history
  <1> SUFFICES ASSUME raced = {} PROVE Contents' /\ Numbers' /\ InOrder' /\ Newest'
    BY <1>1 DEF OrderInv
  <1>2. Contents /\ Numbers /\ InOrder /\ Newest BY DEF OrderInv
  <1>3. PICK b \in Bufs : /\ card' = card \o Held(b) /\ ToWrite(b)
                          /\ \A c \in Bufs : ToWrite(c)' => ToWrite(c) /\ Before(Held(b), Held(c))
    <2>1. CASE SaveFirst
      <3>1. PICK a \in Bufs : a = active BY DEF LogInv, TypeOK
      <3>2. /\ card' = card \o Held(Other(a)) /\ phase = "file"
            /\ phase' = IF a = "A" THEN "secondA" ELSE "secondB"
        BY <2>1, <3>1 DEF SaveFirst
      <3>3. \A c \in Bufs : ToWrite(c)' => c = a BY <3>1, <3>2 DEF ToWrite, Bufs
      <3>4. \A c \in Bufs : ToWrite(c) BY <3>2 DEF ToWrite
      <3>5. Before(Held(Other(a)), Held(a)) BY <1>2, <3>1, <3>2 DEF InOrder
      <3>6. Other(a) \in Bufs BY TwoBufs
      <3> QED BY <3>2, <3>3, <3>4, <3>5, <3>6
    <2>2. ASSUME NEW b \in Bufs, SaveSecond(b)
          PROVE  card' = card \o Held(b) /\ ToWrite(b) /\ \A c \in Bufs : ~ToWrite(c)'
      BY <2>2 DEF SaveSecond, ToWrite, Bufs
    <2> QED BY <2>1, <2>2
  <1>4. /\ card \in Seq(Bytes) /\ Held(b) \in Seq(Bytes) /\ Whole(card) /\ Whole(Held(b))
    BY <1>2, HeldIs DEF LogInv, TypeOK, Contents
  <1>5. Before(card, Held(b)) BY <1>2, <1>3 DEF InOrder
  <1> DEFINE u == card \o Held(b)
  <1>6. /\ u \in Seq(Bytes) /\ Whole(u)
        /\ \A i \in 1 .. Len(u) : \/ \E j \in 1 .. Len(card) : u[i] = card[j]
                                  \/ \E j \in 1 .. Len(Held(b)) : u[i] = Held(b)[j]
    BY <1>4, <1>5, JoinWhole
  <1>7. card' = u BY <1>3
  <1> HIDE DEF u
  <1>8. \A c \in Bufs : Held(c)' = Held(c) BY <1>1, HeldWhen
  <1>9. ASSUME NEW n, Below(card, n), Below(Held(b), n) PROVE Below(u, n)
    <2>1. \A j \in 1 .. Len(card) : card[j].line < n BY <1>9 DEF Below
    <2>2. \A j \in 1 .. Len(Held(b)) : Held(b)[j].line < n BY <1>9 DEF Below
    <2> QED BY <1>6, <2>1, <2>2 DEF Below
  <1>10. Contents'
    <2>1. Whole(card)' BY <1>6, <1>7 DEF Whole
    <2>2. ASSUME NEW c \in Bufs PROVE Whole(Held(c))'
      <3>1. Whole(Held(c)) BY <1>2 DEF Contents
      <3> QED BY <1>8, <3>1 DEF Whole
    <2> QED BY <2>1, <2>2 DEF Contents
  <1>11. Numbers'
    <2>1. Below(card, lines + 1) /\ \A c \in Bufs : Below(Held(c), lines + 1)
      BY <1>2 DEF Numbers
    <2>2. Below(u, lines + 1) BY <1>9, <2>1
    <2>3. Below(card, lines + 1)' BY <1>1, <1>7, <2>2 DEF Below
    <2>4. \A c \in Bufs : Below(Held(c), lines + 1)' BY <1>1, <1>8, <2>1 DEF Below
    <2> QED BY <2>3, <2>4 DEF Numbers
  <1>12. InOrder'
    <2>1. ASSUME NEW c \in Bufs, ToWrite(c)' PROVE Before(card, Held(c))'
      <3>1. Before(card, Held(c)) /\ Before(Held(b), Held(c)) BY <1>2, <1>3, <2>1 DEF InOrder
      <3>2. \A i \in 1 .. Len(card), j \in 1 .. Len(Held(c)) : card[i].line < Held(c)[j].line
        BY <3>1 DEF Before
      <3>3. \A i \in 1 .. Len(Held(b)), j \in 1 .. Len(Held(c)) : Held(b)[i].line < Held(c)[j].line
        BY <3>1 DEF Before
      <3>4. Before(u, Held(c)) BY <1>6, <3>2, <3>3 DEF Before
      <3> QED BY <1>7, <1>8, <3>4 DEF Before
    <2> QED BY <1>1, <2>1 DEF InOrder
  <1>13. Newest'
    <2>1. ASSUME NEW w \in Writers, wpc[w] # "idle"
          PROVE  Below(card, wline[w])' /\ \A c \in Bufs : Below(Held(c), wline[w])'
      <3>1. Below(card, wline[w]) /\ \A c \in Bufs : Below(Held(c), wline[w])
        BY <1>2, <2>1 DEF Newest
      <3>2. Below(u, wline[w]) BY <1>9, <3>1
      <3>3. Below(card, wline[w])' BY <1>1, <1>7, <3>2 DEF Below
      <3>4. \A c \in Bufs : Below(Held(c), wline[w])' BY <1>1, <1>8, <3>1 DEF Below
      <3> QED BY <3>3, <3>4
    <2>2. ASSUME NEW w \in Writers, wpc[w] \in {"load", "store"}
          PROVE  wbuf[w] = active \/ size[active] = 0
      BY <1>2, <2>2 DEF Newest
    <2> QED BY <1>1, <2>1, <2>2 DEF Newest
  <1> QED BY <1>10, <1>11, <1>12, <1>13

LEMMA ZeroOrder ==
  ASSUME LogInv, OrderInv, ZeroA \/ ZeroB
  PROVE  OrderInv'
  <1>1. /\ mem' = mem /\ active' = active /\ card' = card /\ lines' = lines /\ raced' = raced
        /\ wpc' = wpc /\ wline' = wline /\ wbuf' = wbuf /\ active \in Bufs
        /\ size \in [Bufs -> 0 .. BUF_SIZE]
    BY DEF ZeroA, ZeroB, writer, history, LogInv, TypeOK
  <1>2. CASE raced # {} BY <1>1, <1>2 DEF OrderInv
  <1>3. CASE ZeroA
    <2>1. phase' = "zeroB" /\ size' = [size EXCEPT !["A"] = 0] BY <1>3 DEF ZeroA
    <2>2. size'["A"] = 0 /\ \A b \in Bufs : size'[b] = size[b] \/ size'[b] = 0
      BY <1>1, <2>1, TwoBufs
    <2>3. InOrder' BY <2>1, <2>2 DEF InOrder, ToWrite
    <2> QED BY <1>1, <2>2, <2>3, EmptyOrder
  <1>4. CASE ZeroB /\ raced = {}
    <2>1. phase = "zeroB" /\ size' = [size EXCEPT !["B"] = 0] BY <1>4 DEF ZeroB
    <2>2. size["A"] = 0 BY <1>4, <2>1 DEF OrderInv, InOrder
    <2>3. \A b \in Bufs : size'[b] = 0 BY <1>1, <2>1, <2>2 DEF Bufs
    <2>4. InOrder' BY <1>1, <2>3, AllEmpty
    <2> QED BY <1>1, <2>3, <2>4, EmptyOrder
  <1> QED BY <1>2, <1>3, <1>4

LEMMA OpenOrder ==
  ASSUME LogInv, OrderInv, NEW to \in {"header", "title"}, Open(to), phase \in {"swarm", "menu"}
  PROVE  OrderInv'
  <1>1. /\ mem' = mem /\ active' = active /\ card' = card /\ lines' = lines /\ phase' = to
        /\ wpc' = wpc /\ wline' = wline /\ wbuf' = wbuf /\ active \in Bufs /\ writing' \in BOOLEAN
    BY DEF Open, writer, LogInv, TypeOK
  <1>2. CASE writing'
    <2>1. size' = [b \in Bufs |-> 0] /\ raced \subseteq raced' BY <1>2 DEF Open
    <2>2. InOrder' BY <1>1, <2>1, AllEmpty
    <2> QED BY <1>1, <2>1, <2>2, EmptyOrder
  <1>3. CASE ~writing'
    <2>1. size' = size /\ raced' = raced BY <1>3 DEF Open
    <2>2. \A b \in Bufs : Held(b)' = Held(b) BY <1>1, <2>1, HeldWhen
    <2>3. \A b \in Bufs : ToWrite(b) BY DEF ToWrite
    <2> QED BY <1>1, <2>1, <2>2, <2>3, QuietOrder
  <1> QED BY <1>1, <1>2, <1>3

LEMMA LoopOrder ==
  ASSUME LogInv, OrderInv,
         ScanDone \/ BleDone \/ Skip \/ SaveNothing \/ SaveBegin \/ SaveFails \/ UNCHANGED vars
  PROVE  OrderInv'
  <1>1. /\ mem' = mem /\ size' = size /\ active' = active /\ card' = card /\ lines' = lines
        /\ wpc' = wpc /\ wline' = wline /\ wbuf' = wbuf /\ raced \subseteq raced'
    BY DEF ScanDone, BleDone, Skip, SaveNothing, SaveBegin, SaveFails, vars, state, writer, history
  <1>2. \/ phase' = phase
        \/ phase \in {"scan", "swarm", "header", "title", "menu", "save"}
           /\ phase' \in {"swarm", "save", "scan", "menu", "file"}
        \/ phase = "file" /\ phase' = "zeroA"
    BY DEF ScanDone, BleDone, Skip, Stay, SaveNothing, SaveBegin, SaveFails, vars
  <1>3. \A b \in Bufs : Held(b)' = Held(b) BY <1>1, HeldWhen
  <1>4. \A b \in Bufs : ToWrite(b)' => ToWrite(b) BY <1>2 DEF ToWrite
  <1>5. active \in Bufs BY DEF LogInv, TypeOK
  <1> QED BY <1>1, <1>2, <1>3, <1>4, <1>5, QuietOrder

LEMMA InitOrder == Init => OrderInv
  <1> SUFFICES ASSUME Init PROVE Contents /\ Numbers /\ InOrder /\ Newest
    BY DEF OrderInv
  <1>1. card = <<>> /\ active \in Bufs /\ phase = "scan" BY DEF Init, Bufs
  <1>2. \A w \in Writers : wpc[w] = "idle" BY DEF Init
  <1>3. \A b \in Bufs : size[b] = 0 BY DEF Init
  <1>4. \A b \in Bufs : Held(b) = <<>> BY <1>3, HeldWhen
  <1>5. Held(active) = <<>> BY <1>1, <1>4
  <1>6. Contents /\ Numbers BY <1>1, <1>4, Hollow DEF Contents, Numbers
  <1>7. InOrder BY <1>1, <1>4, <1>5, Hollow DEF InOrder
  <1>8. Newest BY <1>2 DEF Newest
  <1> QED BY <1>6, <1>7, <1>8

LEMMA OrderStep == LogInv /\ LogInv' /\ OrderInv /\ [Next]_vars => OrderInv'
  <1> SUFFICES ASSUME LogInv, LogInv', OrderInv, [Next]_vars PROVE OrderInv'
    OBVIOUS
  <1>1. CASE SwarmStart \/ MenuStart
    <2>1. \E to \in {"header", "title"} : Open(to) /\ phase \in {"swarm", "menu"}
      BY <1>1 DEF SwarmStart, MenuStart
    <2> QED BY <2>1, OpenOrder
  <1>2. CASE Loop
    BY <1>1, <1>2, LoopOrder, WriteOrder, ZeroOrder DEF Loop, Save
  <1>3. CASE BleDone \/ UNCHANGED vars BY <1>3, LoopOrder
  <1>4. ASSUME NEW w \in Writers, Add(w) \/ Write(w) PROVE OrderInv'
    BY <1>4, AddOrder, HandOrder, StoreOrder DEF Write
  <1> QED BY <1>2, <1>3, <1>4 DEF Next

\* As long as nothing overlapped, the card holds whole lines in the order they
\* were appended, through whichever buffer they went.
THEOREM LogWholeLinesInOrder == Spec => []WholeLinesInOrder
  <1>1. LogInv /\ OrderInv => WholeLinesInOrder
    <2> SUFFICES ASSUME LogInv, OrderInv, raced = {}
                 PROVE  \A i \in DOMAIN card :
                          /\ card[i].line # 0
                          /\ card[i].part = 1 => i + LineLen - 1 \in DOMAIN card
                          /\ card[i].part > 1 =>
                               i > 1 /\ card[i - 1] = [line |-> card[i].line, part |-> card[i].part - 1]
                          /\ (card[i].part = 1 /\ i > 1) =>
                               card[i - 1].part = LineLen /\ card[i - 1].line < card[i].line
      BY DEF WholeLinesInOrder
    <2>1. Whole(card) /\ DOMAIN card = 1 .. Len(card) /\ Len(card) \in Nat
      BY DEF LogInv, TypeOK, OrderInv, Contents
    <2>2. ASSUME NEW i \in 1 .. Len(card), card[i].part = 1 PROVE i + LineLen - 1 \in 1 .. Len(card)
      <3>1. i + LineLen - card[i].part <= Len(card) BY <2>1 DEF Whole
      <3>2. i + LineLen - 1 <= Len(card) /\ i + LineLen - 1 \in Nat /\ i + LineLen - 1 >= 1
        BY <2>2, <3>1, Constants
      <3> QED BY <2>1, <3>2
    <2> QED BY <2>1, <2>2 DEF Whole
  <1>2. Init => LogInv /\ OrderInv BY InitLog, InitOrder
  <1>3. LogInv /\ OrderInv /\ [Next]_vars => LogInv' /\ OrderInv' BY LogStep, OrderStep
  <1> QED BY <1>1, <1>2, <1>3, PTL DEF Spec
=============================================================================
