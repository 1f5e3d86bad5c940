----------------------------- MODULE LogBuffer -----------------------------
(***************************************************************************)
(* The double buffer every log line goes through on its way to the card    *)
(* (esp32_marauder/Buffer.cpp), which has no lock.  Up to three tasks      *)
(* append lines of a wardrive: loop() those of a WiFi scan, the WiFi task  *)
(* in beaconSnifferCallback those of the Flock cameras, and, in a build    *)
(* with BLE, the NimBLE host task in onResult.  executeWarDrive appends    *)
(* nothing while the BLE scan runs.  loop() runs, in this order, the scan, *)
(* Swarm (which may start a scan anew, and so a new log, also while one    *)
(* runs), Buffer::save and the menu (which may start one too).             *)
(*                                                                         *)
(* A line is LineLen bytes; a byte is a record of its line and its place.  *)
(* add()'s test and switch are one step, as are the few instructions that  *)
(* copy a line; the read-modify-write of the size that follows is two.     *)
(***************************************************************************)
EXTENDS Naturals, Sequences, FiniteSets

CONSTANTS
  BUF_SIZE,  \* bytes of bufA and of bufB
  LineLen,   \* bytes of a line
  MARGIN,    \* add() switches buffers this many bytes early (16)
  Writers,   \* the tasks that append: "main", "wifi", with BLE also "host"
  MaxLines   \* bound: lines appended

ASSUME SizeAssumption   == LineLen \in Nat \ {0} /\ BUF_SIZE \in Nat /\ LineLen < BUF_SIZE
ASSUME MarginAssumption == MARGIN \in Nat
ASSUME WriterAssumption == Writers \in {{"main", "wifi"}, {"main", "wifi", "host"}}
ASSUME BoundAssumption  == MaxLines \in Nat

VARIABLES
  mem,      \* bufA and bufB: the byte at each offset, blank if never written
  size,     \* bufSizeA and bufSizeB
  active,   \* "A" when useA
  writing,  \* accepting writes: a log is open, on the card or the console
  saving,   \* currently saving onto the SD card
  card,     \* the bytes written to log files, in order
  phase,    \* where loop() is
  live,     \* who appends: loop() in a session, the sniffer, a BLE scan's callback
  wpc, wline, wbuf, wreg,  \* each writer: its step, line, branch and register
  lines,    \* history: the lines add() did not refuse are 1 .. lines
  excused,  \* history: lines a failed open or a new log discarded
  raced     \* history: lines whose append overlapped another, a save or an open

state   == <<mem, size, active, writing, saving>>
writer  == <<wpc, wline, wbuf, wreg>>
history == <<lines, excused, raced>>
vars    == <<state, card, phase, live, writer, history>>

Bufs  == {"A", "B"}
Other(b) == IF b = "A" THEN "B" ELSE "A"
Blank == [line |-> 0, part |-> 0]
Bytes == [line : 0 .. MaxLines, part : 0 .. LineLen]

InMem(b)  == {mem[b][i].line : i \in 0 .. size[b] - 1}
Unsaved   == InMem("A") \cup InMem("B")
OnCard    == {card[i].line : i \in DOMAIN card}
InHand    == {wline[w] : w \in {x \in Writers : wpc[x] # "idle"}}

Init ==
  /\ mem = [b \in Bufs |-> [i \in 0 .. BUF_SIZE - 1 |-> Blank]]
  /\ size = [b \in Bufs |-> 0]
  /\ active = "A" /\ writing = FALSE /\ saving = FALSE
  /\ card = <<>> /\ phase = "scan" /\ live = {}
  /\ wpc = [w \in Writers |-> "idle"] /\ wline = [w \in Writers |-> 0]
  /\ wbuf = [w \in Writers |-> "A"] /\ wreg = [w \in Writers |-> 0]
  /\ lines = 0 /\ excused = {} /\ raced = {}

---------------------------------------------------------------------------
(* Writing: append, add, write *)

\* add refuses a line when the active buffer has no room and the other waits to
\* be saved; it switches a little early when the other one is empty.
NoRoom(b) == size[b] + LineLen >= BUF_SIZE /\ size[Other(b)] > 0
SwitchesToFull(b) == size[b] + LineLen + MARGIN >= BUF_SIZE /\ size[Other(b)] > 0
Switches(b) == size[b] + LineLen + MARGIN >= BUF_SIZE /\ size[Other(b)] = 0

\* Who may append a line now: loop() with the results of a scan, found while no
\* BLE scan runs, or the header of a log just opened; the callbacks beside it.
MayAppend(w) ==
  /\ w \in live
  /\ w = "main" => phase \in {"header", "title"} \/ (phase = "scan" /\ "host" \notin live)

\* A step of a writer; none is taken once a buffer has been overrun.
At(w, step) == wpc[w] = step /\ phase # "overrun"

\* A line goes to write(), which lets it go when no log is open.  One refused for
\* want of room changes nothing.
Add(w) ==
  /\ At(w, "idle") /\ MayAppend(w) /\ lines < MaxLines
  /\ ~NoRoom(active)
  /\ active' = IF Switches(active) THEN Other(active) ELSE active
  /\ IF writing
     THEN /\ wpc' = [wpc EXCEPT ![w] = "wait"] /\ wline' = [wline EXCEPT ![w] = lines + 1]
          /\ lines' = lines + 1
          /\ raced' = IF InHand = {} THEN raced ELSE raced \cup InHand \cup {lines + 1}
     ELSE UNCHANGED <<wpc, wline, lines, raced>>
  /\ UNCHANGED <<mem, size, writing, saving, card, phase, live, wbuf, wreg, excused>>

\* Mutant: a line is copied whether or not a save is under way.
WaitedNever(w) ==
  /\ At(w, "wait")
  /\ wpc' = [wpc EXCEPT ![w] = "copy"]
  /\ UNCHANGED <<state, card, phase, live, wline, wbuf, wreg, history>>

\* while (saving) delay(10);
Waited(w) ==
  /\ At(w, "wait") /\ ~saving
  /\ wpc' = [wpc EXCEPT ![w] = "copy"]
  /\ UNCHANGED <<state, card, phase, live, wline, wbuf, wreg, history>>

Line(n) == [k \in 1 .. LineLen |-> [line |-> n, part |-> k]]

\* A write or a size past the end of a buffer: what is hit there no variable
\* holds, and the model goes no further.
Overrun == phase' = "overrun" /\ UNCHANGED <<state, card, live, writer, history>>

\* memcpy to the end of the buffer useA names now.
Copy(w) ==
  /\ At(w, "copy")
  /\ IF size[active] + LineLen > BUF_SIZE THEN Overrun
     ELSE /\ mem' = [mem EXCEPT ![active] = [i \in DOMAIN @ |->
                      IF i \in size[active] .. size[active] + LineLen - 1
                      THEN Line(wline[w])[i - size[active] + 1] ELSE @[i]]]
          /\ wbuf' = [wbuf EXCEPT ![w] = active]
          /\ wpc' = [wpc EXCEPT ![w] = "load"]
          /\ UNCHANGED <<size, active, writing, saving, card, phase, live, wline, wreg, history>>

\* bufSizeX += len, and write() returns: its locals are gone.
Load(w) ==
  /\ At(w, "load")
  /\ wreg' = [wreg EXCEPT ![w] = size[wbuf[w]] + LineLen]
  /\ wpc' = [wpc EXCEPT ![w] = "store"]
  /\ UNCHANGED <<state, card, phase, live, wline, wbuf, history>>

Store(w) ==
  /\ At(w, "store")
  /\ IF wreg[w] > BUF_SIZE THEN Overrun
     ELSE /\ size' = [size EXCEPT ![wbuf[w]] = wreg[w]]
          /\ wpc' = [wpc EXCEPT ![w] = "idle"] /\ wline' = [wline EXCEPT ![w] = 0]
          /\ wbuf' = [wbuf EXCEPT ![w] = "A"] /\ wreg' = [wreg EXCEPT ![w] = 0]
          /\ UNCHANGED <<mem, active, writing, saving, card, phase, live, history>>

Write(w) == Waited(w) \/ Copy(w) \/ Load(w) \/ Store(w)

---------------------------------------------------------------------------
(* loop() *)

\* For the record: the lines of the callbacks that are past the wait.
Underway == {wline[w] : w \in {x \in Writers : wpc[x] \in {"copy", "load", "store"}}}

\* The scan part of the loop is over; in a session it may have installed the
\* sniffer, which stays, or started the BLE scan.
ScanDone ==
  /\ phase = "scan" /\ wpc["main"] = "idle" /\ phase' = "swarm"
  /\ \E started \in SUBSET Writers :
       live' = IF "main" \in live THEN live \cup started ELSE live
  /\ UNCHANGED <<state, card, writer, history>>

\* The BLE scan ends, after its callbacks.
BleDone ==
  /\ "host" \in live /\ wpc["host"] = "idle" /\ live' = live \ {"host"}
  /\ UNCHANGED <<state, card, phase, writer, history>>

\* openFile: a new file or a log on the console only, and the buffers emptied,
\* whatever they hold; or no log, when the setting or the lack of a card says so.
Open(to) ==
  /\ phase' = to /\ live' = live \cup {"main"}
  /\ writing' \in BOOLEAN
  /\ IF writing'
     THEN /\ size' = [b \in Bufs |-> 0]
          /\ excused' = excused \cup Unsaved /\ raced' = raced \cup Underway
     ELSE UNCHANGED <<size, excused, raced>>
  /\ UNCHANGED <<mem, active, saving, card, writer, lines>>

SwarmStart == phase = "swarm" /\ Open("header")
MenuStart  == phase = "menu" /\ Open("title")

Stay ==
  \/ phase = "swarm" /\ phase' = "save"
  \/ phase = "header" /\ wpc["main"] = "idle" /\ phase' = "save"
  \/ phase = "title" /\ wpc["main"] = "idle" /\ phase' = "scan"
  \/ phase = "menu" /\ phase' = "scan"
Skip == Stay /\ UNCHANGED <<state, card, live, writer, history>>

\* save: nothing to do, or saving until both buffers are empty.
SaveNothingSmall ==
  /\ phase = "save" /\ size["A"] + size["B"] < BUF_SIZE
  /\ phase' = "menu"
  /\ UNCHANGED <<state, card, live, writer, history>>

SaveNothing ==
  /\ phase = "save" /\ size["A"] + size["B"] = 0
  /\ phase' = "menu"
  /\ UNCHANGED <<state, card, live, writer, history>>

SaveBegin ==
  /\ phase = "save" /\ size["A"] + size["B"] > 0
  /\ saving' = TRUE /\ phase' = "file"
  /\ raced' = raced \cup Underway
  /\ UNCHANGED <<mem, size, active, writing, card, live, writer, lines, excused>>

\* saveFs: when the file cannot be opened, or there is no card, nothing is
\* written and the buffers are emptied all the same.
SaveFails ==
  /\ phase = "file" /\ phase' = "zeroA"
  /\ excused' = excused \cup Unsaved
  /\ UNCHANGED <<state, card, live, writer, lines, raced>>

Held(b) == [i \in 1 .. size[b] |-> mem[b][i - 1]]

SaveFirstActive ==
  /\ phase = "file"
  /\ phase' = IF active = "A" THEN "secondB" ELSE "secondA"
  /\ card' = card \o Held(active)
  /\ UNCHANGED <<state, live, writer, history>>

\* With the file open, useA is asked once for both writes: the buffer that is not
\* in use goes first.
SaveFirst ==
  /\ phase = "file"
  /\ phase' = IF active = "A" THEN "secondA" ELSE "secondB"
  /\ card' = card \o Held(Other(active))
  /\ UNCHANGED <<state, live, writer, history>>

SaveSecond(b) ==
  /\ phase = IF b = "A" THEN "secondA" ELSE "secondB"
  /\ phase' = "zeroA"
  /\ card' = card \o Held(b)
  /\ UNCHANGED <<state, live, writer, history>>

ZeroA ==
  /\ phase = "zeroA" /\ phase' = "zeroB"
  /\ size' = [size EXCEPT !["A"] = 0]
  /\ UNCHANGED <<mem, active, writing, saving, card, live, writer, history>>

ZeroB ==
  /\ phase = "zeroB" /\ phase' = "menu"
  /\ size' = [size EXCEPT !["B"] = 0]
  /\ saving' = FALSE
  /\ UNCHANGED <<mem, active, writing, card, live, writer, history>>

Save == SaveNothing \/ SaveBegin \/ SaveFails \/ SaveFirst
          \/ (\E b \in Bufs : SaveSecond(b)) \/ ZeroA \/ ZeroB
Loop == ScanDone \/ SwarmStart \/ MenuStart \/ Skip \/ Save
Next == Loop \/ BleDone \/ \E w \in Writers : Add(w) \/ Write(w)
Spec == Init /\ [][Next]_vars

\* Every task keeps running: loop() comes round, and a line begun is written.
Fairness == WF_vars(Save) /\ WF_vars(ScanDone \/ Skip) /\ \A w \in Writers : WF_vars(Write(w))
FairSpec == Spec /\ Fairness

---------------------------------------------------------------------------
(* Properties *)

\* Types; and no append is written past the end of a buffer unless it overlapped
\* another one: add()'s test holds until the bytes are in.
TypeOK ==
  /\ mem \in [Bufs -> [0 .. BUF_SIZE - 1 -> Bytes]]
  /\ size \in [Bufs -> 0 .. BUF_SIZE]
  /\ active \in Bufs /\ writing \in BOOLEAN /\ saving \in BOOLEAN
  /\ card \in Seq(Bytes)
  /\ phase \in {"scan", "swarm", "header", "save", "file", "secondA", "secondB",
                "zeroA", "zeroB", "menu", "title", "overrun"}
  /\ live \subseteq Writers
  /\ wpc \in [Writers -> {"idle", "wait", "copy", "load", "store"}]
  /\ wline \in [Writers -> 0 .. MaxLines] /\ wbuf \in [Writers -> Bufs]
  /\ wreg \in [Writers -> 0 .. BUF_SIZE + LineLen]
  /\ lines \in 0 .. MaxLines /\ excused \subseteq 0 .. MaxLines /\ raced \subseteq 1 .. MaxLines
  /\ phase = "overrun" => raced # {}

\* A line that add() took is being written, waits in a buffer or is on the
\* card, unless the card failed or a new log was opened over it.
Kept(n) == n \in InHand \cup Unsaved \cup OnCard \cup excused

\* The one reason the code names to drop a line is a full buffer (Buffer.cpp:95).
AcceptedKept == \A n \in 1 .. lines : Kept(n)

\* What the missing lock costs: a line can be lost only if its own append
\* overlapped another task's, or was past the wait when a save or a new log
\* began.  No other line is, however many of those there were before.
OnlyRacedLost == \A n \in 1 .. lines : Kept(n) \/ n \in raced

\* As long as no two appends overlapped, the card holds whole lines in the order
\* they were appended, whichever task appended them, whichever buffer they went
\* through and wherever the switch fell between two saves.
WholeLinesInOrder ==
  raced = {} => \A i \in DOMAIN card :
    /\ card[i].line # 0
    /\ card[i].part = 1 => i + LineLen - 1 \in DOMAIN card
    /\ card[i].part > 1 => i > 1 /\ card[i - 1] = [line |-> card[i].line, part |-> card[i].part - 1]
    /\ (card[i].part = 1 /\ i > 1) => /\ card[i - 1].part = LineLen
                                      /\ card[i - 1].line < card[i].line

\* A line that waits is saved, or lost with the card or to a race, before the
\* loop comes round.
LinesReachCard ==
  \A n \in 1 .. MaxLines :
    (n \in Unsaved) ~> (n \in OnCard \cup excused \cup raced \/ phase = "overrun")
===========================================================================
