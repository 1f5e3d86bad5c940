------------------------------ MODULE SwarmLink ------------------------------
(***************************************************************************)
(* The Bluetooth link between the node and the phone                       *)
(* (esp32_marauder/SwarmNode.cpp): when the node advertises, who is        *)
(* connected, and what the flags of SwarmNode believe of it.               *)
(*                                                                         *)
(* Two tasks share those flags without a lock: loop() and the host task of *)
(* the Bluetooth stack, which runs onServerEvent and onCommandWrite.  The  *)
(* wardrive scan (WiFiScan::shutdownBLE) and an upload (suspendForUpload)  *)
(* take the whole stack down under both.  The build with NimBLE 2 is       *)
(* modelled.  There is one phone: it opens a link only when it holds none, *)
(* but the stack may still hold a link the phone has left.                 *)
(***************************************************************************)
EXTENDS Naturals, Sequences

CONSTANTS
  Handles,    \* connection handles of the stack
  InBuf,      \* command lines _inBuf holds (512 characters)
  PhoneWrites \* the phone writes commands; FALSE for a phone that only connects

ASSUME HandleAssumption == Handles # {}
ASSUME BufferAssumption == InBuf \in Nat \ {0}
ASSUME PhoneAssumption  == PhoneWrites \in BOOLEAN

VARIABLES
  \* the Bluetooth stack
  stack,     \* NimBLEDevice::isInitialized
  adv,       \* advertising
  link,      \* per handle: free, open, or closing until the stack reports its end
  \* SwarmNode
  bleUp, connected, proven, connHandle,
  inBuf,     \* _inBuf, as lines
  suspended,
  \* _linkSilentSince against time: 15 s have passed since it, had passed when
  \* loop() read the clock, or it is later than the time loop() read
  elapsed, aged, ahead,
  \* the rest of the firmware
  enabled,   \* the setting "Swarm"
  scanBle,   \* WiFiScan::ble_initialized
  pc,        \* where loop() is
  spoke      \* history: the links the phone has written to

stackVars == <<stack, adv, link>>
flags     == <<bleUp, connected, proven, connHandle>>
silence   == <<elapsed, aged, ahead>>
system    == <<enabled, scanBle>>
vars      == <<stackVars, flags, inBuf, suspended, silence, system, pc, spoke>>

Commands == {"hello", "slot", "stopscan", "wardrive"}

Init ==
  /\ stack = FALSE /\ adv = FALSE /\ link = [h \in Handles |-> "free"]
  /\ bleUp = FALSE /\ connected = FALSE /\ proven = FALSE
  /\ connHandle \in Handles
  /\ inBuf = <<>> /\ suspended = FALSE
  /\ elapsed = FALSE /\ aged = FALSE /\ ahead = FALSE
  /\ enabled \in BOOLEAN /\ scanBle = FALSE
  /\ pc = "loop" /\ spoke = [h \in Handles |-> FALSE]

OpenLinks == {h \in Handles : link[h] = "open"}
AnyLink   == \E h \in Handles : link[h] # "free"

\* _linkSilentSince = millis(): perhaps in the same millisecond loop() began in.
Stamp == elapsed' = FALSE /\ aged' = FALSE /\ ahead' \in BOOLEAN

---------------------------------------------------------------------------
(* The host task *)

\* A connectable advert ends when a link opens.
Connect(h) ==
  /\ stack /\ adv /\ link[h] = "free" /\ OpenLinks = {}
  /\ link' = [link EXCEPT ![h] = "open"]
  /\ adv' = FALSE
  /\ connected' = TRUE /\ connHandle' = h /\ proven' = FALSE
  /\ Stamp
  /\ spoke' = [spoke EXCEPT ![h] = FALSE]
  /\ UNCHANGED <<stack, bleUp, inBuf, suspended, system, pc>>

\* The phone goes out of range, or off: the stack does not know yet.
Vanish(h) ==
  /\ link[h] = "open"
  /\ link' = [link EXCEPT ![h] = "closing"]
  /\ UNCHANGED <<stack, adv, flags, inBuf, suspended, silence, system, pc, spoke>>

\* onServerEvent(false, handle) does not look at the handle.
OnDisconnectKeepsConnected == UNCHANGED connected /\ proven' = FALSE
OnDisconnect == connected' = FALSE /\ proven' = FALSE

\* The stack gives up on a link; advertiseOnDisconnect(true).
LinkEnds(h) ==
  /\ link[h] = "closing"
  /\ link' = [link EXCEPT ![h] = "free"]
  /\ adv' = TRUE
  /\ OnDisconnect
  /\ UNCHANGED <<stack, bleUp, connHandle, inBuf, suspended, silence, system, pc, spoke>>

\* onCommandWrite: the line goes to the end of _inBuf, whoever wrote it, and the
\* oldest line gives way.  main takes a line off _inBuf without a lock: one that
\* arrives meanwhile may be lost.
AddLineUntrimmed(c) == Append(inBuf, c)
AddLine(c) == IF Len(inBuf) < InBuf THEN Append(inBuf, c) ELSE Append(Tail(inBuf), c)

Write(h, c) ==
  /\ PhoneWrites /\ link[h] = "open"
  /\ \/ inBuf' = AddLine(c)
     \/ pc = "lines" /\ UNCHANGED inBuf
  /\ Stamp
  /\ spoke' = [spoke EXCEPT ![h] = TRUE]
  /\ UNCHANGED <<stackVars, flags, suspended, system, pc>>

\* 15 s pass.
Elapse ==
  /\ ~elapsed /\ elapsed' = TRUE
  /\ UNCHANGED <<stackVars, flags, inBuf, suspended, aged, ahead, system, pc, spoke>>

Host == \E h \in Handles : \/ Connect(h) \/ Vanish(h) \/ LinkEnds(h)
                           \/ \E c \in Commands : Write(h, c)

---------------------------------------------------------------------------
(* What loop() does to the stack *)

\* NimBLEDevice::deinit: the advert and every link end, and their end is
\* reported before it returns.
Deinit ==
  /\ stack' = FALSE /\ adv' = FALSE
  /\ link' = [h \in Handles |-> "free"]

ReportEnds == IF AnyLink THEN OnDisconnect ELSE UNCHANGED <<connected, proven>>

\* disconnect() only asks: the link is closing until the stack reports its end.
Disconnected(h) == [link EXCEPT ![h] = IF @ = "open" THEN "closing" ELSE @]

Teardown ==
  /\ link' = IF connected THEN Disconnected(connHandle) ELSE link
  /\ adv' = FALSE /\ connected' = FALSE /\ proven' = FALSE

\* WiFiScan::shutdownBLE, on the way out of a scan that had Bluetooth up.
ShutdownBLE ==
  IF scanBle THEN Deinit /\ ReportEnds /\ scanBle' = FALSE
             ELSE UNCHANGED <<stackVars, connected, proven, scanBle>>

\* RunBluetoothScan: init() leaves a running stack alone.
StartBLE ==
  /\ stack' = TRUE /\ scanBle' = TRUE
  /\ UNCHANGED <<adv, link, connected, proven>>

---------------------------------------------------------------------------
(* SwarmNode::main *)

\* loop() reads the clock; the scan runs before Swarm does.
LoopBegins ==
  /\ pc = "loop" /\ pc' = "tick"
  /\ aged' = elapsed /\ ahead' = FALSE
  /\ UNCHANGED <<stackVars, flags, inBuf, suspended, elapsed, system, spoke>>

TickDisabled ==
  /\ pc = "tick" /\ ~enabled /\ pc' = "menu"
  /\ Teardown /\ bleUp' = FALSE
  /\ UNCHANGED <<stack, connHandle, inBuf, suspended, silence, system, spoke>>

\* ensureBle builds the server on a stack that has none, and advertises.
Rebuild == ~stack \/ ~bleUp

TickBuild ==
  /\ pc = "tick" /\ enabled /\ Rebuild /\ pc' = "lines"
  /\ stack' = TRUE /\ bleUp' = TRUE /\ adv' = TRUE
  /\ connected' = FALSE /\ proven' = FALSE
  /\ UNCHANGED <<link, connHandle, inBuf, suspended, silence, system, spoke>>

\* The advertising watchdog.
TickNoWatchdog ==
  /\ pc = "tick" /\ enabled /\ ~Rebuild /\ pc' = "lines"
  /\ UNCHANGED <<stackVars, flags, inBuf, suspended, silence, system, spoke>>

TickWatchdog ==
  /\ pc = "tick" /\ enabled /\ ~Rebuild /\ pc' = "lines"
  /\ adv' = (adv \/ ~connected)
  /\ UNCHANGED <<stack, link, flags, inBuf, suspended, silence, system, spoke>>

\* handleLine, one line of _inBuf after another.
NextLine(c) == pc = "lines" /\ inBuf # <<>> /\ Head(inBuf) = c /\ inBuf' = Tail(inBuf)

HandleHello ==
  /\ NextLine("hello")
  /\ proven' = TRUE /\ Stamp
  /\ UNCHANGED <<stackVars, bleUp, connected, connHandle, suspended, system, pc, spoke>>

HandleRefused ==
  /\ ~proven /\ \E c \in Commands \ {"hello"} : NextLine(c)
  /\ UNCHANGED <<stackVars, flags, suspended, silence, system, pc, spoke>>

\* slot renames the node: restartAdvertising, whether a phone is there or not.
HandleSlot ==
  /\ proven /\ NextLine("slot")
  /\ adv' = stack
  /\ UNCHANGED <<stack, link, flags, suspended, silence, system, pc, spoke>>

HandleStop ==
  /\ proven /\ NextLine("stopscan")
  /\ ShutdownBLE
  /\ UNCHANGED <<bleUp, connHandle, suspended, silence, enabled, pc, spoke>>

HandleStart ==
  /\ proven /\ NextLine("wardrive")
  /\ StartBLE
  /\ UNCHANGED <<bleUp, connHandle, suspended, silence, enabled, pc, spoke>>

HandleLine == HandleHello \/ HandleRefused \/ HandleSlot \/ HandleStop \/ HandleStart

LinesDone ==
  /\ pc = "lines" /\ inBuf = <<>> /\ pc' = "drop"
  /\ UNCHANGED <<stackVars, flags, inBuf, suspended, silence, system, spoke>>

SilentWhenProven == connected /\ proven /\ (aged \/ ahead)  \* mutant: the wrong links
\* now - _linkSilentSince is unsigned: a time before the stamp is a long time.
Silent == connected /\ ~proven /\ (aged \/ ahead)

DropSilent ==
  /\ pc = "drop" /\ Silent /\ pc' = "menu"
  /\ link' = Disconnected(connHandle) /\ connected' = FALSE
  /\ UNCHANGED <<stack, adv, bleUp, proven, connHandle, inBuf, suspended, silence, system, spoke>>

KeepLink ==
  /\ pc = "drop" /\ ~Silent /\ pc' = "menu"
  /\ UNCHANGED <<stackVars, flags, inBuf, suspended, silence, system, spoke>>

Tick == LoopBegins \/ TickDisabled \/ TickBuild \/ TickWatchdog \/ HandleLine \/ LinesDone
          \/ DropSilent \/ KeepLink

---------------------------------------------------------------------------
(* The menu *)

MenuNothing ==
  /\ pc = "menu" /\ pc' = "loop"
  /\ UNCHANGED <<stackVars, flags, inBuf, suspended, silence, system, spoke>>

MenuToggle ==
  /\ pc = "menu" /\ pc' = "loop"
  /\ enabled' = ~enabled
  /\ UNCHANGED <<stackVars, flags, inBuf, suspended, silence, scanBle, spoke>>

MenuScan ==
  /\ pc = "menu" /\ pc' = "loop"
  /\ StartBLE \/ ShutdownBLE
  /\ UNCHANGED <<bleUp, connHandle, inBuf, suspended, silence, enabled, spoke>>

\* uploadFile parks Swarm in two steps and blocks loop(); one file may follow
\* another.  With Swarm off, suspendForUpload returns at once.
SuspendTeardown ==
  /\ pc \in {"menu", "uploaded"} /\ enabled /\ pc' = "deinit"
  /\ suspended' = TRUE
  /\ Teardown
  /\ UNCHANGED <<stack, bleUp, connHandle, inBuf, silence, system, spoke>>

SuspendForgetsDeinit ==
  /\ pc = "deinit" /\ pc' = "upload"
  /\ bleUp' = FALSE /\ connected' = FALSE /\ proven' = FALSE
  /\ UNCHANGED <<stackVars, connHandle, inBuf, suspended, silence, system, spoke>>

SuspendDeinit ==
  /\ pc = "deinit" /\ pc' = "upload"
  /\ Deinit
  /\ bleUp' = FALSE /\ connected' = FALSE /\ proven' = FALSE
  /\ UNCHANGED <<connHandle, inBuf, suspended, silence, system, spoke>>

Resume ==
  /\ pc = "upload" /\ pc' = "uploaded" /\ suspended' = FALSE
  /\ UNCHANGED <<stackVars, flags, inBuf, silence, system, spoke>>

\* StartScan(WIFI_SCAN_OFF), after the last file: a wardrive still on ends here.
UploadsDone ==
  /\ pc = "uploaded" /\ pc' = "loop"
  /\ \/ ShutdownBLE
     \/ UNCHANGED <<stackVars, connected, proven, scanBle>>
  /\ UNCHANGED <<bleUp, connHandle, inBuf, suspended, silence, enabled, spoke>>

Menu == MenuNothing \/ MenuToggle \/ MenuScan
Upload == SuspendTeardown \/ SuspendDeinit \/ Resume \/ UploadsDone

Next == Host \/ Elapse \/ Tick \/ Menu \/ Upload
Spec == Init /\ [][Next]_vars

\* loop() goes round, time passes, an upload session has a last file, and the
\* stack gives up on a dead link.
Fairness == /\ WF_vars(Tick \/ Menu \/ Upload) /\ WF_vars(Elapse)
            /\ SF_vars(UploadsDone)
            /\ \A h \in Handles : WF_vars(LinkEnds(h))
FairSpec == Spec /\ Fairness

---------------------------------------------------------------------------
(* Properties *)

TypeOK ==
  /\ stack \in BOOLEAN /\ adv \in BOOLEAN
  /\ link \in [Handles -> {"free", "open", "closing"}]
  /\ bleUp \in BOOLEAN /\ connected \in BOOLEAN /\ proven \in BOOLEAN
  /\ connHandle \in Handles
  /\ inBuf \in Seq(Commands) /\ Len(inBuf) <= InBuf
  /\ suspended \in BOOLEAN
  /\ elapsed \in BOOLEAN /\ aged \in BOOLEAN /\ ahead \in BOOLEAN
  /\ enabled \in BOOLEAN /\ scanBle \in BOOLEAN
  /\ pc \in {"loop", "tick", "lines", "drop", "menu", "deinit", "upload", "uploaded"}
  /\ spoke \in [Handles -> BOOLEAN]

\* "Full stack down: no advertising, no reconnects mid-upload"
\* (SwarmNode.cpp:299): from suspendForUpload to resumeFromUpload the radio is
\* the upload's, whatever link was open, closing or opening when it began.
UploadQuiet == suspended /\ pc = "upload" => /\ ~stack /\ ~adv /\ ~AnyLink
                                             /\ ~connected /\ ~proven

\* The watchdog advertises only while _connected is false, so a _connected that
\* no link backs would hide the node for good (onServerEvent, ensureBle).
ConnectedIsReal == connected => stack /\ link[connHandle] # "free"

\* While Swarm stays on the phone can always come back: time and again the node
\* advertises or holds a link, through stopped scans, uploads and dead links
\* (the watchdog of main, ensureBle).
Reachable == <>[]enabled => []<>(adv \/ OpenLinks # {})

\* "Drop unproven silent links" (SwarmNode.cpp:803): a link the phone never
\* writes to is dropped, if SwarmNode knows of it and no hello left over from the
\* last link proves it.
SilentDropped ==
  \A h \in Handles :
    (link[h] = "open" /\ ~spoke[h] /\ connected)
      ~> (link[h] # "open" \/ spoke[h] \/ ~enabled \/ ~connected \/ proven)
=============================================================================
