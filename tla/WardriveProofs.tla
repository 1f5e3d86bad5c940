-------------------------- MODULE WardriveProofs --------------------------
(***************************************************************************)
(* The safety of the wardrive scan, for every history length, every set of *)
(* addresses and every channel list.  The argument turns on Alone: the     *)
(* Bluetooth host task is idle whenever loop() is past the isScanning test *)
(* of executeWarDrive.  loop() and the host task then never save at the    *)
(* same time, so that a save overlaps another only where one of the two is *)
(* the sniffer's, and only the sniffer's addresses can enter the history   *)
(* beside another's.                                                       *)
(***************************************************************************)
EXTENDS Wardrive, TLAPS

USE AddrAssumption, HistoryAssumption, PlansAssumption, ScreenAssumption

-----------------------------------------------------------------------------
\* loop() is within executeWarDrive and has found no BLE scan running.
PastScanning ==
  {"restart", "results", "save", "wrap", "store", "bump", "line", "sniffer", "ble", "wait", "clear"}

\* The BLE scan is off there and while the scan is stopped; and when it is
\* off the host task is idle, except where loop() itself has just ended it.
Alone ==
  /\ pc["main"] \in PastScanning \cup {"deinit", "off"} => ~disc
  /\ pc["main"] \notin {"loop", "stop", "deinit"} /\ ~disc => pc["host"] = "idle"

\* executeWarDrive goes on only outside of the geofences.
Outside == pc["main"] \in PastScanning \cup {"scan", "next"} => ~paused

\* A save that no other has overlapped finds the cursor where its test left it,
\* and what overlaps is put on record in both.
Savers ==
  /\ beside \in [Tasks -> SUBSET Tasks] /\ strayed \subseteq Tasks
  /\ \A t \in Tasks : pc[t] = "store" => slot[t] \in Slots
  /\ \A t \in Tasks : pc[t] = "store" /\ beside[t] = {} => cursor = slot[t]
  /\ \A t, u \in Tasks : InSave(t) /\ InSave(u) /\ t # u => beside[t] # {}
  /\ \A t, u \in Tasks : u \in beside[t] => "wifi" \in {t, u}
  /\ \A t \in strayed : pc[t] = "bump" /\ beside[t] # {}

InAppend(t) == IF pc[t] = "append" THEN 1 ELSE 0

\* While paused no callback newly decides to append.
FewDecided == paused => pausedLines + InAppend("host") + InAppend("wifi") <= 2

\* What loop() or the host task is about to save is not in the history yet,
\* unless it is one of the sniffer's; the sniffer saves only its own.
Unsaved ==
  /\ pc["main"] \in {"save", "wrap", "store"} => addr["main"] \in Flock \/ ~Seen(addr["main"])
  /\ pc["host"] \in {"line", "append", "save", "wrap", "store"}
       => addr["host"] \in Flock \/ ~Seen(addr["host"])
  /\ pc["wifi"] \in {"save", "wrap", "store"} => addr["wifi"] \in Flock

\* TypeOK, in two halves.
RecorderTypes ==
  /\ pc \in [Tasks -> Labels]
  /\ addr \in [Tasks -> Addr \cup {Empty}]
  /\ slot \in [Tasks -> 0 .. HistoryLen]
  /\ hist \in [Slots -> Addr \cup {Empty}]
  /\ cursor \in 0 .. HistoryLen
  /\ pausedLines \in Nat

ScanTypes ==
  /\ index = 0 \/ \E r \in Regions : index \in 1 .. Len(Plans[r])
  /\ channel \in Nat /\ region \in Regions
  /\ paused \in BOOLEAN /\ bt_cb_busy \in BOOLEAN
  /\ bt_pending_clear \in BOOLEAN /\ ble_scanning \in BOOLEAN
  /\ disc \in BOOLEAN /\ sniff \in BOOLEAN
  /\ wifi \in {"failed", "running", "done"}
  /\ todo \subseteq Addr

Inv ==
  /\ RecorderTypes /\ ScanTypes
  /\ Alone /\ Outside /\ Savers /\ FewDecided /\ Unsaved /\ HistoryDistinct

-----------------------------------------------------------------------------
\* At power-on the scan is off and the history empty.
LEMMA InitInv == Init => Inv
  <1> SUFFICES ASSUME Init PROVE Inv
    OBVIOUS
  <1>1. pc["main"] = "off" /\ pc["host"] = "idle" /\ pc["wifi"] = "idle"
    BY DEF Init, Tasks
  <1>2. pc \in [Tasks -> Labels] BY DEF Init, Labels
  <1>3. addr \in [Tasks -> Addr \cup {Empty}] BY DEF Init
  <1>4. slot \in [Tasks -> 0 .. HistoryLen] /\ hist \in [Slots -> Addr \cup {Empty}]
    BY DEF Init, Slots
  <1>10. /\ \A t \in Tasks : pc[t] \notin {"wrap", "store", "bump"}
         /\ strayed = {} /\ \A t \in Tasks : beside[t] = {}
         /\ beside \in [Tasks -> SUBSET Tasks]
    BY DEF Init
  <1>5. RecorderTypes BY <1>2, <1>3, <1>4, <1>10 DEF Init, RecorderTypes
  <1>6. ScanTypes BY DEF Init, ScanTypes
  <1>7. Alone /\ Outside /\ FewDecided /\ Unsaved
    BY <1>1 DEF Init, Alone, Outside, PastScanning, FewDecided, InAppend, Unsaved
  <1>8. Savers BY <1>10 DEF Savers, InSave
  <1>9. HistoryDistinct BY DEF Init, HistoryDistinct
  <1> QED BY <1>5, <1>6, <1>7, <1>8, <1>9 DEF Inv

\* The channel the index names is in the region's list, whichever list the
\* index was counted in.
LEMMA CurrentInPlan ==
  ASSUME ScanTypes
  PROVE  /\ Current + 1 \in 1 .. Len(Plans[region])
         /\ Plans[region][Current + 1] \in Nat
  <1>1. Plans[region] \in Seq(Nat) /\ Len(Plans[region]) \in Nat /\ Len(Plans[region]) > 0
    BY DEF ScanTypes
  <1>2. index \in Nat
    BY DEF ScanTypes
  <1>3. Current \in Nat /\ Current < Len(Plans[region])
    BY <1>1, <1>2 DEF Current
  <1> QED BY <1>1, <1>3

-----------------------------------------------------------------------------
\* The types of what the tasks record, step by step.
LEMMA RecorderStep ==
  ASSUME RecorderTypes, Next
  PROVE  RecorderTypes'
  <1> USE DEF RecorderTypes, Labels
  <1>0. 0 \in Slots /\ Slots \subseteq 0 .. HistoryLen /\ \A i \in Slots : i + 1 \in 0 .. HistoryLen
    BY DEF Slots
  <1>1. ASSUME NEW t \in Tasks, SaveTest(t) PROVE RecorderTypes'
    <2>1. pc' \in [Tasks -> Labels]
      BY <1>1 DEF SaveTest, Goto
    <2>2. slot' \in [Tasks -> 0 .. HistoryLen]
      BY <1>1 DEF SaveTest
    <2> QED BY <1>1, <2>1, <2>2 DEF SaveTest
  <1>16. ASSUME NEW t \in Tasks, SaveWrap(t) PROVE RecorderTypes'
    BY <1>0, <1>16 DEF SaveWrap, Goto
  <1>17. ASSUME NEW t \in Tasks, SaveWrite(t) PROVE RecorderTypes'
    <2>1. /\ slot[t] \in 0 .. HistoryLen /\ cursor \in 0 .. HistoryLen
          /\ addr[t] \in Addr \cup {Empty}
      OBVIOUS
    <2>2. PICK i \in 0 .. HistoryLen, held \in 0 .. HistoryLen :
            /\ hist' = IF i \in Slots THEN [hist EXCEPT ![i] = addr[t]] ELSE hist
            /\ slot' = [slot EXCEPT ![t] = held]
      BY <1>17, <2>1 DEF SaveWrite
    <2>3. /\ hist' \in [Slots -> Addr \cup {Empty}]
          /\ slot' \in [Tasks -> 0 .. HistoryLen]
      BY <2>1, <2>2
    <2>4. /\ pc' = [pc EXCEPT ![t] = "bump"] /\ addr' = [addr EXCEPT ![t] = Empty]
          /\ UNCHANGED <<cursor, pausedLines>>
      BY <1>17 DEF SaveWrite, Goto
    <2>5. pc' \in [Tasks -> Labels] /\ addr' \in [Tasks -> Addr \cup {Empty}]
      BY <2>4
    <2> QED BY <2>3, <2>4, <2>5
  <1>2. ASSUME NEW t \in Tasks, NEW after \in {"line", "end"}, SaveBump(t, after) PROVE RecorderTypes'
    <2>1. cursor' \in 0 .. HistoryLen
      BY <1>0, <1>2 DEF SaveBump
    <2>2. pc' = [pc EXCEPT ![t] = after] /\ slot' = [slot EXCEPT ![t] = 0]
      BY <1>2 DEF SaveBump, Goto
    <2>3. pc' \in [Tasks -> Labels] /\ slot' \in [Tasks -> 0 .. HistoryLen]
      BY <1>0, <2>2
    <2> QED BY <1>2, <2>1, <2>3 DEF SaveBump
  <1>3. ASSUME NEW t \in Tasks, NEW l \in Labels, LineChecked(t, l) PROVE RecorderTypes'
    BY <1>3 DEF LineChecked, Goto, history
  <1>4. CASE StartScan \/ StopScan \/ ShutdownBLE \/ Stopped \/ SetRegion
    BY <1>4 DEF StartScan, StopScan, ShutdownBLE, Stopped, SetRegion, Goto, history, tasks
  <1>5. CASE CheckZone \/ Pause \/ ScanBusy \/ ScanRunning
    BY <1>5 DEF CheckZone, Pause, ScanBusy, ScanRunning, Goto, history
  <1>6. CASE ScanFailed \/ ScanDone \/ Restarted
    BY <1>6 DEF ScanFailed, ScanDone, Restarted, Goto, history
  <1>7. ASSUME NEW a \in Addr, Result(a) PROVE RecorderTypes'
    <2>1. /\ UNCHANGED <<slot, hist, cursor, pausedLines>>
          /\ UNCHANGED <<pc, addr>> \/ (/\ pc' = [pc EXCEPT !["main"] = "save"]
                                        /\ addr' = [addr EXCEPT !["main"] = a])
      BY <1>7 DEF Result, Goto, history
    <2> QED BY <2>1
  <1>8. CASE ResultSaved
    BY <1>8 DEF ResultSaved, Append1, Goto, history
  <1>9. CASE ResultsDone \/ StartSniffer \/ PendingClear \/ WaitCallback
    BY <1>9 DEF ResultsDone, StartSniffer, PendingClear, WaitCallback, Goto, history
  <1>10. CASE StartBleScan \/ NextChannel
    BY <1>10 DEF StartBleScan, NextChannel, Goto, history
  <1>11. ASSUME NEW a \in Addr, HostResult(a) PROVE RecorderTypes'
    BY <1>11 DEF HostResult, Goto, history
  <1>12. CASE HostBusy \/ HostSeen \/ HostAppend \/ HostEnd
    BY <1>12 DEF HostBusy, HostSeen, HostAppend, HostEnd, Append1, Goto, history
  <1>13. ASSUME NEW a \in Flock, Sniffed(a) PROVE RecorderTypes'
    BY <1>13 DEF Sniffed, Goto, history
  <1>14. CASE SniffedAppend \/ DiscEnds \/ WiFiScanEnds
    BY <1>14 DEF SniffedAppend, DiscEnds, WiFiScanEnds, Append1, Goto, history, tasks
  <1>15. "main" \in Tasks /\ "host" \in Tasks /\ "wifi" \in Tasks
    BY DEF Tasks
  <1> QED
    BY <1>1, <1>2, <1>3, <1>4, <1>5, <1>6, <1>7, <1>8, <1>9, <1>10, <1>11, <1>12, <1>13, <1>14, <1>15,
       <1>16, <1>17
    DEF Next, Main, Host, WiFiTask, Save, MainSave, HostSave, WiFiSave, HostLine, SniffedLine

\* The types of what the scan itself keeps; the index stays within a list.
LEMMA ScanStep ==
  ASSUME ScanTypes, Next
  PROVE  ScanTypes'
  <1> USE DEF ScanTypes
  <1>1. ASSUME NEW t \in Tasks, SaveTest(t) \/ SaveWrap(t) \/ SaveWrite(t) PROVE ScanTypes'
    BY <1>1 DEF SaveTest, SaveWrap, SaveWrite, schedule, flags, radio
  <1>2. ASSUME NEW t \in Tasks, NEW after \in Labels, SaveBump(t, after) PROVE ScanTypes'
    BY <1>2 DEF SaveBump, schedule, flags, radio
  <1>3. ASSUME NEW t \in Tasks, NEW l \in Labels, LineChecked(t, l) PROVE ScanTypes'
    BY <1>3 DEF LineChecked, schedule, flags, radio
  <1>4. CASE StartScan \/ StopScan \/ ShutdownBLE \/ Stopped \/ SetRegion
    BY <1>4, ZenonT(40) DEF StartScan, StopScan, ShutdownBLE, Stopped, SetRegion, schedule, flags, radio
  <1>5. CASE CheckZone \/ Pause \/ ScanBusy \/ ScanRunning
    BY <1>5, ZenonT(40) DEF CheckZone, Pause, ScanBusy, ScanRunning, schedule, flags, radio
  <1>6. CASE ScanFailed \/ ScanDone \/ Restarted
    BY <1>6 DEF ScanFailed, ScanDone, Restarted, schedule, flags, radio
  <1>7. ASSUME NEW a \in Addr, Result(a) PROVE ScanTypes'
    BY <1>7 DEF Result, schedule, flags, radio
  <1>8. CASE ResultSaved
    BY <1>8 DEF ResultSaved, schedule, flags, radio
  <1>9. CASE ResultsDone \/ StartSniffer \/ PendingClear \/ WaitCallback
    BY <1>9, ZenonT(40) DEF ResultsDone, StartSniffer, PendingClear, WaitCallback, schedule, flags, radio
  <1>10. CASE StartBleScan
    BY <1>10 DEF StartBleScan, schedule, flags, radio
  <1>11. CASE NextChannel
    <2>1. CASE ble_scanning
      BY <1>11, <2>1 DEF NextChannel, flags
    <2>2. CASE ~ble_scanning
      <3>1. index' \in 1 .. Len(Plans[region]) /\ channel' \in Nat
        BY <1>11, <2>2, CurrentInPlan DEF NextChannel
      <3>2. region' = region BY <1>11 DEF NextChannel
      <3> QED BY <1>11, <2>2, <3>1, <3>2 DEF NextChannel, flags
    <2> QED BY <2>1, <2>2
  <1>12. ASSUME NEW a \in Addr, HostResult(a) PROVE ScanTypes'
    BY <1>12 DEF HostResult, schedule, flags, radio
  <1>13. CASE HostBusy \/ HostSeen \/ HostAppend \/ HostEnd
    BY <1>13, ZenonT(40) DEF HostBusy, HostSeen, HostAppend, HostEnd, schedule, flags, radio
  <1>14. ASSUME NEW a \in Flock, Sniffed(a) PROVE ScanTypes'
    BY <1>14 DEF Sniffed, schedule, flags, radio
  <1>15. CASE SniffedAppend \/ DiscEnds \/ WiFiScanEnds
    BY <1>15 DEF SniffedAppend, DiscEnds, WiFiScanEnds, schedule, flags, radio
  <1>16. "main" \in Tasks /\ "host" \in Tasks /\ "wifi" \in Tasks
    BY DEF Tasks
  <1> QED
    BY <1>1, <1>2, <1>3, <1>4, <1>5, <1>6, <1>7, <1>8, <1>9, <1>10, <1>11, <1>12, <1>13, <1>14, <1>15, <1>16
    DEF Next, Main, Host, WiFiTask, Save, MainSave, HostSave, WiFiSave, HostLine, SniffedLine, Labels

-----------------------------------------------------------------------------
\* The host task is idle while loop() is past the isScanning test: loop()
\* gets there only when the BLE scan is off and no callback runs, and a scan
\* it starts begins when it leaves.
LEMMA AloneStep ==
  ASSUME RecorderTypes, ScanTypes, Alone, Outside, Next
  PROVE  Alone' /\ Outside'
  <1> USE DEF Alone, Outside, PastScanning
  <1>0. "main" \in Tasks /\ "host" \in Tasks /\ "wifi" \in Tasks /\ pc \in [Tasks -> Labels]
    BY DEF Tasks, RecorderTypes
  <1>1. CASE MainSave
    <2>1. /\ pc["main"] \in {"save", "wrap", "store", "bump"}
          /\ pc'["main"] \in {"wrap", "store", "bump", "line"}
          /\ disc' = disc /\ paused' = paused /\ pc'["host"] = pc["host"]
      BY <1>0, <1>1 DEF MainSave, Save, SaveTest, SaveWrap, SaveWrite, SaveBump, Goto, radio
    <2> QED BY <2>1
  <1>2. CASE HostSave \/ HostLine
    <2>1. /\ pc["host"] # "idle" /\ pc'["main"] = pc["main"]
          /\ disc' = disc /\ paused' = paused
      BY <1>0, <1>2 DEF HostSave, HostLine, Save, SaveTest, SaveWrap, SaveWrite, SaveBump, LineChecked, Goto, radio
    <2> QED BY <2>1
  <1>3. CASE WiFiSave \/ SniffedLine
    <2>1. /\ pc'["main"] = pc["main"] /\ pc'["host"] = pc["host"]
          /\ disc' = disc /\ paused' = paused
      BY <1>0, <1>3 DEF WiFiSave, SniffedLine, Save, SaveTest, SaveWrap, SaveWrite, SaveBump, LineChecked, Goto, radio
    <2> QED BY <2>1
  <1>4. CASE StartScan \/ StopScan \/ ShutdownBLE \/ Stopped
    BY <1>0, <1>4 DEF StartScan, StopScan, ShutdownBLE, Stopped, Goto, radio
  <1>5. CASE SetRegion
    BY <1>5 DEF SetRegion, tasks, radio
  <1>6. CASE CheckZone \/ Pause
    BY <1>0, <1>6 DEF CheckZone, Pause, Goto, radio
  <1>7. CASE ScanBusy \/ ScanRunning \/ ScanFailed \/ ScanDone \/ Restarted
    BY <1>0, <1>7 DEF ScanBusy, ScanRunning, ScanFailed, ScanDone, Restarted, IsScanning, Goto, radio
  <1>8. ASSUME NEW a \in Addr, Result(a) PROVE Alone' /\ Outside'
    BY <1>0, <1>8 DEF Result, Goto, radio
  <1>9. CASE ResultSaved
    BY <1>0, <1>9 DEF ResultSaved, Append1, Goto, radio
  <1>10. CASE ResultsDone \/ StartSniffer
    BY <1>0, <1>10 DEF ResultsDone, StartSniffer, Goto
  <1>11. CASE PendingClear \/ WaitCallback
    BY <1>0, <1>11 DEF PendingClear, WaitCallback, Goto, radio
  <1>12. CASE StartBleScan \/ NextChannel
    BY <1>0, <1>12 DEF StartBleScan, NextChannel, Goto
  <1>13. ASSUME NEW a \in Addr, HostResult(a) PROVE Alone' /\ Outside'
    BY <1>0, <1>13 DEF HostResult, Goto, radio
  <1>14. CASE HostBusy \/ HostSeen \/ HostAppend \/ HostEnd
    BY <1>0, <1>14 DEF HostBusy, HostSeen, HostAppend, HostEnd, Append1, Goto, radio
  <1>15. CASE DiscEnds \/ WiFiScanEnds
    BY <1>15 DEF DiscEnds, WiFiScanEnds, tasks
  <1>16. ASSUME NEW a \in Flock, Sniffed(a) PROVE Alone' /\ Outside'
    BY <1>0, <1>16 DEF Sniffed, Goto, radio
  <1>17. CASE SniffedAppend
    BY <1>0, <1>17 DEF SniffedAppend, Append1, Goto, radio
  <1> QED
    BY <1>1, <1>2, <1>3, <1>4, <1>5, <1>6, <1>7, <1>8, <1>9, <1>10, <1>11, <1>12, <1>13,
       <1>14, <1>15, <1>16, <1>17
    DEF Next, Main, Host, WiFiTask

-----------------------------------------------------------------------------
\* loop() and the host task are never both in save_mac or on the way to it.
LEMMA OneSaver ==
  ASSUME Alone
  PROVE  /\ pc["main"] \in {"save", "wrap", "store", "bump"} => pc["host"] = "idle"
         /\ pc["host"] \in {"line", "append", "save", "wrap", "store", "bump"}
              => pc["main"] \notin {"save", "wrap", "store", "bump"}
  BY DEF Alone, PastScanning

\* A step outside of save_mac brings no task in or out and leaves the cursor.
LEMMA Elsewhere ==
  ASSUME RecorderTypes, Next, ~MainSave, ~HostSave, ~WiFiSave
  PROVE  /\ UNCHANGED <<slot, cursor, beside, strayed>>
         /\ \A t \in Tasks : InSave(t) \/ InSave(t)' => pc'[t] = pc[t]
  <1> DEFINE Left == /\ UNCHANGED <<slot, cursor, beside, strayed>>
                     /\ \A t \in Tasks : InSave(t) \/ InSave(t)' => pc'[t] = pc[t]
  <1> USE DEF InSave
  <1>0. pc \in [Tasks -> Labels]
    BY DEF RecorderTypes
  <1>1. CASE HostLine \/ SniffedLine
    BY <1>0, <1>1 DEF HostLine, SniffedLine, LineChecked, Goto, history
  <1>2. CASE StartScan \/ StopScan \/ ShutdownBLE \/ Stopped \/ SetRegion
    BY <1>0, <1>2 DEF StartScan, StopScan, ShutdownBLE, Stopped, SetRegion, Goto, history, tasks
  <1>3. CASE CheckZone \/ Pause \/ ScanBusy \/ ScanRunning
    BY <1>0, <1>3 DEF CheckZone, Pause, ScanBusy, ScanRunning, Goto, history
  <1>4. CASE ScanFailed \/ ScanDone \/ Restarted
    BY <1>0, <1>4 DEF ScanFailed, ScanDone, Restarted, Goto, history
  <1>5. ASSUME NEW a \in Addr, Result(a) PROVE Left
    BY <1>0, <1>5 DEF Result, Goto, history
  <1>6. CASE ResultSaved
    BY <1>0, <1>6 DEF ResultSaved, Append1, Goto, history
  <1>7. CASE ResultsDone \/ StartSniffer \/ PendingClear \/ WaitCallback
    BY <1>0, <1>7 DEF ResultsDone, StartSniffer, PendingClear, WaitCallback, Goto, history
  <1>8. CASE StartBleScan \/ NextChannel
    BY <1>0, <1>8 DEF StartBleScan, NextChannel, Goto, history
  <1>9. ASSUME NEW a \in Addr, HostResult(a) PROVE Left
    BY <1>0, <1>9 DEF HostResult, Goto, history
  <1>10. CASE HostBusy \/ HostSeen \/ HostAppend \/ HostEnd
    BY <1>0, <1>10 DEF HostBusy, HostSeen, HostAppend, HostEnd, Append1, Goto, history
  <1>11. ASSUME NEW a \in Flock, Sniffed(a) PROVE Left
    BY <1>0, <1>11 DEF Sniffed, Goto, history
  <1>12. CASE SniffedAppend \/ DiscEnds \/ WiFiScanEnds
    BY <1>0, <1>12 DEF SniffedAppend, DiscEnds, WiFiScanEnds, Append1, Goto, history, tasks
  <1> QED
    BY <1>1, <1>2, <1>3, <1>4, <1>5, <1>6, <1>7, <1>8, <1>9, <1>10, <1>11, <1>12
    DEF Next, Main, Host, WiFiTask

\* A task that moves the cursor does so within save_mac, and is then on record
\* with every other task that has tested it and not yet stored.
LEMMA SaversStep ==
  ASSUME RecorderTypes, Alone, Savers, Next
  PROVE  Savers'
  <1>0. /\ pc \in [Tasks -> Labels] /\ slot \in [Tasks -> 0 .. HistoryLen]
        /\ beside \in [Tasks -> SUBSET Tasks] /\ strayed \subseteq Tasks
        /\ cursor \in 0 .. HistoryLen
    BY DEF RecorderTypes, Savers
  <1>1. ASSUME NEW t \in Tasks, SaveTest(t) PROVE Savers'
    <2> DEFINE others == {u \in Tasks \ {t} : InSave(u)}
    <2>1. /\ pc[t] = "save" /\ UNCHANGED <<cursor, strayed>>
          /\ \A u \in Tasks \ {t} : pc'[u] = pc[u] /\ slot'[u] = slot[u]
          /\ pc'[t] = "wrap" \/ (pc'[t] = "store" /\ slot'[t] = cursor /\ cursor \in Slots)
      BY <1>0, <1>1 DEF SaveTest, Goto, Slots
    <2>2. /\ beside'[t] = others
          /\ \A u \in others : beside'[u] = beside[u] \cup {t}
          /\ \A u \in Tasks : u # t /\ u \notin others => beside'[u] = beside[u]
      BY <1>1 DEF SaveTest, Joins
    <2>3. \A u \in others : u \in Tasks /\ u # t /\ InSave(u)
      OBVIOUS
    <2>4. \A u \in Tasks : u # t /\ InSave(u) => u \in others
      OBVIOUS
    <2>5. \A u \in others : "wifi" \in {t, u}
      BY <2>1, <2>3, OneSaver DEF InSave, Tasks
    <2>6. \A u \in Tasks \ {t} : InSave(u)' <=> InSave(u)
      BY <2>1 DEF InSave
    <2> HIDE DEF others
    <2>7. \A u \in Tasks : beside[u] \subseteq Tasks
      BY <1>0
    <2>8. \A u \in Tasks \ {t} : beside[u] # {} => beside'[u] # {}
      BY <2>2
    <2>9. ASSUME NEW u \in Tasks, pc'[u] = "store", beside'[u] = {} PROVE cursor' = slot'[u]
      BY <2>1, <2>8, <2>9 DEF Savers
    <2>10. ASSUME NEW u \in Tasks, NEW v \in Tasks, InSave(u)', InSave(v)', u # v
           PROVE  beside'[u] # {}
      <3>1. CASE u = t
        BY <2>2, <2>4, <2>6, <2>10, <3>1
      <3>2. CASE v = t
        BY <2>2, <2>4, <2>6, <2>10, <3>2
      <3>3. CASE u # t /\ v # t
        BY <2>6, <2>8, <2>10, <3>3 DEF Savers
      <3> QED BY <3>1, <3>2, <3>3
    <2>11. ASSUME NEW u \in Tasks, NEW v \in Tasks, v \in beside'[u] PROVE "wifi" \in {u, v}
      <3>1. CASE u = t
        BY <2>2, <2>5, <2>11, <3>1
      <3>2. CASE u \in others
        BY <2>2, <2>3, <2>5, <2>11, <3>2 DEF Savers
      <3>3. CASE u # t /\ u \notin others
        BY <2>2, <2>11, <3>3 DEF Savers
      <3> QED BY <3>1, <3>2, <3>3
    <2>12. ASSUME NEW u \in strayed' PROVE pc'[u] = "bump" /\ beside'[u] # {}
      <3>1. u \in Tasks /\ u \in strayed /\ pc[u] = "bump" /\ beside[u] # {}
        BY <2>1, <2>12 DEF Savers, RecorderTypes
      <3>2. u # t
        BY <2>1, <3>1
      <3> QED BY <2>1, <2>8, <3>1, <3>2
    <2>13. \A u \in Tasks : pc'[u] = "store" => slot'[u] \in Slots
      BY <2>1 DEF Savers
    <2>14. beside' \in [Tasks -> SUBSET Tasks]
      BY <1>0, <1>1 DEF SaveTest, Joins
    <2> QED BY <1>0, <2>1, <2>9, <2>10, <2>11, <2>12, <2>13, <2>14 DEF Savers
  <1>2. ASSUME NEW t \in Tasks, SaveWrap(t) PROVE Savers'
    <2>1. /\ pc[t] = "wrap" /\ pc' = [pc EXCEPT ![t] = "store"]
          /\ cursor' = 0 /\ slot' = [slot EXCEPT ![t] = 0]
          /\ UNCHANGED <<beside, strayed>>
      BY <1>2 DEF SaveWrap, Goto
    <2>2. /\ pc'[t] = "store" /\ slot'[t] = cursor'
          /\ \A u \in Tasks \ {t} : pc'[u] = pc[u] /\ slot'[u] = slot[u]
      BY <1>0, <2>1
    <2>3. \A u \in Tasks : InSave(u)' <=> InSave(u)
      BY <2>1, <2>2 DEF InSave
    <2>7. \A u \in Tasks : pc'[u] = "store" => slot'[u] \in Slots
      BY <2>1, <2>2 DEF Savers, Slots
    <2>4. \A u \in Tasks \ {t} : InSave(u) => beside'[u] # {}
      BY <2>1 DEF Savers, InSave
    <2>5. \A u \in Tasks : pc'[u] = "store" /\ beside'[u] = {} => cursor' = slot'[u]
      BY <2>2, <2>3, <2>4 DEF InSave
    <2>6. \A u \in strayed' : pc'[u] = "bump" /\ beside'[u] # {}
      BY <2>1, <2>2 DEF Savers, RecorderTypes
    <2> QED BY <1>0, <2>1, <2>3, <2>5, <2>6, <2>7 DEF Savers
  <1>3. ASSUME NEW t \in Tasks, SaveWrite(t) PROVE Savers'
    <2>1. PICK i \in {slot[t], cursor} :
            strayed' = IF i \in Slots THEN strayed ELSE strayed \cup {t}
      BY <1>3 DEF SaveWrite
    <2>2. /\ pc[t] = "store" /\ pc' = [pc EXCEPT ![t] = "bump"]
          /\ UNCHANGED <<cursor, beside>>
          /\ \A u \in Tasks \ {t} : slot'[u] = slot[u]
      BY <1>0, <1>3 DEF SaveWrite, Goto
    <2>3. pc'[t] = "bump" /\ \A u \in Tasks \ {t} : pc'[u] = pc[u]
      BY <1>0, <2>2
    <2>4. \A u \in Tasks : InSave(u)' <=> InSave(u)
      BY <2>2, <2>3 DEF InSave
    <2>5. i \notin Slots => beside[t] # {}
      BY <2>1, <2>2 DEF Savers, RecorderTypes
    <2>6. \A u \in strayed' : pc'[u] = "bump" /\ beside'[u] # {}
      BY <2>1, <2>2, <2>3, <2>5 DEF Savers, RecorderTypes
    <2>7. \A u \in Tasks : pc'[u] = "store" /\ beside'[u] = {} => cursor' = slot'[u]
      BY <2>2, <2>3 DEF Savers
    <2>8. \A u \in Tasks : pc'[u] = "store" => slot'[u] \in Slots
      BY <2>2, <2>3 DEF Savers
    <2>9. strayed' \subseteq Tasks
      BY <1>0, <2>1
    <2> QED BY <1>0, <2>2, <2>4, <2>6, <2>7, <2>8, <2>9 DEF Savers
  <1>4. ASSUME NEW t \in Tasks, NEW l \in {"line", "end"}, SaveBump(t, l) PROVE Savers'
    <2>1. /\ pc[t] = "bump" /\ pc' = [pc EXCEPT ![t] = l]
          /\ slot' = [slot EXCEPT ![t] = 0]
          /\ beside' = [beside EXCEPT ![t] = {}] /\ strayed' = strayed \ {t}
      BY <1>4 DEF SaveBump, Goto
    <2>2. /\ pc'[t] = l /\ beside'[t] = {}
          /\ \A u \in Tasks \ {t} : /\ pc'[u] = pc[u] /\ beside'[u] = beside[u]
                                  /\ slot'[u] = slot[u]
      BY <1>0, <2>1
    <2>3. \A u \in Tasks : InSave(u)' => u # t /\ InSave(u)
      BY <2>2 DEF InSave
    <2>4. \A u \in Tasks \ {t} : InSave(u) => beside'[u] # {}
      BY <2>1, <2>2 DEF Savers, InSave
    <2>5. \A u \in Tasks : pc'[u] = "store" /\ beside'[u] = {} => cursor' = slot'[u]
      BY <2>2, <2>3, <2>4 DEF InSave
    <2>6. \A u, v \in Tasks : InSave(u)' /\ InSave(v)' /\ u # v => beside'[u] # {}
      BY <2>3, <2>4
    <2>7. \A u, v \in Tasks : v \in beside'[u] => "wifi" \in {u, v}
      BY <2>2 DEF Savers
    <2>8. \A u \in strayed' : pc'[u] = "bump" /\ beside'[u] # {}
      BY <2>1, <2>2 DEF Savers, RecorderTypes
    <2>9. \A u \in Tasks : pc'[u] = "store" => slot'[u] \in Slots
      BY <2>2 DEF Savers
    <2>10. beside' \in [Tasks -> SUBSET Tasks] /\ strayed' \subseteq Tasks
      BY <1>0, <2>1
    <2> QED BY <2>5, <2>6, <2>7, <2>8, <2>9, <2>10 DEF Savers
  <1>5. CASE ~MainSave /\ ~HostSave /\ ~WiFiSave
    <2>1. /\ UNCHANGED <<slot, cursor, beside, strayed>>
          /\ \A u \in Tasks : InSave(u) \/ InSave(u)' => pc'[u] = pc[u]
      BY <1>5, Elsewhere
    <2>2. \A u \in Tasks : InSave(u)' => InSave(u)
      BY <2>1 DEF InSave
    <2>3. \A u \in Tasks : pc'[u] = "store" => pc[u] = "store"
      BY <2>1 DEF InSave
    <2>4. \A u \in strayed : pc'[u] = "bump"
      BY <2>1 DEF Savers, InSave, RecorderTypes
    <2> QED BY <2>1, <2>2, <2>3, <2>4 DEF Savers
  <1>6. "main" \in Tasks /\ "host" \in Tasks /\ "wifi" \in Tasks
    BY DEF Tasks
  <1> QED BY <1>1, <1>2, <1>3, <1>4, <1>5, <1>6 DEF MainSave, HostSave, WiFiSave, Save

\* The pause: its beginning leaves at most one decided line to each callback,
\* and each line appended during it is one of those.
LEMMA PauseStep ==
  ASSUME RecorderTypes, ScanTypes, Outside, FewDecided, Next
  PROVE  FewDecided'
  <1> USE DEF FewDecided, InAppend
  <1>0. "main" \in Tasks /\ "host" \in Tasks /\ "wifi" \in Tasks /\ pc \in [Tasks -> Labels]
    BY DEF Tasks, RecorderTypes
  <1>a. pausedLines \in Nat /\ paused \in BOOLEAN
    BY DEF RecorderTypes, ScanTypes
  <1>1. ASSUME NEW t \in Tasks, SaveTest(t) \/ SaveWrap(t) \/ SaveWrite(t) PROVE FewDecided'
    BY <1>0, <1>a, <1>1 DEF SaveTest, SaveWrap, SaveWrite, Goto
  <1>2. ASSUME NEW t \in Tasks, NEW l \in {"line", "end"}, SaveBump(t, l) PROVE FewDecided'
    BY <1>0, <1>a, <1>2 DEF SaveBump, Goto
  <1>3. CASE HostLine \/ SniffedLine
    BY <1>0, <1>a, <1>3 DEF HostLine, SniffedLine, LineChecked, Goto
  <1>4. CASE StopScan \/ ShutdownBLE \/ Stopped \/ SetRegion
    BY <1>0, <1>a, <1>4 DEF StopScan, ShutdownBLE, Stopped, SetRegion, Goto, tasks
  <1>5. CASE Pause \/ ScanBusy \/ ScanRunning
    BY <1>0, <1>a, <1>5 DEF Pause, ScanBusy, ScanRunning, Goto
  <1>15. CASE StartScan \/ CheckZone
    <2>1. InAppend("host")' = InAppend("host") /\ InAppend("wifi")' = InAppend("wifi")
      BY <1>0, <1>15 DEF StartScan, CheckZone, Goto
    <2>2. InAppend("host") \in {0, 1} /\ InAppend("wifi") \in {0, 1}
      OBVIOUS
    <2>3. pausedLines' = 0 \/ (paused /\ pausedLines' = pausedLines)
      BY <1>15 DEF StartScan, CheckZone
    <2> HIDE DEF InAppend
    <2> QED BY <1>a, <2>1, <2>2, <2>3
  <1>6. CASE ScanFailed \/ ScanDone \/ Restarted
    BY <1>0, <1>a, <1>6 DEF ScanFailed, ScanDone, Restarted, Goto
  <1>7. ASSUME NEW a \in Addr, Result(a) PROVE FewDecided'
    BY <1>0, <1>a, <1>7 DEF Result, Goto
  <1>8. CASE ResultSaved
    <2>1. ~paused BY <1>8 DEF ResultSaved, Outside, PastScanning
    <2> QED BY <1>8, <2>1 DEF ResultSaved
  <1>9. CASE ResultsDone \/ StartSniffer \/ PendingClear \/ WaitCallback
    BY <1>0, <1>a, <1>9 DEF ResultsDone, StartSniffer, PendingClear, WaitCallback, Goto
  <1>10. CASE StartBleScan \/ NextChannel
    BY <1>0, <1>a, <1>10 DEF StartBleScan, NextChannel, Goto
  <1>11. ASSUME NEW a \in Addr, HostResult(a) PROVE FewDecided'
    BY <1>0, <1>a, <1>11 DEF HostResult, Goto
  <1>12. CASE HostBusy \/ HostSeen \/ HostEnd
    BY <1>0, <1>a, <1>12 DEF HostBusy, HostSeen, HostEnd, Goto
  <1>16. CASE HostAppend
    <2>1. /\ InAppend("host") = 1 /\ InAppend("host")' = 0
          /\ InAppend("wifi")' = InAppend("wifi") /\ InAppend("wifi") \in {0, 1}
      BY <1>0, <1>16 DEF HostAppend, Append1, Goto
    <2>2. paused' = paused /\ (paused => pausedLines' = pausedLines + 1)
      BY <1>16 DEF HostAppend, Append1
    <2> HIDE DEF InAppend
    <2> QED BY <1>a, <2>1, <2>2
  <1>13. ASSUME NEW a \in Flock, Sniffed(a) PROVE FewDecided'
    BY <1>0, <1>a, <1>13 DEF Sniffed, Goto
  <1>14. CASE DiscEnds \/ WiFiScanEnds
    BY <1>0, <1>a, <1>14 DEF DiscEnds, WiFiScanEnds, tasks
  <1>17. CASE SniffedAppend
    <2>1. /\ InAppend("wifi") = 1 /\ InAppend("wifi")' = 0
          /\ InAppend("host")' = InAppend("host") /\ InAppend("host") \in {0, 1}
      BY <1>0, <1>17 DEF SniffedAppend, Append1, Goto
    <2>2. paused' = paused /\ (paused => pausedLines' = pausedLines + 1)
      BY <1>17 DEF SniffedAppend, Append1
    <2> HIDE DEF InAppend
    <2> QED BY <1>a, <2>1, <2>2
  <1> QED
    BY <1>0, <1>1, <1>2, <1>3, <1>4, <1>5, <1>6, <1>7, <1>8, <1>9, <1>10, <1>11, <1>12, <1>13, <1>14,
       <1>15, <1>16, <1>17
    DEF Next, Main, Host, WiFiTask, Save, MainSave, HostSave, WiFiSave

-----------------------------------------------------------------------------
\* A store changes one slot of the history to the task's address, or none.
LEMMA StoreOne ==
  ASSUME RecorderTypes, NEW t \in Tasks, SaveWrite(t)
  PROVE  \E i : hist' = IF i \in Slots THEN [hist EXCEPT ![i] = addr[t]] ELSE hist
  BY DEF SaveWrite

\* A store of an address not seen, or of one of the sniffer's, keeps every
\* other address in one slot.
LEMMA StoreDistinct ==
  ASSUME RecorderTypes, HistoryDistinct, NEW t \in Tasks, SaveWrite(t),
         addr[t] \in Flock \/ ~Seen(addr[t])
  PROVE  HistoryDistinct'
  <1>1. PICK s : hist' = IF s \in Slots THEN [hist EXCEPT ![s] = addr[t]] ELSE hist
    BY StoreOne
  <1>2. CASE s \notin Slots
    BY <1>1, <1>2 DEF HistoryDistinct
  <1>3. CASE s \in Slots
    <2>1. hist' = [hist EXCEPT ![s] = addr[t]] /\ hist \in [Slots -> Addr \cup {Empty}]
      BY <1>1, <1>3 DEF RecorderTypes
    <2> SUFFICES ASSUME NEW i \in Slots, NEW j \in Slots, i # j, hist'[i] = hist'[j]
                 PROVE  hist'[i] \in Flock \cup {Empty}
      BY DEF HistoryDistinct, Slots
    <2>3. CASE i # s /\ j # s
      BY <1>3, <2>1, <2>3 DEF HistoryDistinct
    <2>4. CASE i = s
      BY <1>3, <2>1, <2>4 DEF Seen
    <2>5. CASE j = s
      BY <1>3, <2>1, <2>5 DEF Seen
    <2> QED BY <2>3, <2>4, <2>5
  <1> QED BY <1>2, <1>3

\* A store of another address makes no address seen.
LEMMA StoreSeen ==
  ASSUME RecorderTypes, NEW t \in Tasks, SaveWrite(t),
         NEW a, Seen(a)', a # addr[t]
  PROVE  Seen(a)
  <1>1. PICK s : hist' = IF s \in Slots THEN [hist EXCEPT ![s] = addr[t]] ELSE hist
    BY StoreOne
  <1>2. PICK i \in Slots : hist'[i] = a
    BY DEF Seen, Slots
  <1>3. hist[i] = a
    BY <1>1, <1>2 DEF RecorderTypes
  <1> QED BY <1>3 DEF Seen

\* Checked before saved: nobody else saves the address in between.
LEMMA HistoryStep ==
  ASSUME RecorderTypes, Alone, Unsaved, HistoryDistinct, Next
  PROVE  Unsaved' /\ HistoryDistinct'
  <1> USE DEF Unsaved
  <1>0. /\ "main" \in Tasks /\ "host" \in Tasks /\ "wifi" \in Tasks
        /\ pc \in [Tasks -> Labels] /\ addr \in [Tasks -> Addr \cup {Empty}]
    BY DEF Tasks, RecorderTypes
  <1>1. ASSUME NEW t \in Tasks, SaveTest(t) \/ SaveWrap(t) PROVE Unsaved' /\ HistoryDistinct'
    <2>1. /\ pc[t] \in {"save", "wrap"} /\ \E l \in {"wrap", "store"} : pc' = [pc EXCEPT ![t] = l]
          /\ addr' = addr /\ hist' = hist
      BY <1>1 DEF SaveTest, SaveWrap, Goto
    <2>2. Unsaved' BY <1>0, <2>1 DEF Seen, Tasks
    <2> QED BY <2>1, <2>2 DEF HistoryDistinct
  <1>2. CASE SaveWrite("main")
    <2>1. /\ pc["main"] = "store" /\ pc' = [pc EXCEPT !["main"] = "bump"]
          /\ addr' = [addr EXCEPT !["main"] = Empty]
      BY <1>2 DEF SaveWrite, Goto
    <2>2. pc'["host"] = "idle"
      BY <1>0, <2>1, OneSaver
    <2>3. Unsaved' BY <1>0, <2>1, <2>2
    <2>4. HistoryDistinct' BY <1>0, <1>2, <2>1, StoreDistinct
    <2> QED BY <2>3, <2>4
  <1>3. CASE SaveWrite("host")
    <2>1. /\ pc["host"] = "store" /\ pc' = [pc EXCEPT !["host"] = "bump"]
          /\ addr' = [addr EXCEPT !["host"] = Empty]
      BY <1>3 DEF SaveWrite, Goto
    <2>2. pc'["main"] \notin {"save", "wrap", "store"}
      BY <1>0, <2>1, OneSaver
    <2>3. Unsaved' BY <1>0, <2>1, <2>2
    <2>4. HistoryDistinct' BY <1>0, <1>3, <2>1, StoreDistinct
    <2> QED BY <2>3, <2>4
  <1>4. CASE SaveWrite("wifi")
    <2>1. /\ pc["wifi"] = "store" /\ pc' = [pc EXCEPT !["wifi"] = "bump"]
          /\ addr' = [addr EXCEPT !["wifi"] = Empty] /\ addr["wifi"] \in Flock
      BY <1>4 DEF SaveWrite, Goto
    <2>2. \A a : Seen(a)' => Seen(a) \/ a \in Flock
      BY <1>0, <1>4, <2>1, StoreSeen
    <2>3. Unsaved' BY <1>0, <2>1, <2>2
    <2>4. HistoryDistinct' BY <1>0, <1>4, <2>1, StoreDistinct
    <2> QED BY <2>3, <2>4
  <1>19. CASE SaveBump("main", "line") \/ SaveBump("host", "end") \/ SaveBump("wifi", "line")
    <2>1. /\ hist' = hist /\ addr' = addr
          /\ \/ pc' = [pc EXCEPT !["main"] = "line"] \/ pc' = [pc EXCEPT !["host"] = "end"]
             \/ pc' = [pc EXCEPT !["wifi"] = "line"]
      BY <1>19 DEF SaveBump, Goto
    <2>2. Unsaved' BY <1>0, <2>1 DEF Seen
    <2> QED BY <2>1, <2>2 DEF HistoryDistinct
  <1>5. CASE HostLine \/ SniffedLine
    <2>1. hist' = hist /\ addr' = addr
      BY <1>5 DEF HostLine, SniffedLine, LineChecked, history
    <2>2. Unsaved' BY <1>0, <1>5, <2>1 DEF HostLine, SniffedLine, LineChecked, Goto, Seen
    <2> QED BY <2>1, <2>2 DEF HistoryDistinct
  <1>6. CASE StartScan
    <2>1. hist' = hist \/ \A i \in Slots : hist'[i] = Empty
      BY <1>6 DEF StartScan
    <2>2. HistoryDistinct' BY <2>1 DEF HistoryDistinct
    <2>3. pc' = [pc EXCEPT !["main"] = "loop"] /\ addr' = addr /\ pc["main"] = "off"
      BY <1>6 DEF StartScan, Goto
    <2>4. pc'["host"] = "idle" BY <1>0, <2>3 DEF Alone, PastScanning
    <2>5. Unsaved' BY <1>0, <2>3, <2>4
    <2> QED BY <2>2, <2>5
  <1>7. CASE SetRegion \/ DiscEnds \/ WiFiScanEnds
    BY <1>7 DEF SetRegion, DiscEnds, WiFiScanEnds, tasks, history, HistoryDistinct, Seen
  <1>8. ASSUME NEW a \in Addr, Result(a) PROVE Unsaved' /\ HistoryDistinct'
    <2>1. hist' = hist BY <1>8 DEF Result, history
    <2>2. Unsaved' BY <1>0, <1>8, <2>1 DEF Result, Goto, Seen
    <2> QED BY <2>1, <2>2 DEF HistoryDistinct
  <1>9. ASSUME NEW a \in Addr, HostResult(a) PROVE Unsaved' /\ HistoryDistinct'
    BY <1>0, <1>9 DEF HostResult, Goto, history, HistoryDistinct, Seen
  <1>10. CASE HostSeen
    <2>1. hist' = hist BY <1>10 DEF HostSeen, history
    <2>2. Unsaved' BY <1>0, <1>10, <2>1 DEF HostSeen, Goto, Seen
    <2> QED BY <2>1, <2>2 DEF HistoryDistinct
  <1>11. ASSUME NEW a \in Flock, Sniffed(a) PROVE Unsaved' /\ HistoryDistinct'
    <2>1. hist' = hist BY <1>11 DEF Sniffed, history
    <2>2. Unsaved' BY <1>0, <1>11, <2>1 DEF Sniffed, Goto, Seen
    <2> QED BY <2>1, <2>2 DEF HistoryDistinct
  <1>12. ASSUME hist' = hist, addr' = addr,
                NEW t \in Tasks, NEW l \in Labels \ {"save", "wrap", "store", "line", "append"}, Goto(t, l)
         PROVE  Unsaved' /\ HistoryDistinct'
    BY <1>0, <1>12 DEF Goto, HistoryDistinct, Seen
  <1>13. CASE StopScan \/ ShutdownBLE \/ Stopped \/ CheckZone \/ Pause
    BY <1>0, <1>12, <1>13 DEF StopScan, ShutdownBLE, Stopped, CheckZone, Pause, history, Labels
  <1>14. CASE ScanBusy \/ ScanRunning \/ ScanFailed \/ ScanDone \/ Restarted
    BY <1>0, <1>12, <1>14 DEF ScanBusy, ScanRunning, ScanFailed, ScanDone, Restarted, history, Labels
  <1>15. CASE ResultSaved \/ SniffedAppend
    BY <1>0, <1>12, <1>15 DEF ResultSaved, SniffedAppend, Append1, history, Labels
  <1>16. CASE ResultsDone \/ StartSniffer \/ PendingClear \/ WaitCallback
    BY <1>0, <1>12, <1>16 DEF ResultsDone, StartSniffer, PendingClear, WaitCallback, history, Labels
  <1>17. CASE StartBleScan \/ NextChannel \/ HostBusy \/ HostEnd
    BY <1>0, <1>12, <1>17 DEF StartBleScan, NextChannel, HostBusy, HostEnd, history, Labels
  <1>18. CASE HostAppend
    <2>1. hist' = hist /\ addr' = addr BY <1>18 DEF HostAppend, history
    <2>2. Unsaved' BY <1>0, <1>18, <2>1 DEF HostAppend, Append1, Goto, Seen
    <2> QED BY <2>1, <2>2 DEF HistoryDistinct
  <1> QED
    BY <1>0, <1>1, <1>2, <1>3, <1>4, <1>5, <1>6, <1>7, <1>8, <1>9, <1>10, <1>11,
       <1>13, <1>14, <1>15, <1>16, <1>17, <1>18, <1>19
    DEF Next, Main, Host, WiFiTask, Save, MainSave, HostSave, WiFiSave

-----------------------------------------------------------------------------
LEMMA InvStep == Inv /\ [Next]_vars => Inv'
  <1>1. ASSUME Inv, Next PROVE Inv'
    <2>1. RecorderTypes' BY <1>1, RecorderStep DEF Inv
    <2>2. ScanTypes' BY <1>1, ScanStep DEF Inv
    <2>3. Alone' /\ Outside' BY <1>1, AloneStep DEF Inv
    <2>4. Savers' BY <1>1, SaversStep DEF Inv
    <2>5. FewDecided' BY <1>1, PauseStep DEF Inv
    <2>6. Unsaved' /\ HistoryDistinct' BY <1>1, HistoryStep DEF Inv
    <2> QED BY <2>1, <2>2, <2>3, <2>4, <2>5, <2>6 DEF Inv
  <1>2. ASSUME Inv, UNCHANGED vars PROVE Inv'
    <2> USE <1>2 DEF Inv, vars, tasks, history, schedule, flags, radio
    <2>1. RecorderTypes' BY DEF RecorderTypes
    <2>2. ScanTypes' BY DEF ScanTypes
    <2>3. Alone' /\ Outside' BY DEF Alone, Outside, PastScanning
    <2>4. Savers' BY DEF Savers, InSave
    <2>5. FewDecided' BY DEF FewDecided, InAppend
    <2>6. Unsaved' /\ HistoryDistinct' BY DEF Unsaved, HistoryDistinct, Seen
    <2> QED BY <2>1, <2>2, <2>3, <2>4, <2>5, <2>6
  <1> QED BY <1>1, <1>2

LEMMA InvAlways == Spec => []Inv
  BY InitInv, InvStep, PTL DEF Spec

\* Every variable keeps its type: a save_mac that has found room, or wrapped,
\* holds the number of a slot, whoever else moves the cursor meanwhile.
THEOREM TypesHold == Spec => []TypeOK
  <1>1. Inv => TypeOK
    BY DEF Inv, RecorderTypes, ScanTypes, Savers, TypeOK
  <1> QED BY <1>1, InvAlways, PTL

\* No save writes outside of mac_history unless the sniffer's save overlapped
\* it or is the one that does: loop() and the host task cannot, by the test
\* for a running BLE scan, although save_mac reads the cursor again unlocked.
THEOREM StoresStayInRange == Spec => []StoresInRange
  <1>1. Inv => StoresInRange
    <2> SUFFICES ASSUME Inv, NEW t \in strayed
                 PROVE  beside[t] # {} /\ "wifi" \in beside[t] \cup {t}
      BY DEF StoresInRange
    <2>1. t \in Tasks /\ beside[t] # {} /\ beside[t] \subseteq Tasks
      BY DEF Inv, Savers, RecorderTypes
    <2>2. PICK u \in Tasks : u \in beside[t]
      BY <2>1
    <2> QED BY <2>1, <2>2 DEF Inv, Savers
  <1> QED BY <1>1, InvAlways, PTL

\* No address but one of the sniffer's is remembered twice, whatever the
\* interleaving of loop() and the two callbacks.
THEOREM RememberedOnce == Spec => []HistoryDistinct
  <1>1. Inv => HistoryDistinct BY DEF Inv
  <1> QED BY <1>1, InvAlways, PTL

\* The results of a BLE scan are never cleared under a callback by
\* executeWarDrive.
THEOREM NeverClearedUnder == Spec => []ClearAlone
  <1>1. Inv => ClearAlone BY DEF Inv, Alone, PastScanning, ClearAlone
  <1> QED BY <1>1, InvAlways, PTL

\* A pause records at most what each callback had decided on before it.
THEOREM PauseIsQuiet == Spec => []PausedQuiet
  <1>1. Inv => PausedQuiet
    <2> SUFFICES ASSUME Inv PROVE PausedQuiet
      OBVIOUS
    <2>1. InAppend("host") \in {0, 1} /\ InAppend("wifi") \in {0, 1}
      BY DEF InAppend
    <2> QED BY <2>1 DEF Inv, RecorderTypes, FewDecided, PausedQuiet
  <1> QED BY <1>1, InvAlways, PTL
===========================================================================
