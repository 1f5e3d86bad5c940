------------------------------ MODULE Wardrive ------------------------------
(***************************************************************************)
(* The wardrive scan (esp32_marauder/WiFiScan.cpp): executeWarDrive, which *)
(* loop() calls once per hop delay, the starts and stops of the scan, and  *)
(* the two callbacks that record sightings beside it.                      *)
(*                                                                         *)
(* Three tasks read and write the addresses seen lately (mac_history)      *)
(* without a lock: loop() with the results of a WiFi scan, the Bluetooth   *)
(* host task in onResult, and the WiFi task in beaconSnifferCallback.  A   *)
(* build with Bluetooth and a GPS module is modelled.  What the GPS says   *)
(* (whether a line is saved, whether the place is in a geofence) is an     *)
(* input of each step that asks.                                           *)
(***************************************************************************)
EXTENDS Integers, Sequences, FiniteSets

CONSTANTS
  Addr,        \* addresses the scans can find
  Flock,       \* those the sniffer records: a Flock camera that probes
  Empty,       \* a slot of the history not yet written (all zeros)
  HistoryLen,  \* mac_history_len
  Plans,       \* per region, wardrive_channels_us and wardrive_channels_eu
  FullScreen   \* HAS_FULL_SCREEN: a start clears the history

Regions == DOMAIN Plans
Slots   == 0 .. HistoryLen - 1

ASSUME AddrAssumption    == Flock \subseteq Addr /\ Empty \notin Addr
ASSUME HistoryAssumption == HistoryLen \in Nat \ {0}
ASSUME PlansAssumption   == \A r \in Regions : Plans[r] \in Seq(Nat) /\ Len(Plans[r]) > 0
ASSUME ScreenAssumption  == FullScreen \in BOOLEAN

VARIABLES
  pc,        \* where each task is
  addr,      \* the address a task is about to save, or Empty
  slot,      \* the cursor as it holds it within save_mac, else 0
  hist, cursor,                       \* mac_history, mac_history_cursor
  beside,    \* history: the tasks that were in save_mac during this save
  strayed,   \* history: the tasks whose save has stored outside of mac_history
  index, channel, region,             \* wardrive_channel_index, old_channel, setting
  paused,                             \* geofence_paused
  bt_cb_busy, bt_pending_clear,
  ble_scanning,                       \* what loop() believes of the BLE scan
  disc,                               \* NimBLEScan::isScanning
  wifi,                               \* WiFi.scanComplete: failed, running, done
  sniff,                              \* promiscuous mode with the sniffer callback
  todo,                               \* results loop() has still to go through
  pausedLines                         \* history: lines appended since the pause began

tasks    == <<pc, addr, slot>>
history  == <<hist, cursor, beside, strayed>>
schedule == <<index, channel, region>>
flags    == <<bt_cb_busy, bt_pending_clear, ble_scanning>>
radio    == <<disc, wifi, sniff>>
vars     == <<tasks, history, schedule, paused, flags, radio, todo, pausedLines>>

Tasks     == {"main", "host", "wifi"}
Callbacks == {"host", "wifi"}

\* Where a task can be: in loop() and executeWarDrive, in the callbacks, in both.
Labels ==
  {"off", "loop", "stop", "deinit", "pause", "scan", "restart", "results",
   "sniffer", "ble", "wait", "clear", "next",
   "idle", "busy", "seen", "append", "end", "line",
   "save", "wrap", "store", "bump"}

Goto(t, l) == pc' = [pc EXCEPT ![t] = l]

Init ==
  /\ pc = [t \in Tasks |-> IF t = "main" THEN "off" ELSE "idle"]
  /\ addr \in [Tasks -> {Empty}] /\ slot = [t \in Tasks |-> 0]
  /\ hist = [i \in Slots |-> Empty] /\ cursor = 0
  /\ beside = [t \in Tasks |-> {}] /\ strayed = {}
  /\ index = 0 /\ channel = 0 /\ region \in Regions
  /\ paused = FALSE
  /\ bt_cb_busy = FALSE /\ bt_pending_clear = FALSE /\ ble_scanning = FALSE
  /\ disc = FALSE /\ wifi = "failed" /\ sniff = FALSE
  /\ todo = {} /\ pausedLines = 0

-----------------------------------------------------------------------------
(* The history, as every task uses it.                                       *)

(* seen_mac *)
Seen(a) == \E i \in Slots : hist[i] = a

(* save_mac, access by access: nothing keeps another task from moving the    *)
(* cursor between the test for the end and the store, or between the store   *)
(* and the increment.  What the compiler reads again and what it keeps in a  *)
(* register is left open: slot is the value of the cursor a task holds.      *)
InSave(t) == pc[t] \in {"wrap", "store", "bump"}

(* For the record: the tasks in save_mac together.                           *)
Joins(t) ==
  LET others == {u \in Tasks \ {t} : InSave(u)}
  IN  beside' = [u \in Tasks |-> CASE u = t -> others
                                   [] u \in others -> beside[u] \cup {t}
                                   [] OTHER -> beside[u]]

(* Mutant: the cursor wraps one slot late. *)
SaveTestLate(t) ==
  /\ pc[t] = "save"
  /\ IF cursor > HistoryLen THEN Goto(t, "wrap") /\ UNCHANGED slot
     ELSE Goto(t, "store") /\ slot' = [slot EXCEPT ![t] = cursor]
  /\ Joins(t)
  /\ UNCHANGED <<addr, hist, cursor, strayed, schedule, paused, flags, radio, todo, pausedLines>>

SaveTest(t) ==
  /\ pc[t] = "save"
  /\ IF cursor >= HistoryLen THEN Goto(t, "wrap") /\ UNCHANGED slot
     ELSE Goto(t, "store") /\ slot' = [slot EXCEPT ![t] = cursor]
  /\ Joins(t)
  /\ UNCHANGED <<addr, hist, cursor, strayed, schedule, paused, flags, radio, todo, pausedLines>>

SaveWrap(t) ==
  /\ pc[t] = "wrap"
  /\ cursor' = 0 /\ slot' = [slot EXCEPT ![t] = 0]
  /\ Goto(t, "store")
  /\ UNCHANGED <<addr, hist, beside, strayed, schedule, paused, flags, radio, todo, pausedLines>>

(* mac_history[mac_history_cursor] = tmp.  A cursor that another task has    *)
(* moved since the test may be past the end; what the store then hits is     *)
(* memory behind the history, which no module has as a variable.             *)
SaveWrite(t) ==
  /\ pc[t] = "store"
  /\ \E i \in {slot[t], cursor} : \E held \in {i, cursor} :
       /\ hist' = IF i \in Slots THEN [hist EXCEPT ![i] = addr[t]] ELSE hist
       /\ strayed' = IF i \in Slots THEN strayed ELSE strayed \cup {t}
       /\ slot' = [slot EXCEPT ![t] = held]
  /\ addr' = [addr EXCEPT ![t] = Empty]
  /\ Goto(t, "bump")
  /\ UNCHANGED <<cursor, beside, schedule, paused, flags, radio, todo, pausedLines>>

(* mac_history_cursor++, of the value read with the store or of the value    *)
(* now.  HistoryLen stands for itself and all beyond it: no test tells them  *)
(* apart.                                                                    *)
SaveBump(t, after) ==
  /\ pc[t] = "bump"
  /\ \E i \in {slot[t], cursor} : cursor' = IF i \in Slots THEN i + 1 ELSE HistoryLen
  /\ slot' = [slot EXCEPT ![t] = 0]
  /\ beside' = [beside EXCEPT ![t] = {}] /\ strayed' = strayed \ {t}
  /\ Goto(t, after)
  /\ UNCHANGED <<addr, hist, schedule, paused, flags, radio, todo, pausedLines>>

(* buffer_obj.append, by one of the callbacks or by loop() *)
Append1(t, after) ==
  /\ pausedLines' = IF paused THEN pausedLines + 1 ELSE 0
  /\ Goto(t, after)

-----------------------------------------------------------------------------
(* loop(): starting and stopping.                                            *)

(* StartScan: the geofences are evaluated afresh, whatever the pause was.    *)
StartScan ==
  /\ pc["main"] = "off"
  /\ hist' = IF FullScreen THEN [i \in Slots |-> Empty] ELSE hist
  /\ paused' \in BOOLEAN /\ pausedLines' = 0
  /\ Goto("main", "loop")
  /\ UNCHANGED <<addr, slot, cursor, beside, strayed, schedule, flags, radio, todo>>

(* StopScan, shutdownWiFi: the WiFi library may keep the results of a scan,  *)
(* or go on believing that one runs.                                         *)
StopScan ==
  /\ pc["main"] = "loop"
  /\ sniff' = FALSE
  /\ wifi' \in {"failed", wifi}
  /\ Goto("main", "stop")
  /\ UNCHANGED <<addr, slot, history, schedule, paused, flags, disc, todo, pausedLines>>

(* shutdownBLE, once the WiFi task is through with its callback.             *)
ShutdownBLE ==
  /\ pc["main"] = "stop" /\ pc["wifi"] = "idle"
  /\ bt_cb_busy' = FALSE /\ bt_pending_clear' = FALSE
  /\ disc' = FALSE
  /\ Goto("main", "deinit")
  /\ UNCHANGED <<addr, slot, history, schedule, paused, ble_scanning, wifi, sniff, todo, pausedLines>>

(* NimBLEDevice::deinit waits for the host task; currentScanMode is off.     *)
Stopped ==
  /\ pc["main"] = "deinit" /\ pc["host"] = "idle"
  /\ ble_scanning' = FALSE
  /\ Goto("main", "off")
  /\ UNCHANGED <<addr, slot, history, schedule, paused, bt_cb_busy, bt_pending_clear, radio, todo, pausedLines>>

(* The setting "Region", from the menu. *)
SetRegion ==
  /\ pc["main"] \in {"loop", "off"}
  /\ region' \in Regions \ {region}
  /\ UNCHANGED <<tasks, history, index, channel, paused, flags, radio, todo, pausedLines>>

-----------------------------------------------------------------------------
(* loop(): one call of executeWarDrive.                                      *)

(* updateGeofenceState: a new answer, or the one of the last 500 ms.  A      *)
(* callback that runs when the scan is stopped for a pause has ended by the  *)
(* next call, a hop delay later.                                             *)
CheckZone ==
  /\ pc["main"] = "loop" /\ (disc \/ pc["host"] = "idle")
  /\ paused' \in BOOLEAN
  /\ pausedLines' = IF paused' /\ paused THEN pausedLines ELSE 0
  /\ Goto("main", IF paused' THEN "pause" ELSE "scan")
  /\ UNCHANGED <<addr, slot, history, schedule, flags, radio, todo>>

(* scanDelete drops results, but a WiFi scan that runs goes on.              *)
Pause ==
  /\ pc["main"] = "pause"
  /\ wifi' = IF wifi = "done" THEN "failed" ELSE wifi
  /\ disc' = FALSE /\ ble_scanning' = FALSE
  /\ Goto("main", "loop")
  /\ UNCHANGED <<addr, slot, history, schedule, paused, bt_cb_busy, bt_pending_clear, sniff, todo, pausedLines>>

(* Mutant: the BLE scan is not asked for. *)
IsScanningUnasked == FALSE

IsScanning == disc

(* While the BLE scan runs the call does nothing more. *)
ScanBusy ==
  /\ pc["main"] = "scan" /\ IsScanning
  /\ ble_scanning' = TRUE
  /\ Goto("main", "loop")
  /\ UNCHANGED <<addr, slot, history, schedule, paused, bt_cb_busy, bt_pending_clear, radio, todo, pausedLines>>

ScanRunning ==
  /\ pc["main"] = "scan" /\ ~IsScanning /\ wifi = "running"
  /\ ble_scanning' = FALSE
  /\ Goto("main", "loop")
  /\ UNCHANGED <<addr, slot, history, schedule, paused, bt_cb_busy, bt_pending_clear, radio, todo, pausedLines>>

(* Mutant: ble_scanning is only ever set. *)
ScanFailedStaleFlag ==
  /\ pc["main"] = "scan" /\ ~IsScanning /\ wifi = "failed"
  /\ sniff' = FALSE
  /\ Goto("main", "restart")
  /\ UNCHANGED <<addr, slot, history, schedule, paused, flags, disc, wifi, todo, pausedLines>>

(* No results: shutdownWiFi and startWardriverWiFi, then the next channel.   *)
ScanFailed ==
  /\ pc["main"] = "scan" /\ ~IsScanning /\ wifi = "failed"
  /\ ble_scanning' = FALSE /\ sniff' = FALSE
  /\ Goto("main", "restart")
  /\ UNCHANGED <<addr, slot, history, schedule, paused, bt_cb_busy, bt_pending_clear, disc, wifi, todo, pausedLines>>

ScanDone ==
  /\ pc["main"] = "scan" /\ ~IsScanning /\ wifi = "done"
  /\ ble_scanning' = FALSE
  /\ todo' \in SUBSET Addr
  /\ Goto("main", "results")
  /\ UNCHANGED <<addr, slot, history, schedule, paused, bt_cb_busy, bt_pending_clear, radio, pausedLines>>

Restarted ==
  /\ pc["main"] = "restart" /\ pc["wifi"] = "idle"
  /\ Goto("main", "next")
  /\ UNCHANGED <<addr, slot, history, schedule, paused, flags, radio, todo, pausedLines>>

(* One result of the scan: skipped when seen lately, else saved, appended    *)
(* when there is a position, and reported to the Swarm.                      *)
Result(a) ==
  /\ pc["main"] = "results" /\ a \in todo
  /\ todo' = todo \ {a}
  /\ IF Seen(a) THEN UNCHANGED <<pc, addr>>
     ELSE Goto("main", "save") /\ addr' = [addr EXCEPT !["main"] = a]
  /\ UNCHANGED <<slot, history, schedule, paused, flags, radio, pausedLines>>

ResultSaved ==
  /\ pc["main"] = "line"
  /\ \/ Append1("main", "results")
     \/ Goto("main", "results") /\ UNCHANGED pausedLines
  /\ UNCHANGED <<addr, slot, history, schedule, paused, flags, radio, todo>>

(* scanDelete; then the sniffer, a BLE scan, or the next channel. *)
ResultsDone ==
  /\ pc["main"] = "results" /\ todo = {}
  /\ wifi' = "failed"
  /\ IF (index + 1) % 4 = 0 THEN sniff' = FALSE /\ Goto("main", "sniffer")
     ELSE /\ UNCHANGED sniff
          /\ Goto("main", IF index % 4 = 0 THEN "ble" ELSE "next")
  /\ UNCHANGED <<addr, slot, history, schedule, paused, flags, disc, todo, pausedLines>>

(* The access point with beaconSnifferCallback, in a WiFi driver set up anew. *)
StartSniffer ==
  /\ pc["main"] = "sniffer" /\ pc["wifi"] = "idle"
  /\ sniff' = TRUE
  /\ Goto("main", "next")
  /\ UNCHANGED <<addr, slot, history, schedule, paused, flags, disc, wifi, todo, pausedLines>>

PendingClear ==
  /\ pc["main"] = "ble"
  /\ bt_pending_clear' = TRUE
  /\ Goto("main", "wait")
  /\ UNCHANGED <<addr, slot, history, schedule, paused, bt_cb_busy, ble_scanning, radio, todo, pausedLines>>

WaitCallback ==
  /\ pc["main"] = "wait" /\ ~bt_cb_busy
  /\ Goto("main", "clear")
  /\ UNCHANGED <<addr, slot, history, schedule, paused, flags, radio, todo, pausedLines>>

(* clearResults and start, which the stack may refuse. *)
StartBleScan ==
  /\ pc["main"] = "clear"
  /\ disc' \in BOOLEAN
  /\ ble_scanning' = TRUE /\ bt_pending_clear' = FALSE
  /\ Goto("main", "next")
  /\ UNCHANGED <<addr, slot, history, schedule, paused, bt_cb_busy, wifi, sniff, todo, pausedLines>>

(* Mutant: the last channel of the list is left out. *)
CurrentEarly == IF index >= Len(Plans[region]) - 1 THEN 0 ELSE index

(* The channel after the last is the first of the list, whatever list the    *)
(* index was counted in.                                                     *)
Current == IF index >= Len(Plans[region]) THEN 0 ELSE index

NextChannel ==
  /\ pc["main"] = "next"
  /\ IF ble_scanning THEN UNCHANGED <<index, channel, wifi>>
     ELSE /\ channel' = Plans[region][Current + 1]
          /\ index' = Current + 1
          /\ wifi' \in {"running", "failed"}
  /\ Goto("main", "loop")
  /\ UNCHANGED <<addr, slot, history, region, paused, flags, disc, sniff, todo, pausedLines>>

-----------------------------------------------------------------------------
(* The Bluetooth host task: onResult.                                        *)

HostResult(a) ==
  /\ pc["host"] = "idle" /\ disc /\ ~bt_pending_clear
  /\ addr' = [addr EXCEPT !["host"] = a]
  /\ Goto("host", "busy")
  /\ UNCHANGED <<slot, history, schedule, paused, flags, radio, todo, pausedLines>>

HostBusy ==
  /\ pc["host"] = "busy"
  /\ bt_cb_busy' = TRUE
  /\ Goto("host", "seen")
  /\ UNCHANGED <<addr, slot, history, schedule, paused, bt_pending_clear, ble_scanning, radio, todo, pausedLines>>

HostSeen ==
  /\ pc["host"] = "seen"
  /\ IF Seen(addr["host"])
     THEN Goto("host", "end") /\ addr' = [addr EXCEPT !["host"] = Empty]
     ELSE Goto("host", "line") /\ UNCHANGED addr
  /\ UNCHANGED <<slot, history, schedule, paused, flags, radio, todo, pausedLines>>

(* Mutant: a callback appends whether or not the scan is paused. *)
LineUnchecked(t, without) ==
  /\ pc[t] = "line"
  /\ Goto(t, "append") \/ Goto(t, without)
  /\ UNCHANGED <<addr, slot, history, schedule, paused, flags, radio, todo, pausedLines>>

(* do_save && !isGeofencePaused() *)
LineChecked(t, without) ==
  /\ pc[t] = "line"
  /\ \/ ~paused /\ Goto(t, "append")
     \/ Goto(t, without)
  /\ UNCHANGED <<addr, slot, history, schedule, paused, flags, radio, todo, pausedLines>>

HostLine == LineChecked("host", "save")

HostAppend ==
  /\ pc["host"] = "append"
  /\ Append1("host", "save")
  /\ UNCHANGED <<addr, slot, history, schedule, paused, flags, radio, todo>>

HostEnd ==
  /\ pc["host"] = "end"
  /\ bt_cb_busy' = FALSE
  /\ Goto("host", "idle")
  /\ UNCHANGED <<addr, slot, history, schedule, paused, bt_pending_clear, ble_scanning, radio, todo, pausedLines>>

(* The time of the scan is up: the host task says so after its callbacks.    *)
DiscEnds ==
  /\ disc /\ pc["host"] = "idle"
  /\ disc' = FALSE
  /\ UNCHANGED <<tasks, history, schedule, paused, flags, wifi, sniff, todo, pausedLines>>

-----------------------------------------------------------------------------
(* The WiFi task: beaconSnifferCallback, and the end of a scan.              *)

Sniffed(a) ==
  /\ pc["wifi"] = "idle" /\ sniff
  /\ ~Seen(a)
  /\ addr' = [addr EXCEPT !["wifi"] = a]
  /\ Goto("wifi", "save")
  /\ UNCHANGED <<slot, history, schedule, paused, flags, radio, todo, pausedLines>>

SniffedLine == LineChecked("wifi", "idle")

SniffedAppend ==
  /\ pc["wifi"] = "append"
  /\ Append1("wifi", "idle")
  /\ UNCHANGED <<addr, slot, history, schedule, paused, flags, radio, todo>>

WiFiScanEnds ==
  /\ wifi = "running"
  /\ wifi' \in {"done", "failed"}
  /\ UNCHANGED <<tasks, history, schedule, paused, flags, disc, sniff, todo, pausedLines>>

-----------------------------------------------------------------------------
Save(t, after) ==
  SaveTest(t) \/ SaveWrap(t) \/ SaveWrite(t) \/ SaveBump(t, after)

MainSave == Save("main", "line")
HostSave == Save("host", "end")
WiFiSave == Save("wifi", "line")

(* One call of executeWarDrive, and the end of a stop once begun. *)
Main ==
  \/ CheckZone \/ Pause \/ ScanBusy \/ ScanRunning \/ ScanFailed \/ ScanDone
  \/ Restarted \/ (\E a \in Addr : Result(a)) \/ MainSave \/ ResultSaved
  \/ ResultsDone \/ StartSniffer \/ PendingClear \/ WaitCallback
  \/ StartBleScan \/ NextChannel \/ ShutdownBLE \/ Stopped

Host == HostBusy \/ HostSeen \/ HostLine \/ HostAppend \/ HostSave \/ HostEnd

WiFiTask == WiFiSave \/ SniffedLine \/ SniffedAppend

Next ==
  \/ Main \/ StartScan \/ StopScan \/ SetRegion
  \/ Host \/ DiscEnds \/ \E a \in Addr : HostResult(a)
  \/ WiFiTask \/ WiFiScanEnds \/ \E a \in Flock : Sniffed(a)

Spec == Init /\ [][Next]_vars

(* loop() and the callbacks run on; scans of both radios end.  A BLE scan    *)
(* ends however many results come in: its timer queues with them.            *)
Fairness ==
  /\ WF_vars(Main) /\ WF_vars(Host) /\ WF_vars(WiFiTask)
  /\ WF_vars(WiFiScanEnds) /\ SF_vars(DiscEnds)

FairSpec == Spec /\ Fairness

-----------------------------------------------------------------------------
(* The cursor as it was tested is a slot, the index is never beyond the      *)
(* longest list (a region with a shorter one may be chosen at any time), and *)
(* the variables have their types.                                           *)
TypeOK ==
  /\ pc \in [Tasks -> Labels] /\ addr \in [Tasks -> Addr \cup {Empty}]
  /\ slot \in [Tasks -> 0 .. HistoryLen] /\ hist \in [Slots -> Addr \cup {Empty}]
  /\ \A t \in Tasks : pc[t] = "store" => slot[t] \in Slots
  /\ cursor \in 0 .. HistoryLen
  /\ beside \in [Tasks -> SUBSET Tasks] /\ strayed \subseteq Tasks
  /\ index = 0 \/ \E r \in Regions : index \in 1 .. Len(Plans[r])
  /\ channel \in Nat /\ region \in Regions
  /\ paused \in BOOLEAN /\ bt_cb_busy \in BOOLEAN
  /\ bt_pending_clear \in BOOLEAN /\ ble_scanning \in BOOLEAN
  /\ disc \in BOOLEAN /\ sniff \in BOOLEAN
  /\ wifi \in {"failed", "running", "done"}
  /\ todo \subseteq Addr /\ pausedLines \in Nat

(* An address is remembered once: loop() and the Bluetooth host task check   *)
(* and save in separate steps and without a lock, but never at the same      *)
(* time, and the sniffer, which does run beside both, saves other addresses. *)
HistoryDistinct ==
  \A i, j \in Slots : i # j /\ hist[i] = hist[j] => hist[i] \in Flock \cup {Empty}

(* save_mac stores outside of the history only where the sniffer's save and  *)
(* another one overlap: loop() and the Bluetooth host task, which saves most *)
(* of the addresses, never bring the cursor past the end for one another, as *)
(* executeWarDrive returns while the BLE scan runs.                          *)
StoresInRange ==
  \A t \in strayed : beside[t] # {} /\ "wifi" \in beside[t] \cup {t}

(* executeWarDrive clears the results of the BLE scan only when no callback  *)
(* works on one.                                                             *)
ClearAlone == pc["main"] = "clear" => pc["host"] = "idle"

(* A pause at a geofence is quiet: what is recorded during it are lines the  *)
(* two callbacks had decided on before, one each.                            *)
PausedQuiet == paused => pausedLines <= 2

(* While the scan runs, and outside of the geofences. *)
Driving == pc["main"] \notin {"off", "stop", "deinit"} /\ ~paused

(* Every channel of the region is scanned again and again, whatever the BLE  *)
(* scans between and the scans that fail.                                    *)
ChannelsVisited ==
  \A r \in Regions : \A i \in 1 .. Len(Plans[r]) :
    <>[](Driving /\ region = r) => []<>(channel = Plans[r][i])

(* If WiFi scans bring results and BLE scans can be started, BLE scans keep  *)
(* coming: the count that calls for one is not lost between the channels.    *)
BleHeard ==
  /\ <>[]Driving
  /\ <>[][WiFiScanEnds => wifi' = "done"]_vars
  /\ <>[][NextChannel => wifi' # "failed" \/ ble_scanning]_vars
  /\ <>[][StartBleScan => disc']_vars
  => []<>disc
=============================================================================
