# A specification of PURE-WARDRIVER

PURE-WARDRIVER is an ESP32 firmware that logs WiFi and Bluetooth devices with a
GPS position ("wardriving") to a card, uploads the logs, and, as a *Swarm node*,
streams what it sees to a phone over Bluetooth LE. These modules specify the parts
of it whose correctness depends on an order of events that no unit test of the
repository reaches; `test/` covers the pure helpers only. All paths below are in
`src/esp32_marauder/`.

## Inventory

The firmware is one Arduino `loop()` (`esp32_marauder.ino` 470-542), the *main task*:
`cli.main`, `wifi_scan_obj.main`, `swarm_obj.main`, `gps_obj.main`, `buffer_obj.save`,
battery, `menu_function_obj.main`, LEDs. The BLE *host task* of the NimBLE library runs
callbacks (scan results, links, writes) between any two instructions of it, the WiFi
driver another one (promiscuous frames). No lock is used anywhere; the components share
global objects.

| Component | State | Operations | Talks to |
|---|---|---|---|
| Swarm queue and protocol (`SwarmNode.cpp` 160-203, 360-735) | ring of 128 sightings, base, cursor, acks, run mask, clock, NVS reservation | reportAP, reportBT, queueSighting, handleLine, pumpUpload, sendHeartbeat, loadPersist, reserveSeq | scan (reports), phone (commands, notifications), NVS |
| Swarm link (`SwarmNode.cpp` 214-358, 765-811) | stack up, advert, links; `_bleUp`, `_connected`, `_proven`, `_inBuf`, `_suspended` | ensureBle, teardownBle, suspend/resume, watchdog, silent-link drop, server callbacks | NimBLE stack, shared with the scan; upload; settings |
| Log buffer (`Buffer.cpp`) | two buffers, sizes, which is active, saving, open file | open, append, add, write, save | scan (up to three tasks append), card |
| Wardrive scan (`WiFiScan.cpp` 649-728, 1425-1475, 3021-3050, 3275, 3586, 6115-6372, 9054-9103) | channel index, BLE scanning, history of addresses, pending clear | executeWarDrive, BLE and sniffer callbacks, shutdownBLE | GPS, log buffer, Swarm queue |
| Geofence (`WiFiScan.cpp` 6374-6414, `GeofenceMath.h`) | zones, cached verdict | updateGeofenceState, reloadGeofences | GPS, settings |
| Scan control (`WiFiScan.cpp` 2631-3053; `SwarmNode.cpp` 185-195, 461-516, 740-820; `CommandLine.cpp` 250-460, 600-636, 798-828) | `currentScanMode`, `_runMask`, `_runSession` and their copy in NVS | StartScan, StopScan, phone run, boot resume | menu, phone, command line |
| Upload (`WiFiScan.cpp` 11607-12480, 2324-2528) | upload link (`upload_wifi_auto`, `wifi_connected`), keys and credentials on the card, sidecar markers | uploadFile, autoConnect, autoDisconnect, joinSavedWiFi, loadUploadApiKeys | card, WiFi, settings, link (suspends it) |
| Settings (`settings.cpp`) | JSON document in SPIFFS, its text in RAM, a cache, five WiFi profiles, geofences | begin, loadSetting, saveSetting, saveWifiCredential, removeSavedWifiCredential, saveGeofence | everyone |
| GPS (`GpsInterface.cpp`, `GpsTrackerStats.cpp`) | fix, position, last known position, distance | main, setGPSInfo, getLastKnown | scan, Swarm |
| Home screen and menus (`MenuFunctions.cpp` 436-453, 896-960, 1744-1990, 3993-4081) | current menu, `show_home_during_scan`, `stop_arm_ms` | button handlers | scan, upload, settings |
| Recon queues, target lists | rings and lists | enqueue, sort | scan display |
| Card, command line, display, input, LEDs, pure helpers | - | I/O and conversions | - |

### What is hard, and what makes each part correct

- *Swarm queue*: three parties (main task, host task, phone), lossy notifications, links
  that come and go, power cycles. Correct: no sighting is lost silently, skipped, freed
  before the phone has it, or numbered twice; every one settles in the end.
- *Swarm link*: the host task changes the flags main tests; scans and uploads take the
  stack away. Correct: flags name a real link, the radio is silent during an upload, the
  node can always be reached, silent links, and only those, are dropped.
- *Log buffer*: loop(), the sniffer and the BLE callback append, and a save empties, two
  buffers with no lock. Correct: no overflow, no accepted line lost, lines whole and in
  order, and where the missing lock forbids that, no damage but to lines it concerns.
- *Wardrive scan*: a handshake between the clearing of results and the callback, a
  history of limited size whose cursor three tasks test, read and move unlocked, a cached geofence verdict, a
  channel index kept over regions and sessions. Correct: a pause is quiet, no device twice
  in the history, results never cleared under a callback, every channel has its turn.
- *Scan control*: phone, home screen, command line and boot start and stop the same scan,
  and uploads join and leave networks beside them. Correct: what the phone was told is
  stored and true, a stored run goes on after a reboot, stray taps end no session, an idle
  upload link is dropped.
- *Upload*: what it does to the link, to Bluetooth and to the keys on the card. Correct: a
  key or network that is removed from the card is in the settings.
- *Settings*: one file rewritten in place, three copies of what it says, documents of older
  builds. Correct: document, text and cache agree after any failure; a cut takes at most the
  value being written or what came after it; entries older builds lack are there.
- *GPS*: read by the host task one value at a time while the main task rewrites it.

## Modules

| Module | Models | Used by |
|---|---|---|
| `SwarmQueue` | ring, cursor, acks, pump, NVS, power cycles, the phone | `MCSwarmQueue`, `SwarmQueueProofs`, `SwarmQueueNumberProofs` |
| `SightingLedger` | abstract: a window of at most CAP sightings that moves forward only past what the phone has or what overflowed | `SwarmQueue` (refinement `KeepsLedger`) |
| `SwarmLink` | stack, advert, links and the flags of SwarmNode; scan, settings and upload as its environment | `MCSwarmLink`, `SwarmLinkProofs` |
| `LogBuffer` | the double buffer, appends of loop(), the sniffer and the BLE callback, save, new logs, failures of the card | `MCLogBuffer`, `LogBufferProofs` |
| `Wardrive` | executeWarDrive, the callbacks that record beside it, starts and stops, geofence pauses | `MCWardrive`, `WardriveProofs` |
| `Settings` | the document, its text, the cache, setup() with the imports from the card, menus, failures and power cuts | `MCSettings`, `SettingsProofs`, `SettingsKeptProofs` |
| `DurableKeys` | abstract: one register per key, read alike by the program and the next boot | `Settings` (refinement `KeepsKeys`) |
| `ScanControl` | who starts and stops a session and who owns the WiFi link: home screen, command line, phone, boot | `MCScanControl`, `ScanControlProofs` |
| `SwarmQueueProofs`, `SwarmQueueNumberProofs`, `SwarmLinkProofs`, `LogBufferProofs`, `WardriveProofs`, `SettingsProofs`, `SettingsKeptProofs`, `ScanControlProofs` | theorems | - |

### SwarmQueue

`queue`, `qHead`, `qCount`, `queueBaseSeq`, `seqNext`, `ackedBefore`, `lastAckSeq`,
`sendCursor`, `lost` are the members of `SwarmNode` without their underscore. A sighting is
its sequence number. Intervals are flags (`stallExpired`, `beatDue`) set by a timer action.
`nvs` is the "swarm" namespace: whether it exists, the mask, `seqrsv`. `SwarmNode::main` is
cut where the host task can act on what it reads (`pc`: lines, pump, sending); each line
handled and each round of the pump is one step. `Sends`/`Delivers` are `sendLine`: a line
is shorter than SWARM_NOTIFY_SAFE (200), so it is one notification; NIMBLE2 says whether a
refused notification is seen. `slot` stands for `plan` too (both write the namespace).
The phone is external, and modelled from what the node sends and expects: it says hello
on an unproven link, sets the clock, acknowledges all before its first gap, and learns
from `t=` of a heartbeat what is no longer held. History variables: `bootSeq`,
`usedBefore`, `dropped`.

### SwarmLink

`stack`, `adv`, `link` are the library's (external), the rest members of `SwarmNode`, the
setting "Swarm" and `WiFiScan::ble_initialized`. A link is *closing* from the moment either
side gives it up until the stack reports it; `onServerEvent` is atomic, as is
`disconnect()` with the assignment after it; `deinit()` reports the ends of links before it
returns. `pc` walks once round `loop()`: the clock is read (`LoopBegins`), then
`SwarmNode::main` (tick, lines, drop), then the menu, or an upload, which blocks `loop()`
file after file; hence main's own `_suspended` branch cannot run and is left out.
`elapsed`/`aged`/`ahead` are all that is told of `_linkSilentSince`: fifteen seconds have
passed, had passed when `loop()` read the clock, or the stamp is later than that reading.
The build with NimBLE 2 and one phone are modelled; `_inBuf` may lose a line that arrives
while main takes another off it (its String is shared; worse corruption is not modelled).

### LogBuffer

`size`, `active`, `writing`, `saving` are `bufSizeA/B`, `useA`, `writing`, `saving`; bytes are
records of line and place, so torn and doubled lines are visible. `phase` is where `loop()`
is, and `live` who may append: loop() in a session, the sniffer (`beaconSnifferCallback`,
`WiFiScan.cpp:9097`, installed at 6303 in every build that wardrives), and the BLE callback
from the start of a scan to its end. loop() appends nothing while the BLE scan runs
(`WiFiScan.cpp:6204-6206`), except the header of a log that a start opens; the phone may start a
session anew while one runs, and so empty buffers the callbacks are using. A writer runs
`add` (test and switch), the wait on `saving`, the copy, and the read-modify-write of the size
as separate steps. `raced` records the lines whose append overlapped another one or was
past the wait when a save or a new log began; `excused` those that a failed open or a new log
discards on purpose.

Simplified: a save without a card is one whose open fails; the serial mirror, which carries
the same bytes, counts as the card; a line `add` refuses is no step; a write or size past the
end of a buffer ends the model (`phase` "overrun", possible only for raced lines), since what it
hits is no variable; a session, once started, may go on for ever.

### Wardrive

`hist`, `cursor` are `mac_history` and its cursor, `index` is `wardrive_channel_index` (never
reset between sessions), `channel` is `old_channel`, `paused` is `geofence_paused`;
`bt_cb_busy`, `bt_pending_clear`, `ble_scanning` keep their names. `disc` is the answer of
`isScanning()`, `wifi` that of `scanComplete()`, `sniff` says that
`beaconSnifferCallback` is installed. `pc` has one label per point of `executeWarDrive`,
`onResult` and `beaconSnifferCallback` between which another task can change what the next
step reads. `save_mac` is its accesses to the cursor: the test, the wrap, the store and the
increment, between which the others may move it. `slot` is the value a task holds; the store
and the increment use it or read the cursor again, as the compiler likes. A six-byte copy is
one step. A store past the history hits memory that is no variable of these modules
(`current_act_len` behind `mac_history`, `WiFiScan.h:401-404`, or what is behind the block of
PSRAM): the history keeps its value, and `strayed` has the task. `beside`, the tasks whose
`save_mac` overlapped this one's, and `pausedLines` are history variables too.

Inputs: whether there is a fix and a line is saved, the verdict of the geofences (the
500 ms cache makes an old answer as possible as a new one), what a scan finds, whether the
radio accepts one. Taken from the libraries as the code uses them: results and the end of
a BLE scan both come from the host task, so no `onResult` is in flight once
`isScanning()` is false of its own; `stop()` for a pause lets a callback in flight run on, and
that ends within the hop delay (250 ms or more) before the next call; `deinit()` and
`esp_wifi_deinit` wait for the callbacks of their tasks; `scanDelete` does not end a running
scan; a stopped scan may leave results, or the belief that one runs, behind. `FullScreen`
is the build flag under which a start clears the history; builds have Bluetooth and a GPS.

Reading the model against the code shows that the handshake of `bt_pending_clear` and
`bt_cb_busy` is not what protects the results in `executeWarDrive`: the `isScanning()` test
above it is, which is why the mutant of `ClearAlone` drops that test.

### Settings

`flash` is `/settings.json`, `text` the document a reader finds in `json_settings_string`
(`deserializeJson` stops after the first one, so what is serialized behind it is not seen
until it is replaced or read from flash), `cache` is `SettingsCache`. A document is the set of
names in it, those of them without a value, the value of each key, the list of networks, the
geofences and the network older builds knew. `stage` is how far `setup()` is: `begin` reads,
completes or creates a document, and writes defaults over one that is there but does not
open for reading (`BeginOverwrites`); a document without the probe is replaced; `RunSetup`
stores single-value key files (`presave`); `loadUploadApiKeys` takes API.txt, then the files
again, and removes them; then the device is up. A join of the network of the card
saves it, keeps it in RAM when the list is full, or, where the device is in that network
already, saves nothing (`WiFiScan.cpp:2328-2332`); the file goes in each case. Every write has
three outcomes: done, the file does not open, or the power goes. A cut leaves what `Torn` says: the names before some
place in the document, the last of them with a part of its value or none. Left out: passwords and
their obfuscation (a profile is its name), entries `loadSetting` makes for unknown names (no
caller asks for one), the migration write of secrets, a key enabled from the command line.

`DurableKeys` promises that keys change one at a time and by a save, for as long as nothing
has gone wrong (`spoilt`): only once a file failed to open, a write was cut or the user asked
for a reset may keys go back to defaults, and each action that does so says it.

### ScanControl

`radio` holds `currentScanMode` (`mode`), the link, and the flags `WiFiScan` keeps of it
(`wifi_connected`, `wifi_initialized`, `upload_wifi_auto`); `Joined`, `AutoConnected`,
`AutoDisconnect`, `ScanOff` ... are its functions, as functions of that record. `home`, `arm`
and `cursor` are `show_home_during_scan`, an armed STOP and the item SELECT would call.
`pc` walks once round `loop()`: command line, `WiFiScan::main`, `SwarmNode::main` with its
lines, menu. `saveRun` is two writes, and the power may go between them. A tap within or
after five seconds is a free choice; joins may find a network or not; an upload is one
blocking step. A phone command is one that reaches `handleLine` (what happens before is in
`SwarmQueue`). Left out: bulk uploads and modes no menu of this build reaches, OTA, LEDs,
station wardrive, the WiFi library's own reconnecting, failures to open NVS.

## Runs

| Run | Asks | Result |
|---|---|---|
| `queue_reboots` | ring, cursor and account under every interleaving with two power cycles, NimBLE 1 (the host task reports); may a reboot hand out old numbers, and how much may an ack free after one? | holds |
| `queue_first_boot` | nothing skipped, the ledger refined, nothing freed unacknowledged, every sighting settles (NimBLE 2, fair) | holds |
| `queue_ack_after_boot` | does an ack after a reboot free only what it names? | violated: `_queueBaseSeq` stays 1 |
| `link_upload` | quiet uploads, real flags, reachability, silent links dropped | holds |
| `log_callbacks` | three tasks append: no overrun and no loss but of lines that raced, whole lines in order while none did, lines reach the card | holds |
| `log_lost_line` | is no line lost but to a full buffer (loop() and the sniffer)? | violated: unlocked appends and save |
| `wardrive_cycle` | no device twice in the history, no store outside of it but beside the sniffer's, no result cleared under a callback, quiet pauses, channels and BLE scans keep their turns | holds |
| `settings` | document, text and cache agree; late entries, keys and the order of networks kept, over failed opens, cuts, imports and older documents | holds |
| `settings_networks` | does a network imported from the card stay saved? | violated: `saveWifiCredential` writes behind the old text |
| `scan_control` | what the phone was told is stored, true and resumed; stray taps end no fresh session; a claimed idle link is dropped | holds |
| `upload_idle_link` | is every idle upload link dropped? | violated: `upload_wifi_auto` is cleared before the link is seen |
| `stray_taps` | does no stray tap end any session? | violated: `show_home_during_scan` is left over |

Some properties hold only under a condition, and TLC shows what happens without it:

- `SeqSetBack` bounds what a reboot may hand out again. With three boots (`MaxBoots = 3`)
  numbers are used again when fewer than a block were used in between: `loadPersist` starts
  at the stored reservation and does not renew it (`SwarmNode.cpp:684`).
- `FreedWithinSkipped` says how bad `queue_ack_after_boot` can get: no ack frees a sighting further
  ahead of what is acknowledged than numbers were skipped at the boot (`_queueBaseSeq` restarts at 1).
- `EverySightingSettles` needs NimBLE 2. In the NimBLE 1 build the outcome of `notify` is
  not looked at (`SwarmNode.cpp:547`), and 618 keeps pushing the resend timer on.
- `SilentDropped` asks for a silent link that `_connected` stands for and that is not proven.
  A late end of an old link clears `_connected` (345), and a hello left in `_inBuf` by the last link
  proves the new one; either link is then never dropped. It says nothing of these two hazards.
- `OnlyRacedLost` and `WholeLinesInOrder` say what the missing lock of the log costs: a line
  can be lost only by its own overlap (`log_lost_line` shows one), and the order only after one.
  Both excuse a log that does not open: `save()` empties the buffers all the same.
- `StoresInRange` excepts the sniffer. Without that, TLC shows another task's increment
  take the cursor past the last slot between the sniffer's test and its store (`WiFiScan.cpp:3588-3596`).
- `MostRecentFirst` is about steps taken while readers see the list that is stored. Where they
  see an older one (`settings_networks`) a save may drop networks and push others out.
- A link that is *not* silent may be dropped: `now` was read before the scan ran, and a later
  `_linkSilentSince` makes the difference wrap (805; `ahead` in `SwarmLink`).
- `KeysKept` excepts a placeholder or empty single-value file: `RunSetup` stores it over the
  real key (`WiFiScan.cpp:1882`; README.md:48 says placeholders are ignored), and supposes that no open
  failed, since `applyUploadApiKey` ignores what `saveSetting` answers (11702).

Other behaviour the models show, which no text of the repository speaks of: a run repeated
with its mask and session after a stop on the device answers Busy and starts nothing
(`SwarmNode.cpp:464`; `ToldIsTrue` ends with a touch of the device and leaves this case out); a stop on the device
does not clear the stored run, so a reboot resumes it; joining a network before the resume leaves the mode
CONNECTED on button builds and the run is not resumed; `begin` takes the one network of an older build
back at each boot with an empty list; a geofence entry without a value swallows saves.

Bounds. `SwarmQueue`: CAP = 2 and RESERVE = 2 (a multiple of CAP, as 256 is of 128) with 3
or 4 sightings overflow the ring, wrap it and cross a reservation; up to three boots, two links,
two lines in `_inBuf` and one or two notifications in the air let every stale hello, late ack
and lost line happen. `SwarmLink`: two handles, so one link opens while another closes; two
lines in `_inBuf`; no other bound. `LogBuffer`: buffers of 4 bytes, lines of 2 and a margin of 1, the
code's thresholds at their smallest: a buffer with one line counts as full, a second one
raced in still fits, a third is an overrun; three lines let every task append at once. The
theorems cover every number and size.
`Wardrive`: two slots for three addresses, one of them the sniffer's, wrap the history and
evict from it while three tasks save; lists of five and four channels take the index past a
multiple of four and end on one, and the region may change at any call; pauses, stops and
sessions are not bounded. `Settings`: a plain key, the probe and two upload keys, of which
one is stored twice at boot, in the order of the code's documents; a list of two for three networks, empty or full
at first, so that one must give way; a full
list meets a card with a network only, and a card with a network has keys in files of their own
only (`MCInit`); one failed open and one cut, anywhere. `ScanControl`: one
mask and two numbers, one power cut, two taps and two commands; two actors each act twice, and the
loop itself is not bounded. `CHECK_DEADLOCK FALSE` stands where a bound (sightings, boots,
links, lines) or a silent phone ends a behaviour; the firmware itself never stops.

Fairness. `loop()` runs for ever (`WF` of its steps); measured intervals pass; a phone in
range connects, says hello, sets the clock and acknowledges; the stack delivers and, in
`SwarmLink`, gives up on dead links (supervision timeout) and an upload session has a last
file. `SF` on delivery at the pump and at a heartbeat says only that the stack's buffers
are not full at each of infinitely many attempts. In `LogBuffer` `loop()` comes round
and a line begun is written (`WF` of its saves, of its other phases, of each task's write); no task
need begin one, and no session need start or end. In `Wardrive` the tasks run on and
scans of either radio end; `SF` on the end of a BLE scan says that its timer event queues
with the results and is not starved by them. `ChannelsVisited` is asked of a drive that in
the end stays running, outside of zones and in one region; `BleHeard` also supposes that
WiFi scans bring results and radios accept scans, since the code asks for a BLE scan only
after results. In `ScanControl` `loop()` goes round and five minutes pass. `Settings` states safety
only. No fairness is assumed of reports, menus, links breaking, or the phone's writes in `SwarmLink`.

## Proofs

`SwarmQueueProofs` (for every capacity, block, pump size, buffer and bound):
`TypeCorrect`, `RingOrdered`, `CursorBounded`, `SightingsAccounted`, `FreedAreAcked`,
`QueueKeepsLedger`. They rest on an invariant `Core` of TypeOK, RingOrder, CursorBounds,
`BaseLag` (the base lags the head by what the boot skipped, which is why an ack is exact on
a first boot only) and bounds on what acks in flight and the phone may name; `Account` adds
that queue, phone and overflow cover all numbers, `FirstInv` that every number the phone
may acknowledge is with it or was dropped. One lemma per action, then PTL. The refinement
is proved as the code's steps mapping to ledger steps or stutters.

`SwarmQueueNumberProofs`: `NoSightingSkipped`, `NumbersSetBack`, `FreedWithinBootSkip`. A hello
rewinds the cursor to `ackedBefore`, so that `NoneSkipped` needs `AckedBelow` (on a first boot
nothing queued is acknowledged), which an ack keeps because of `CapturedOnly`: the phone has
and is sent what was captured, so no ack names more. `Reserved` says how far the numbers in use may
run before `reserveSeq` has stored the next block, and `SeqSetBack` at a reboot follows from it;
`BaseLag`, the lag of the base, bounds what an ack frees after any number of boots.

`SwarmLinkProofs` (for every set of handles and buffer size): `LinkTyped`,
`ConnectedHasLink`, `UploadHasRadio`, from `LinkInv` = TypeOK, ConnectedIsReal and the
strengthening that the stack is down and no link exists whenever `pc` is "upload".

`LogBufferProofs` (for both sets of tasks, every buffer, line length, margin and number of
lines): `LogTypes`, `LogOnlyRacedLost`, `LogWholeLinesInOrder`. `LogInv` follows each line that has
not raced, whatever happened to others: it is alone in hand and not past the wait while a save
runs (`Hands`), the room add() found is still there and then holds its bytes (`Room`), and
afterwards it is on the card, excused, or in a buffer that save() has still to write, at a
place no size about to be stored cuts off (`Found`, `Holds`). `OrderInv` holds while nothing
raced: buffers and card are whole lines (`Contents`, `Numbers`), the card older than the
buffers and the buffer in use the newer one (`InOrder`), the line in hand newer than all
(`Newest`). `JoinWhole`, older whole lines followed by newer ones, serves the append and both
writes of a save.

`WardriveProofs` (for every set of addresses, history length and channel lists, with and
without `FullScreen`): `TypesHold`, `StoresStayInRange`, `RememberedOnce`, `NeverClearedUnder`,
`PauseIsQuiet`. The invariant turns on `Alone`: past the `isScanning()` test the host task is
idle. Hence loop() and the host task never save at once, and `Savers` says that a save no
other has overlapped finds the cursor where its test left it, that of two which overlap one is
the sniffer's, and that no other stores outside of the history; `Unsaved` carries the answer of
`seen_mac` to the store; `Outside` and `FewDecided` count the lines decided on before a pause.

`SettingsProofs` (for all keys, values, networks, list sizes and numbers of failures and cuts):
`SettingsTypes`, `SettingsCacheIsText`, `SettingsNetworksDiffer`, `SettingsProfilesDistinct`,
`SettingsLateEntries`, `SettingsKeepKeys`. The invariant `DocsInv` says that text and flash
differ in the networks only, that both lists are distinct, that the cache is the text's and that
the text is `Complete`: empty, or with every late entry, because begin reads through the
migration whatever the file has lost. A torn document keeps `DocsInv` because `Torn` leaves a
prefix of a list. `SettingsKeepKeys` maps each action to one of `DurableKeys`, the failed
opens, cuts and resets to those that say so.

`SettingsKeptProofs`: `SettingsMostRecentFirst` and `SettingsKeysKept`. The first is about the
list in flash before and after a step, and rests on what a
rotation and a removal do to the entries of a list (`RotatedMoves`, `RemovedMoves`) and on the slot
that `saveWifiCredential` chooses. For the second, `KeysKept` says nothing before the device is
up, and in between a key taken earlier may well be overwritten by one whose file is not read
yet; `Custody` carries it through: with nothing lost, a document in use has every name (`Whole`),
each stage leaves behind what it read in the settings (`CardRead`), and a key that does not count
has a file on the card that will bring another (`Entrusted`).

`ScanControlProofs` (for all masks, sessions and bounds): `ControlTypes`, `ControlToldRunStored`,
`ControlToldIsTrue`, `ControlStrayTaps`, from TypeOK, `Stored` (between which writes NVS holds how
much of a run), `Obedient` (the mode is what the last answer said, unless a command is half done
or the device was used) and `Guarded` (in a fresh session the home screen over it is up only on
item SCAN, or STOP was tapped).

They assume only the named ASSUMEs of the modules. Liveness (`EverySightingSettles`,
`Reachable`, `SilentDropped`, `LinesReachCard`, `ChannelsVisited`, `BleHeard`, `RunResumes`,
`ClaimedLinkDropped`) is model-checked only: temporal properties under fairness are out of the
prover's reach. Every other property of a passing run is a theorem.

## Not modelled

See the components in `PROJECT.json`. In short: text and layout, drivers and pure helpers;
`queueSighting` of the host task cutting into a single ack or pump round; whether a NimBLE
server survives `deinit`; what an overrun buffer or history hits; a second phone; GPS positions and distances (only the verdict is);
what `LogNoFix` adds to a line; builds without Bluetooth or GPS; the HTTP exchange of an upload and its
sidecar markers, which nothing in this build reads back.

The models stand for a small share of the repository's lines, and most of the rest is nothing
to model: large parts of `WiFiScan.cpp` and `MenuFunctions.cpp` sit in `#if 0` blocks marked
"Pure Wardrive: ... removed" or behind modes no menu reaches; `configs.h` is board pins,
`BootSplashBitmap.h` and its like are pictures; `src/libraries` is third-party code; what remains beside
the components above draws on displays.

## Plan

Done: `SwarmQueue` with `SightingLedger`, `SwarmLink`, `LogBuffer`, `Wardrive`, `Settings` with
`DurableKeys`, `ScanControl`. What would come next:

1. Zones, fixes and the last known position: which position a line carries.
2. A finer `queueSighting` in which the host task cuts into acks and the pump.
3. `ScanControl` and `Wardrive` composed: a session stopped while its callbacks run.
