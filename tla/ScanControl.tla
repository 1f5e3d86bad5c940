---------------------------- MODULE ScanControl ----------------------------
(***************************************************************************)
(* Who starts and stops a wardrive session, and who owns the WiFi link.    *)
(*                                                                         *)
(* One mode, WiFiScan::currentScanMode, is set by the home screen, by the  *)
(* command line, by the phone and by the resume after a boot, and by every *)
(* attempt to join a network.  The link that SYNC opens for uploads is to  *)
(* be dropped again when nobody uses it; the run the phone asked for is to *)
(* survive a reboot (esp32_marauder/WiFiScan.cpp, SwarmNode.cpp,           *)
(* MenuFunctions.cpp, CommandLine.cpp, esp32_marauder.ino).                *)
(*                                                                         *)
(* All of this runs on the main task, in the order of loop(); what may     *)
(* cut into it is the power, also between the two writes of a run to NVS.  *)
(***************************************************************************)
EXTENDS Naturals

CONSTANTS
  Masks,      \* run masks a phone asks for: 1 WiFi, 2 Bluetooth, 3 both
  Sessions,   \* the numbers the phone gives its runs
  MaxSession, \* bound: _runSession
  MaxTaps,    \* bound: what the user does at the screen and over serial
  MaxCommands, MaxFails, MaxCuts  \* bounds: the phone's commands, failures of ensureBle, power cuts

ASSUME MaskAssumption    == Masks # {} /\ Masks \subseteq 1 .. 3
ASSUME SessionAssumption == Sessions \subseteq Nat
ASSUME BoundAssumption   ==
  /\ MaxSession \in Nat /\ Sessions \subseteq 0 .. MaxSession
  /\ {MaxTaps, MaxCommands, MaxFails, MaxCuts} \subseteq Nat

VARIABLES
  touch,     \* the build has HAS_TOUCH
  pc,        \* where loop() is; "off" without power
  radio,     \* what WiFiScan knows, and the link itself
  home,      \* show_home_during_scan
  arm,       \* stop_arm_ms # 0: the STOP item shows SURE?, or did
  cursor,    \* what SELECT would call: the item selected in current_menu
  swarm,     \* the setting "Swarm"
  run, nvs,  \* _runMask and _runSession, and what NVS holds of them
  command,   \* the command handleLine is at
  resumed,   \* bootResumed
  answered,  \* history: the run of the last command the phone got an answer to
  open,      \* history: a later command was cut off before its answer
  touched,   \* history: the device has started or ended something by itself since
  fresh,     \* history: the session began with the session screen up and STOP unarmed
  sure,      \* history: STOP was tapped once in this session
  taps, commands, fails, cuts

screen  == <<home, arm, cursor>>
phone   == <<answered, open>>
session == <<fresh, sure>>
bounds  == <<taps, commands, fails, cuts>>
node    == <<swarm, run, nvs, command, resumed>>
vars    == <<touch, pc, radio, screen, node, phone, touched, session, bounds>>

Runs == [m : {0} \cup Masks, s : 0 .. MaxSession]
Commands == [c : {"none", "run", "stopscan", "wardrive"}, m : {0} \cup Masks, start : BOOLEAN]
NoCommand == [c |-> "none", m |-> 0, start |-> FALSE]

---------------------------------------------------------------------------
(* WiFiScan.  mode: off, wardrive, connected (WIFI_CONNECTED) or screen (the *)
(* device information and the GPS pages); link: WiFi.status() is connected; *)
(* connected, initialized, auto: wifi_connected, wifi_initialized and       *)
(* upload_wifi_auto; idle: five minutes since upload_link_ms; upload:       *)
(* history, the link was opened for uploads.                                *)

Idle == {"off", "connected"}
Silent == [mode |-> "off", link |-> FALSE, connected |-> FALSE, initialized |-> FALSE,
           auto |-> FALSE, idle |-> FALSE, upload |-> FALSE]

Radios == [mode : {"off", "wardrive", "connected", "screen"}, link : BOOLEAN, connected : BOOLEAN,
           initialized : BOOLEAN, auto : BOOLEAN, idle : BOOLEAN, upload : BOOLEAN]

Dropped(r) == [r EXCEPT !.link = FALSE, !.upload = FALSE]

\* StartScan(WIFI_SCAN_OFF): shutdownWiFi spares a link that main() has seen.
ScanOff(r) ==
  LET shut == r.initialized /\ ~r.connected
  IN  [IF shut THEN Dropped(r) ELSE r EXCEPT !.mode = "off", !.initialized = @ /\ ~shut]

\* StartScan(WIFI_SCAN_WAR_DRIVE)
ScanOn(r) == [r EXCEPT !.mode = "wardrive", !.initialized = TRUE]

\* joinWiFi: at a link to the same network, another network, and one out of reach.
Joined(r)  == [r EXCEPT !.link = TRUE, !.initialized = TRUE,
                        !.mode = IF touch THEN @ ELSE "connected"]
SameNet(r) == IF r.link THEN {[r EXCEPT !.mode = "connected", !.initialized = TRUE]} ELSE {}
NotJoined(r) == ScanOff([Dropped(r) EXCEPT !.initialized = TRUE])

\* joinSavedWiFi: a network joins at once, or after others have not.
SavedJoined(r) == {Joined(Dropped(r)), Joined(NotJoined(r))}
SavedFailed(r) == {r, NotJoined(r)}  \* no profile, or none in reach

\* autoConnectUploadWiFi, and whether it says the link is up
Claimed(r) == [r EXCEPT !.auto = TRUE, !.idle = FALSE, !.upload = TRUE]
AutoConnected(r) ==
  IF r.connected THEN {Claimed(r)}
  ELSE {Claimed(q) : q \in SavedJoined(r) \cup {Joined(Dropped(r))} \cup SameNet(r)}
AutoFailed(r) ==
  IF r.connected THEN {}
  ELSE SavedFailed(r) \cup {[NotJoined(r) EXCEPT !.auto = FALSE]}

\* autoDisconnectUploadWiFi
AutoDisconnectOff(r) ==  \* mutant: only WIFI_SCAN_OFF counts as idle
  IF ~r.auto THEN r
  ELSE IF ~r.connected THEN [r EXCEPT !.auto = FALSE]
  ELSE IF r.mode = "off" /\ r.idle THEN [Dropped(r) EXCEPT !.auto = FALSE]
  ELSE r
AutoDisconnect(r) ==
  IF ~r.auto THEN r
  ELSE IF ~r.connected THEN [r EXCEPT !.auto = FALSE]
  ELSE IF r.mode \in Idle /\ r.idle THEN [Dropped(r) EXCEPT !.auto = FALSE]
  ELSE r

\* executeWarDrive: its first scan takes the radio from the link.
Cycled(r) == IF r.mode = "wardrive" THEN {r, [Dropped(r) EXCEPT !.initialized = TRUE]} ELSE {r}

\* WiFiScan::main
Looked(r) == [r EXCEPT !.connected = r.link, !.initialized = @ \/ r.link]
MainSteps(r) == {Looked(q) : q \in Cycled(AutoDisconnect(r))}

\* An upload: the link is turned off after the last file, and the mode with it.
Uploaded(r) == ScanOff(Dropped(r))

---------------------------------------------------------------------------
(* The user.  A step of the device that changes the mode is remembered.     *)

Device(r) == radio' = r /\ touched' = (touched \/ r.mode # radio.mode)
\* A session begins, unless one is running.
Begins(h, a) ==
  IF radio.mode = "wardrive" THEN UNCHANGED session
  ELSE fresh' = (~h /\ ~a) /\ sure' = FALSE
User == taps < MaxTaps /\ taps' = taps + 1 /\ UNCHANGED <<commands, fails, cuts>>
NothingElse == UNCHANGED <<touch, node, phone>>
Passed(from, to) ==
  /\ pc = from /\ pc' = to
  /\ UNCHANGED <<touch, radio, screen, node, phone, touched, session, bounds>>

\* changeMenu(current_menu) selects the first item of the menu that is shown.
Top == IF cursor \in {"scan", "sync"} THEN "scan"
       ELSE IF cursor \in {"info back", "gps back"} THEN cursor ELSE "back"

\* CommandLine: one line from the serial port, if there is one.
CliNothing == Passed("cli", "scan")
CliStopScan ==
  /\ pc = "cli" /\ pc' = "scan" /\ User
  /\ \E r \in {radio, Dropped(radio)} : Device(ScanOff(r))
  /\ cursor' = Top
  /\ NothingElse /\ UNCHANGED <<home, arm, session>>
CliWardrive ==
  /\ pc = "cli" /\ pc' = "scan" /\ User
  /\ Device(ScanOn(radio)) /\ Begins(home, arm)
  /\ NothingElse /\ UNCHANGED screen
CliJoin ==
  /\ pc = "cli" /\ pc' = "scan" /\ User
  /\ \E r \in SavedJoined(radio) \cup SavedFailed(radio) \cup SameNet(radio) : Device(r)
  /\ cursor' \in {cursor, Top}
  /\ NothingElse /\ UNCHANGED <<home, arm, session>>
CliUpload ==
  /\ pc = "cli" /\ pc' = "scan" /\ User
  /\ \/ \E r \in SavedFailed(radio) : Device(r)
     \/ \E r \in SavedJoined(radio) : Device(Uploaded(r))
  /\ NothingElse /\ UNCHANGED <<screen, session>>
CliGps ==
  /\ pc = "cli" /\ pc' = "scan" /\ User
  /\ Device([radio EXCEPT !.mode = "screen"])
  /\ cursor' = "gps back"
  /\ NothingElse /\ UNCHANGED <<home, arm, session>>
Cli == CliNothing \/ CliStopScan \/ CliWardrive \/ CliJoin \/ CliUpload \/ CliGps

\* The menu.  While a session runs the first tap only shows the home screen.
ShowHomeHere ==  \* mutant: the home screen comes up where the user had left it
  /\ pc = "menu" /\ pc' = "cli"
  /\ radio.mode = "wardrive" /\ ~home
  /\ home' = TRUE /\ UNCHANGED cursor
  /\ NothingElse /\ UNCHANGED <<radio, arm, touched, session, bounds>>
ShowHome ==
  /\ pc = "menu" /\ pc' = "cli"
  /\ radio.mode = "wardrive" /\ ~home
  /\ home' = TRUE /\ cursor' = "scan"
  /\ NothingElse /\ UNCHANGED <<radio, arm, touched, session, bounds>>
\* UP and DOWN move the selection only while nothing runs.
Navigate(item) ==
  /\ pc = "menu" /\ pc' = "cli"
  /\ radio.mode \in Idle /\ cursor # item
  /\ cursor' = item
  /\ NothingElse /\ UNCHANGED <<radio, home, arm, touched, session, bounds>>
Select(item) ==
  /\ pc = "menu" /\ pc' = "cli" /\ User
  /\ cursor = item
  /\ radio.mode = "wardrive" => home

\* SCAN/STOP: the first tap on STOP arms it, a second within five seconds ends
\* the session.  SCAN within five seconds of either is ignored.
SelectArm ==
  /\ Select("scan") /\ radio.mode = "wardrive"
  /\ arm' = TRUE /\ sure' = TRUE
  /\ NothingElse /\ UNCHANGED <<radio, home, cursor, touched, fresh>>
SelectStop ==
  /\ Select("scan") /\ radio.mode = "wardrive" /\ arm
  /\ Device(ScanOff(radio))
  /\ arm' = FALSE /\ home' = FALSE
  /\ NothingElse /\ UNCHANGED <<cursor, session>>
SelectScan ==
  /\ Select("scan") /\ radio.mode # "wardrive"
  /\ Device(ScanOn(radio))
  /\ arm' = FALSE /\ home' = FALSE /\ Begins(FALSE, FALSE)
  /\ NothingElse /\ UNCHANGED cursor
SelectSync ==
  /\ Select("sync")
  /\ \E r \in AutoConnected(radio) \cup AutoFailed(radio) : Device(r)
  /\ cursor' = "back"
  /\ NothingElse /\ UNCHANGED <<home, arm, session>>
\* doUpload
SelectFile ==
  /\ Select("file")
  /\ \/ radio.mode = "wardrive" /\ UNCHANGED <<radio, touched>>
     \/ /\ radio.mode # "wardrive"
        /\ \/ radio.connected /\ Device(Uploaded(radio))
           \/ /\ ~radio.connected
              /\ \/ \E r \in AutoConnected(radio) : Device(Uploaded(r))
                 \/ \E q \in AutoFailed(radio) : \E r \in SavedJoined(q) : Device(Uploaded(r))
                 \/ \E q \in AutoFailed(radio) : \E r \in SavedFailed(q) : Device(r)
  /\ cursor' = "back"
  /\ NothingElse /\ UNCHANGED <<home, arm, session>>
\* Device information and the GPS pages set the mode themselves; so do their
\* Back items, the one of the GPS pages with StartScan(WIFI_SCAN_OFF).
SelectPage ==
  /\ Select("page")
  /\ Device([radio EXCEPT !.mode = "screen"])
  /\ cursor' \in {"info back", "gps back"}
  /\ NothingElse /\ UNCHANGED <<home, arm, session>>
SelectPageBack ==
  /\ \/ Select("info back") /\ Device([radio EXCEPT !.mode = "off"])
     \/ Select("gps back") /\ Device(ScanOff([radio EXCEPT !.mode = "off"]))
  /\ cursor' = "back"
  /\ NothingElse /\ UNCHANGED <<home, arm, session>>
SelectSwarm ==
  /\ Select("swarm")
  /\ swarm' = ~swarm /\ cursor' = "back"
  /\ UNCHANGED <<touch, radio, home, arm, run, nvs, command, resumed, phone, touched, session>>
MenuNothing == Passed("menu", "cli")

Items == {"scan", "sync", "file", "page", "swarm", "back"}
Menu ==
  \/ MenuNothing \/ ShowHome \/ \E item \in Items : Navigate(item)
  \/ SelectArm \/ SelectStop \/ SelectScan \/ SelectSync \/ SelectFile
  \/ SelectPage \/ SelectPageBack \/ SelectSwarm

---------------------------------------------------------------------------
(* The rest of loop() *)

ScanMain ==
  /\ pc = "scan" /\ pc' = "swarm"
  /\ radio' \in MainSteps(radio)
  /\ UNCHANGED <<touch, screen, node, phone, touched, session, bounds>>

\* SwarmNode::main: Swarm is off, or its stack does not come up.
SwarmDownResumed ==  \* mutant: the resume is marked done before Bluetooth is up
  /\ pc = "swarm" /\ pc' = "menu"
  /\ \/ ~swarm /\ UNCHANGED <<resumed, bounds>>
     \/ /\ swarm /\ fails < MaxFails /\ fails' = fails + 1
        /\ resumed' = TRUE /\ UNCHANGED <<taps, commands, cuts>>
  /\ UNCHANGED <<touch, radio, screen, swarm, run, nvs, command, phone, touched, session>>
SwarmDown ==
  /\ pc = "swarm" /\ pc' = "menu"
  /\ \/ ~swarm /\ UNCHANGED bounds
     \/ swarm /\ fails < MaxFails /\ fails' = fails + 1 /\ UNCHANGED <<taps, commands, cuts>>
  /\ UNCHANGED <<touch, radio, screen, node, phone, touched, session>>
SwarmUp == swarm /\ Passed("swarm", "lines")

\* handleLine, up to the first of the two writes of saveRun
PutNext(m, s) == run' = [m |-> m, s |-> s + 1] /\ nvs' = [nvs EXCEPT !.m = m]  \* mutant: bumped twice
Put(m, s) == run' = [m |-> m, s |-> s] /\ nvs' = [nvs EXCEPT !.m = m]
Heard ==
  /\ pc = "lines" /\ pc' = "put"
  /\ commands < MaxCommands /\ commands' = commands + 1
  /\ open' = TRUE
  /\ UNCHANGED <<touch, radio, screen, swarm, resumed, answered, touched, session, taps, fails, cuts>>
HearRun(m, s) ==
  /\ Heard
  /\ Put(m, s)
  /\ command' = [c |-> "run", m |-> m, start |-> m # run.m \/ s # run.s]
HearStopScanUnsaved ==  \* mutant: the stop is not stored
  /\ Heard
  /\ run' = [run EXCEPT !.m = 0] /\ UNCHANGED nvs
  /\ command' = [c |-> "stopscan", m |-> 0, start |-> FALSE]
HearStopScan ==
  /\ Heard
  /\ Put(0, run.s)
  /\ command' = [c |-> "stopscan", m |-> 0, start |-> FALSE]
HearWardriveByMask(m) ==  \* mutant: a stopped device is not started again
  /\ Heard /\ run.s < MaxSession
  /\ Put(m, run.s + 1)
  /\ command' = [c |-> "wardrive", m |-> m, start |-> m # run.m]
HearWardrive(m) ==
  /\ Heard /\ run.s < MaxSession
  /\ Put(m, run.s + 1)
  /\ command' = [c |-> "wardrive", m |-> m, start |-> m # run.m \/ radio.mode # "wardrive"]

\* ... the second write, and the answer with what it starts or stops
PutSession ==
  /\ pc = "put" /\ pc' = "stored"
  /\ nvs' = [nvs EXCEPT !.s = run.s]
  /\ UNCHANGED <<touch, radio, screen, swarm, run, command, resumed, phone, touched, session, bounds>>
Answer ==
  /\ pc = "stored" /\ pc' = "lines"
  /\ answered' = run /\ open' = FALSE
  /\ command' = NoCommand
  /\ \/ /\ command.m = 0  \* stopWardriveRemote
        /\ radio' = ScanOff(radio) /\ home' = FALSE /\ cursor' = Top
        /\ touched' = FALSE /\ UNCHANGED session
     \/ /\ command.m # 0 /\ command.start  \* startWardriveRemote
        /\ radio' = ScanOn(radio) /\ Begins(home, arm)
        /\ touched' = FALSE /\ UNCHANGED <<home, cursor>>
     \/ /\ command.m # 0 /\ ~command.start
        /\ touched' = (touched /\ command.c = "run")
        /\ UNCHANGED <<radio, home, cursor, session>>
  /\ UNCHANGED <<touch, arm, swarm, run, nvs, resumed, bounds>>

\* The boot resume, once, when the lines are read.
Resume ==
  /\ pc = "lines" /\ pc' = "menu" /\ resumed' = TRUE
  /\ LET starts == ~resumed /\ run.m # 0 /\ radio.mode = "off"
     IN  /\ radio' = IF starts THEN ScanOn(radio) ELSE radio
         /\ IF starts THEN Begins(home, arm) ELSE UNCHANGED session
  /\ UNCHANGED <<touch, screen, swarm, run, nvs, command, phone, touched, bounds>>

Swarm ==
  \/ SwarmDown \/ SwarmUp \/ PutSession \/ Answer \/ Resume
  \/ \E m \in {0} \cup Masks, s \in Sessions : HearRun(m, s)
  \/ HearStopScan \/ \E m \in Masks : HearWardrive(m)

\* setup(): the upload link is tried, then StartScan(WIFI_SCAN_OFF); begin()
\* loads the run, and main resumes it.
Boot ==
  /\ pc = "off" /\ pc' = "cli"
  /\ radio' \in {ScanOff(r) : r \in AutoConnected(Silent) \cup AutoFailed(Silent)}
  /\ run' = nvs /\ resumed' = FALSE /\ command' = NoCommand
  /\ home' = FALSE /\ arm' = FALSE /\ cursor' = "scan"
  /\ touched' = FALSE
  /\ UNCHANGED <<touch, swarm, nvs, phone, session, bounds>>

PowerCut ==
  /\ pc # "off" /\ pc' = "off"
  /\ cuts < MaxCuts /\ cuts' = cuts + 1
  /\ radio' = Silent
  /\ UNCHANGED <<touch, screen, node, phone, touched, session, taps, commands, fails>>

FiveMinutes ==
  /\ radio.auto /\ ~radio.idle
  /\ radio' = [radio EXCEPT !.idle = TRUE]
  /\ UNCHANGED <<touch, pc, screen, node, phone, touched, session, bounds>>

LinkLost ==
  /\ radio.link /\ radio' = Dropped(radio)
  /\ UNCHANGED <<touch, pc, screen, node, phone, touched, session, bounds>>

Init ==
  /\ touch \in BOOLEAN /\ pc = "off" /\ radio = Silent
  /\ home = FALSE /\ arm = FALSE /\ cursor = "scan"
  /\ swarm \in BOOLEAN
  /\ nvs = [m |-> 0, s |-> 0] /\ run = nvs /\ command = NoCommand /\ resumed = FALSE
  /\ answered = nvs /\ open = FALSE /\ touched = FALSE
  /\ fresh = FALSE /\ sure = FALSE
  /\ taps = 0 /\ commands = 0 /\ fails = 0 /\ cuts = 0

Loop == Boot \/ Cli \/ ScanMain \/ Swarm \/ Menu
Next == Loop \/ PowerCut \/ FiveMinutes \/ LinkLost
Spec == Init /\ [][Next]_vars

\* loop() goes round, and time passes.
FairSpec == Spec /\ WF_vars(Loop) /\ WF_vars(FiveMinutes)

---------------------------------------------------------------------------
(* Properties *)

TypeOK ==
  /\ touch \in BOOLEAN
  /\ pc \in {"off", "cli", "scan", "swarm", "lines", "put", "stored", "menu"}
  /\ radio \in Radios
  /\ home \in BOOLEAN /\ arm \in BOOLEAN /\ cursor \in Items \cup {"info back", "gps back"}
  /\ swarm \in BOOLEAN /\ run \in Runs /\ nvs \in Runs /\ resumed \in BOOLEAN
  /\ command \in Commands
  /\ answered \in Runs /\ open \in BOOLEAN /\ touched \in BOOLEAN
  /\ fresh \in BOOLEAN /\ sure \in BOOLEAN
  /\ taps \in 0 .. MaxTaps /\ commands \in 0 .. MaxCommands
  /\ fails \in 0 .. MaxFails /\ cuts \in 0 .. MaxCuts

\* "a persisted phone run survives reboots" (SwarmNode.cpp:811): what the phone
\* was told is what NVS holds, wherever the power went, unless a later command
\* never got its answer (saveRun, before the reply).
ToldRunStored == ~open => nvs = answered

\* Told Busy, the device wardrives, and told Ready it does not, over reboots
\* too, as long as nobody used the device itself (run, stopscan, the resume).
ToldIsTrue ==
  resumed /\ pc # "off" /\ ~open /\ ~touched => (radio.mode = "wardrive" <=> answered.m # 0)

\* "taps during wardrive toggle stats/home, never stop. Only the STOP button
\* (5s guard) ends a session" (MenuFunctions.cpp:436): no tap ends a session
\* in which STOP has not been tapped before.
EndedByTap == pc = "menu" /\ pc' = "cli" /\ radio.mode = "wardrive" /\ radio'.mode # "wardrive"
StrayTapsKeepSession == [][EndedByTap => sure]_vars
\* The code keeps that for a session that began with the session screen up and
\* STOP unarmed.
StrayTapsKeepFreshSession == [][EndedByTap /\ fresh => sure]_vars

\* The boot resume: a stored run goes on after a reboot once Bluetooth is up,
\* however often it fails to come up before (bootResumed, ensureBle).
RunResumes ==
  (pc # "off" /\ ~resumed /\ swarm /\ run.m # 0)
    ~> (radio.mode = "wardrive" \/ touched \/ ~swarm \/ run.m = 0 \/ pc = "off")

\* "drop idle upload WiFi after 5min to save battery" (WiFiScan.cpp:12687): a
\* link that autoDisconnectUploadWiFi can see to be its own is dropped.
Unused == pc # "off" /\ radio.link /\ radio.mode \in Idle
ClaimedLinkDropped == (Unused /\ radio.auto /\ radio.connected) ~> ~Unused

\* "If no upload starts within 5 minutes, WiFi switches off again"
\* (README.md:54): so is every link that was opened for uploads.
IdleLinkDropped == (Unused /\ radio.upload) ~> ~Unused
===========================================================================
