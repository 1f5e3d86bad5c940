------------------------- MODULE ScanControlProofs -------------------------
(***************************************************************************)
(* Who starts and stops a session, for every set of masks and sessions and *)
(* every bound: what the phone was told is what NVS holds, the device does *)
(* what the phone was told, and no stray tap ends a session that began     *)
(* with the session screen up.                                             *)
(***************************************************************************)
EXTENDS ScanControl, TLAPS

USE MaskAssumption, SessionAssumption, BoundAssumption

\* NVS lags behind the run only while saveRun writes, and is what was answered
\* unless a command is still open.
Stored ==
  /\ pc \in {"put", "stored"} => open /\ run.m = command.m /\ command.c # "none"
  /\ pc = "put" => nvs.m = run.m
  /\ pc = "stored" => nvs = run
  /\ pc \notin {"off", "put", "stored"} => nvs = run
  /\ ToldRunStored

\* Between two commands an untouched device does what its run says; before the
\* resume it may also not have begun.
Follows ==
  IF radio.mode = "wardrive" THEN run.m # 0
  ELSE IF resumed THEN run.m = 0 ELSE radio.mode = "off"

\* A command that starts nothing has nothing to start.
Obedient ==
  /\ pc \notin {"off", "put", "stored"} /\ ~touched => Follows
  /\ pc \in {"put", "stored"} /\ command.m # 0 /\ ~command.start =>
       IF command.c = "run" THEN ~touched => Follows ELSE radio.mode = "wardrive"

\* In a session that began afresh the home screen has only STOP to tap.
Guarded == radio.mode = "wardrive" /\ fresh => (home => cursor = "scan") /\ (arm => sure)

ControlInv == TypeOK /\ Stored /\ Obedient /\ Guarded

---------------------------------------------------------------------------
(* The radio *)

LEMMA ScanOffIs ==
  ASSUME NEW r \in Radios
  PROVE  ScanOff(r) \in Radios /\ ScanOff(r).mode = "off"
  BY DEF ScanOff, Dropped, Radios

LEMMA ScanOnIs ==
  ASSUME NEW r \in Radios
  PROVE  ScanOn(r) \in Radios /\ ScanOn(r).mode = "wardrive"
  BY DEF ScanOn, Radios

\* A join never begins a session.
Calm(r, q) == q \in Radios /\ (q.mode = "wardrive" => r.mode = "wardrive")

LEMMA DroppedIs ==
  ASSUME NEW r \in Radios
  PROVE  Dropped(r) \in Radios /\ Dropped(r).mode = r.mode
  BY DEF Dropped, Radios

LEMMA JoinedIs ==
  ASSUME NEW r \in Radios
  PROVE  Calm(r, Joined(r))
  BY DEF Joined, Radios, Calm

LEMMA NotJoinedIs ==
  ASSUME NEW r \in Radios
  PROVE  NotJoined(r) \in Radios /\ NotJoined(r).mode = "off"
  <1>1. Dropped(r) \in Radios BY DroppedIs
  <1> DEFINE q == [Dropped(r) EXCEPT !.initialized = TRUE]
  <1>2. q \in Radios BY <1>1 DEF Radios
  <1> HIDE DEF q
  <1>3. ScanOff(q) \in Radios /\ ScanOff(q).mode = "off" BY <1>2, ScanOffIs
  <1> QED BY <1>3 DEF NotJoined, q

LEMMA SameNetIs ==
  ASSUME NEW r \in Radios, NEW q \in SameNet(r)
  PROVE  Calm(r, q)
  BY DEF SameNet, Radios, Calm

LEMMA SavedJoinedIs ==
  ASSUME NEW r \in Radios, NEW q \in SavedJoined(r)
  PROVE  Calm(r, q)
  <1>1. Calm(r, Joined(Dropped(r)))
    BY DroppedIs, JoinedIs DEF Calm
  <1>2. Calm(r, Joined(NotJoined(r)))
    <2>1. NotJoined(r) \in Radios /\ NotJoined(r).mode # "wardrive" BY NotJoinedIs
    <2>2. Calm(NotJoined(r), Joined(NotJoined(r))) BY <2>1, JoinedIs
    <2> QED BY <2>1, <2>2 DEF Calm
  <1> QED BY <1>1, <1>2 DEF SavedJoined

LEMMA SavedFailedIs ==
  ASSUME NEW r \in Radios, NEW q \in SavedFailed(r)
  PROVE  Calm(r, q)
  BY NotJoinedIs DEF SavedFailed, Calm

LEMMA ClaimedIs ==
  ASSUME NEW r \in Radios
  PROVE  Claimed(r) \in Radios /\ Claimed(r).mode = r.mode
  BY DEF Claimed, Radios

LEMMA AutoConnectedIs ==
  ASSUME NEW r \in Radios, NEW q \in AutoConnected(r)
  PROVE  Calm(r, q)
  <1>1. CASE r.connected
    BY <1>1, ClaimedIs DEF AutoConnected, Calm
  <1>2. CASE ~r.connected
    <2>1. PICK p \in SavedJoined(r) \cup {Joined(Dropped(r))} \cup SameNet(r) : q = Claimed(p)
      BY <1>2 DEF AutoConnected
    <2>2. Calm(r, p)
      <3>1. CASE p \in SavedJoined(r) BY <3>1, SavedJoinedIs
      <3>2. CASE p = Joined(Dropped(r)) BY <3>2, DroppedIs, JoinedIs DEF Calm
      <3>3. CASE p \in SameNet(r) BY <3>3, SameNetIs
      <3> QED BY <2>1, <3>1, <3>2, <3>3
    <2> QED BY <2>1, <2>2, ClaimedIs DEF Calm
  <1> QED BY <1>1, <1>2

LEMMA AutoFailedIs ==
  ASSUME NEW r \in Radios, NEW q \in AutoFailed(r)
  PROVE  Calm(r, q)
  <1>1. CASE q \in SavedFailed(r) BY <1>1, SavedFailedIs
  <1>2. CASE q = [NotJoined(r) EXCEPT !.auto = FALSE]
    <2>1. NotJoined(r) \in Radios /\ NotJoined(r).mode = "off" BY NotJoinedIs
    <2> QED BY <1>2, <2>1 DEF Calm, Radios
  <1> QED BY <1>1, <1>2 DEF AutoFailed

LEMMA UploadedIs ==
  ASSUME NEW r \in Radios
  PROVE  Uploaded(r) \in Radios /\ Uploaded(r).mode = "off"
  BY DroppedIs, ScanOffIs DEF Uploaded

\* main() leaves the mode alone.
LEMMA MainStepsAre ==
  ASSUME NEW r \in Radios, NEW q \in MainSteps(r)
  PROVE  q \in Radios /\ q.mode = r.mode
  <1> DEFINE a == AutoDisconnect(r)
  <1>1. a \in Radios /\ a.mode = r.mode
    BY DEF AutoDisconnect, Dropped, Radios
  <1>2. PICK c \in Cycled(a) : q = Looked(c) BY DEF MainSteps
  <1> HIDE DEF a
  <1>3. c \in Radios /\ c.mode = r.mode
    BY <1>1, <1>2 DEF Cycled, Dropped, Radios
  <1> QED BY <1>2, <1>3 DEF Looked, Radios

---------------------------------------------------------------------------
(* Every action keeps the invariant. *)

Between == pc \notin {"off", "put", "stored"}

LEMMA InitControl == Init => ControlInv
  <1> SUFFICES ASSUME Init PROVE ControlInv
    OBVIOUS
  <1>1. Silent \in Radios BY DEF Silent, Radios
  <1>2. [m |-> 0, s |-> 0] \in Runs BY DEF Runs
  <1>3. NoCommand \in Commands BY DEF NoCommand, Commands
  <1>4. taps \in 0 .. MaxTaps /\ commands \in 0 .. MaxCommands /\ fails \in 0 .. MaxFails /\ cuts \in 0 .. MaxCuts
    BY DEF Init
  <1>5. /\ touch \in BOOLEAN /\ pc = "off" /\ home \in BOOLEAN /\ arm \in BOOLEAN /\ cursor = "scan"
        /\ swarm \in BOOLEAN /\ resumed \in BOOLEAN /\ open \in BOOLEAN /\ touched \in BOOLEAN
        /\ fresh \in BOOLEAN /\ sure \in BOOLEAN
    BY DEF Init
  <1>6. /\ radio \in Radios /\ run \in Runs /\ nvs \in Runs /\ answered \in Runs /\ command \in Commands
        /\ nvs = answered /\ radio.mode = "off"
    BY <1>1, <1>2, <1>3 DEF Init, Silent
  <1>7. TypeOK BY <1>4, <1>5, <1>6 DEF TypeOK, Items
  <1> QED BY <1>5, <1>6, <1>7 DEF ControlInv, Stored, ToldRunStored, Obedient, Guarded

\* A step of the device: the run is not its business, and a change of the mode
\* is remembered.
LEMMA DeviceKeeps ==
  ASSUME ControlInv, NEW r \in Radios, Device(r), NothingElse, Between, Between'
  PROVE  /\ radio' \in Radios /\ touched' \in BOOLEAN
         /\ Stored' /\ Obedient'
  <1>1. /\ run' = run /\ nvs' = nvs /\ resumed' = resumed /\ answered' = answered /\ open' = open
        /\ command' = command
    BY DEF NothingElse, node, phone
  <1>2. radio' = r /\ (~touched' => ~touched /\ r.mode = radio.mode) /\ touched' \in BOOLEAN
    BY DEF Device, ControlInv, TypeOK
  <1>3. Stored' BY <1>1 DEF ControlInv, Stored, ToldRunStored, Between
  <1>4. ~touched' => Follows' BY <1>1, <1>2 DEF ControlInv, Obedient, Follows, Between
  <1> QED BY <1>2, <1>3, <1>4 DEF Obedient, Between

LEMMA UserIs ==
  ASSUME TypeOK, User
  PROVE  taps' \in 0 .. MaxTaps /\ commands' = commands /\ fails' = fails /\ cuts' = cuts
  <1>1. MaxTaps \in Nat BY Zenon
  <1>2. taps \in 0 .. MaxTaps /\ taps < MaxTaps /\ taps' = taps + 1 BY DEF User, TypeOK
  <1>3. taps' \in 0 .. MaxTaps BY ONLY <1>1, <1>2
  <1> QED BY <1>3 DEF User

LEMMA NothingElseIs ==
  ASSUME TypeOK, NothingElse
  PROVE  /\ touch' \in BOOLEAN /\ swarm' \in BOOLEAN /\ run' \in Runs /\ nvs' \in Runs
         /\ resumed' \in BOOLEAN /\ command' \in Commands
         /\ answered' \in Runs /\ open' \in BOOLEAN
  BY DEF NothingElse, node, phone, TypeOK

\* Steps that only move on.
LEMMA PassedKeeps ==
  ASSUME ControlInv, NEW a, NEW b \in {"cli", "scan", "swarm", "lines", "menu"}, Passed(a, b),
         a \notin {"off", "put", "stored"}
  PROVE  ControlInv'
  <1>1. UNCHANGED <<touch, radio, screen, node, phone, touched, session, bounds>> /\ pc = a /\ pc' = b
    BY DEF Passed
  <1>2. TypeOK'
    <2>1. pc' \in {"off", "cli", "scan", "swarm", "lines", "put", "stored", "menu"} BY <1>1
    <2>2. /\ touch' = touch /\ radio' = radio /\ home' = home /\ arm' = arm /\ cursor' = cursor
          /\ swarm' = swarm /\ run' = run /\ nvs' = nvs /\ command' = command /\ resumed' = resumed
          /\ answered' = answered /\ open' = open /\ touched' = touched /\ fresh' = fresh /\ sure' = sure
          /\ taps' = taps /\ commands' = commands /\ fails' = fails /\ cuts' = cuts
      BY <1>1 DEF screen, node, phone, session, bounds
    <2> QED BY <2>1, <2>2, ZenonT(40) DEF ControlInv, TypeOK
  <1>3. Stored' BY <1>1 DEF ControlInv, Stored, ToldRunStored, node, phone
  <1>4. Follows' = Follows BY <1>1 DEF Follows, node
  <1>5. Obedient' BY <1>1, <1>4 DEF ControlInv, Obedient
  <1>6. Guarded' BY <1>1 DEF ControlInv, Guarded, screen, session
  <1> QED BY <1>2, <1>3, <1>5, <1>6 DEF ControlInv

LEMMA CliKeeps == ASSUME ControlInv, Cli PROVE ControlInv'
  <1> USE DEF ControlInv
  <1>0. radio \in Radios BY DEF TypeOK
  <1>1. CASE CliNothing BY <1>1, PassedKeeps DEF CliNothing
  <1> SUFFICES ASSUME pc = "cli", pc' = "scan", User, NothingElse, ~CliNothing PROVE ControlInv'
    BY <1>1 DEF Cli, CliStopScan, CliWardrive, CliJoin, CliUpload, CliGps
  <1>2. Between /\ Between' BY DEF Between
  <1>3. ASSUME NEW r, Calm(radio, r), Device(r), cursor' \in {cursor, Top, "gps back"},
               r.mode = "wardrive" => cursor' \in {cursor, Top}, UNCHANGED <<home, arm, session>>
        PROVE  ControlInv'
    <2>1. r \in Radios /\ radio' = r /\ (radio'.mode = "wardrive" => radio.mode = "wardrive")
      BY <1>3 DEF Calm, Device
    <2>2. radio' \in Radios /\ touched' \in BOOLEAN /\ Stored' /\ Obedient'
      BY <1>2, <1>3, <2>1, DeviceKeeps
    <2>3. cursor' \in Items \cup {"info back", "gps back"} BY <1>3 DEF TypeOK, Top, Items
    <2>4. TypeOK' BY <1>3, <2>2, <2>3, UserIs, NothingElseIs DEF TypeOK, session
    <2>5. Guarded' BY <1>3, <2>1 DEF Guarded, Top, session
    <2> QED BY <2>2, <2>4, <2>5
  <1>4. CASE CliStopScan
    <2>1. PICK r \in {radio, Dropped(radio)} : Device(ScanOff(r)) BY <1>4 DEF CliStopScan
    <2>2. r \in Radios BY <1>0, <2>1, DroppedIs
    <2>3. Calm(radio, ScanOff(r)) BY <2>2, ScanOffIs DEF Calm
    <2> QED BY <1>3, <1>4, <2>1, <2>3 DEF CliStopScan
  <1>5. CASE CliWardrive
    <2>1. ScanOn(radio) \in Radios /\ ScanOn(radio).mode = "wardrive" BY <1>0, ScanOnIs
    <2>2. radio' \in Radios /\ touched' \in BOOLEAN /\ Stored' /\ Obedient'
      BY <1>2, <1>5, <2>1, DeviceKeeps DEF CliWardrive
    <2>3. fresh' \in BOOLEAN /\ sure' \in BOOLEAN
      BY <1>5 DEF CliWardrive, Begins, session, TypeOK
    <2>4. TypeOK' BY <1>5, <2>2, <2>3, UserIs, NothingElseIs DEF TypeOK, CliWardrive, screen
    <2>5. Guarded' BY <1>5 DEF Guarded, CliWardrive, Begins, session, screen
    <2> QED BY <2>2, <2>4, <2>5
  <1>6. CASE CliJoin
    <2>1. PICK r \in SavedJoined(radio) \cup SavedFailed(radio) \cup SameNet(radio) : Device(r)
      BY <1>6 DEF CliJoin
    <2>2. Calm(radio, r) BY <1>0, <2>1, SavedJoinedIs, SavedFailedIs, SameNetIs
    <2> QED BY <1>3, <1>6, <2>1, <2>2 DEF CliJoin
  <1>7. CASE CliUpload
    <2>1. cursor' = cursor /\ UNCHANGED <<home, arm, session>> BY <1>7 DEF CliUpload, screen
    <2>2. CASE \E r \in SavedFailed(radio) : Device(r)
      BY <1>0, <1>3, <2>1, <2>2, SavedFailedIs
    <2>3. CASE \E r \in SavedJoined(radio) : Device(Uploaded(r))
      <3>1. PICK r \in SavedJoined(radio) : Device(Uploaded(r)) BY <2>3
      <3>2. r \in Radios BY <1>0, <3>1, SavedJoinedIs DEF Calm
      <3>3. Calm(radio, Uploaded(r)) BY <3>2, UploadedIs DEF Calm
      <3> QED BY <1>3, <2>1, <3>1, <3>3
    <2> QED BY <1>7, <2>2, <2>3 DEF CliUpload
  <1>8. CASE CliGps
    <2>1. Calm(radio, [radio EXCEPT !.mode = "screen"]) BY <1>0 DEF Calm, Radios
    <2> QED BY <1>3, <1>8, <2>1 DEF CliGps, Radios, Calm
  <1> QED BY <1>1, <1>4, <1>5, <1>6, <1>7, <1>8 DEF Cli

LEMMA MenuKeeps == ASSUME ControlInv, Menu PROVE ControlInv'
  <1> USE DEF ControlInv
  <1>0. radio \in Radios BY DEF TypeOK
  <1>1. CASE MenuNothing BY <1>1, PassedKeeps DEF MenuNothing
  <1>2. CASE ShowHome
    BY <1>2 DEF ShowHome, NothingElse, TypeOK, Stored, ToldRunStored, Obedient, Follows, Guarded,
                node, phone, session, bounds, Items
  <1>3. CASE \E item \in Items : Navigate(item)
    <2>1. PICK item \in Items : Navigate(item) BY <1>3
    <2>2. /\ pc = "menu" /\ pc' = "cli" /\ radio.mode # "wardrive" /\ cursor' \in Items
          /\ UNCHANGED <<touch, node, phone, radio, home, arm, touched, session, bounds>>
      BY <2>1 DEF Navigate, Idle, NothingElse
    <2>3. TypeOK' BY <2>2 DEF TypeOK, node, phone, session, bounds
    <2>4. Stored' BY <2>2 DEF Stored, ToldRunStored, node, phone
    <2>5. Follows' = Follows BY <2>2 DEF Follows, node
    <2>6. Obedient' BY <2>2, <2>5 DEF Obedient
    <2>7. Guarded' BY <2>2 DEF Guarded
    <2> QED BY <2>3, <2>4, <2>6, <2>7
  <1>4. CASE SelectSwarm
    BY <1>4 DEF SelectSwarm, Select, User, TypeOK, Stored, ToldRunStored, Obedient, Follows, Guarded,
                phone, session, Items
  <1>5. CASE SelectArm
    BY <1>5, UserIs DEF SelectArm, Select, NothingElse, TypeOK, Stored, ToldRunStored, Obedient, Follows,
                Guarded, node, phone, Items
  \* In a fresh session only STOP can be selected; what is selected otherwise may
  \* end one that is not.
  <1>6. ASSUME NEW r, Calm(radio, r), Device(r), NothingElse, Select(cursor), cursor # "scan",
               cursor' \in {"back", "info back", "gps back"}, UNCHANGED <<home, arm, session>>
        PROVE  ControlInv'
    <2>1. r \in Radios /\ radio' = r /\ (radio'.mode = "wardrive" => radio.mode = "wardrive")
      BY <1>6 DEF Calm, Device
    <2>2. pc = "menu" /\ pc' = "cli" /\ User /\ (radio.mode = "wardrive" => home) BY <1>6 DEF Select
    <2>3. radio' \in Radios /\ touched' \in BOOLEAN /\ Stored' /\ Obedient'
      BY <1>6, <2>1, <2>2, DeviceKeeps DEF Between
    <2>4. TypeOK' BY <1>6, <2>2, <2>3, UserIs, NothingElseIs DEF TypeOK, session, Items
    <2>5. Guarded' BY <1>6, <2>1, <2>2 DEF Guarded, session
    <2> QED BY <2>3, <2>4, <2>5
  <1>7. CASE SelectStop
    <2>1. ScanOff(radio) \in Radios /\ ScanOff(radio).mode = "off" BY <1>0, ScanOffIs
    <2>2. pc = "menu" /\ pc' = "cli" /\ User BY <1>7 DEF SelectStop, Select
    <2>3. radio' \in Radios /\ touched' \in BOOLEAN /\ Stored' /\ Obedient'
      BY <1>7, <2>1, <2>2, DeviceKeeps DEF Between, SelectStop
    <2>4. TypeOK' BY <1>7, <2>2, <2>3, UserIs, NothingElseIs DEF TypeOK, SelectStop, session
    <2>5. Guarded' BY <1>7, <2>1 DEF Guarded, SelectStop, Device
    <2> QED BY <2>3, <2>4, <2>5
  <1>8. CASE SelectScan
    <2>1. ScanOn(radio) \in Radios /\ ScanOn(radio).mode = "wardrive" BY <1>0, ScanOnIs
    <2>2. pc = "menu" /\ pc' = "cli" /\ User BY <1>8 DEF SelectScan, Select
    <2>3. radio' \in Radios /\ touched' \in BOOLEAN /\ Stored' /\ Obedient'
      BY <1>8, <2>1, <2>2, DeviceKeeps DEF Between, SelectScan
    <2>4. fresh' \in BOOLEAN /\ sure' \in BOOLEAN BY <1>8 DEF SelectScan, Begins
    <2>5. TypeOK' BY <1>8, <2>2, <2>3, <2>4, UserIs, NothingElseIs DEF TypeOK, SelectScan
    <2>6. Guarded' BY <1>8 DEF Guarded, SelectScan
    <2> QED BY <2>3, <2>5, <2>6
  <1>9. CASE SelectSync
    <2>1. PICK r \in AutoConnected(radio) \cup AutoFailed(radio) : Device(r) BY <1>9 DEF SelectSync
    <2>2. Calm(radio, r) BY <1>0, <2>1, AutoConnectedIs, AutoFailedIs
    <2> QED BY <1>6, <1>9, <2>1, <2>2 DEF SelectSync, Select
  <1>10. CASE SelectFile
    <2>1. /\ NothingElse /\ Select(cursor) /\ cursor # "scan" /\ cursor' = "back"
          /\ UNCHANGED <<home, arm, session>>
      BY <1>10 DEF SelectFile, Select
    <2>2. CASE UNCHANGED <<radio, touched>>
      <3>1. Calm(radio, radio) /\ Device(radio) BY <1>0, <2>2 DEF Calm, Device, TypeOK
      <3> QED BY <1>6, <2>1, <3>1
    <2>3. ASSUME NEW r \in Radios, Device(Uploaded(r)) PROVE ControlInv'
      <3>1. Calm(radio, Uploaded(r)) BY <2>3, UploadedIs DEF Calm
      <3> QED BY <1>6, <2>1, <2>3, <3>1
    <2>4. CASE \E r \in AutoConnected(radio) : Device(Uploaded(r))
      <3>1. PICK r \in AutoConnected(radio) : Device(Uploaded(r)) BY <2>4
      <3>2. r \in Radios BY <1>0, <3>1, AutoConnectedIs DEF Calm
      <3> QED BY <2>3, <3>1, <3>2
    <2>5. CASE \E q \in AutoFailed(radio) : \E r \in SavedJoined(q) : Device(Uploaded(r))
      <3>1. PICK q \in AutoFailed(radio) : \E r \in SavedJoined(q) : Device(Uploaded(r)) BY <2>5
      <3>2. q \in Radios BY <1>0, <3>1, AutoFailedIs DEF Calm
      <3>3. PICK r \in SavedJoined(q) : Device(Uploaded(r)) BY <3>1
      <3>4. r \in Radios BY <3>2, <3>3, SavedJoinedIs DEF Calm
      <3> QED BY <2>3, <3>3, <3>4
    <2>6. CASE \E q \in AutoFailed(radio) : \E r \in SavedFailed(q) : Device(r)
      <3>1. PICK q \in AutoFailed(radio) : \E r \in SavedFailed(q) : Device(r) BY <2>6
      <3>2. Calm(radio, q) BY <1>0, <3>1, AutoFailedIs
      <3>3. PICK r \in SavedFailed(q) : Device(r) BY <3>1
      <3>4. Calm(q, r) BY <3>2, <3>3, SavedFailedIs DEF Calm
      <3>5. Calm(radio, r) BY <3>2, <3>4 DEF Calm
      <3> QED BY <1>6, <2>1, <3>3, <3>5
    <2>7. radio.connected /\ Device(Uploaded(radio)) => ControlInv' BY <1>0, <2>3
    <2> QED BY <1>10, <2>2, <2>4, <2>5, <2>6, <2>7 DEF SelectFile
  <1>11. CASE SelectPage
    <2>1. Calm(radio, [radio EXCEPT !.mode = "screen"]) BY <1>0 DEF Calm, Radios
    <2> QED BY <1>6, <1>11, <2>1 DEF SelectPage, Select
  <1>12. CASE SelectPageBack
    <2>1. /\ NothingElse /\ Select(cursor) /\ cursor # "scan" /\ cursor' = "back"
          /\ UNCHANGED <<home, arm, session>>
      BY <1>12 DEF SelectPageBack, Select
    <2> DEFINE q == [radio EXCEPT !.mode = "off"]
    <2>2. q \in Radios /\ q.mode = "off" BY <1>0 DEF Radios
    <2>3. Device(q) \/ Device(ScanOff(q)) BY <1>12 DEF SelectPageBack
    <2> HIDE DEF q
    <2>4. Calm(radio, q) /\ Calm(radio, ScanOff(q)) BY <2>2, ScanOffIs DEF Calm
    <2> QED BY <1>6, <2>1, <2>3, <2>4
  <1> QED BY <1>1, <1>2, <1>3, <1>4, <1>5, <1>7, <1>8, <1>9, <1>10, <1>11, <1>12 DEF Menu

\* What is left of loop(), and what happens by itself: the mode stays.
BoundsOK ==
  /\ taps \in 0 .. MaxTaps /\ commands \in 0 .. MaxCommands
  /\ fails \in 0 .. MaxFails /\ cuts \in 0 .. MaxCuts

LEMMA StillKeeps ==
  ASSUME ControlInv, radio' \in Radios, radio'.mode = radio.mode,
         UNCHANGED <<touch, screen, node, phone, touched, session>>, BoundsOK',
         pc' \in {"off", "cli", "scan", "swarm", "lines", "put", "stored", "menu"},
         pc' = pc \/ (Between /\ Between')
  PROVE  ControlInv'
  <1>1. /\ touch' = touch /\ home' = home /\ arm' = arm /\ cursor' = cursor
        /\ swarm' = swarm /\ run' = run /\ nvs' = nvs /\ command' = command /\ resumed' = resumed
        /\ answered' = answered /\ open' = open /\ touched' = touched /\ fresh' = fresh /\ sure' = sure
    BY DEF screen, node, phone, session
  <1>2. TypeOK' BY <1>1, ZenonT(40) DEF ControlInv, TypeOK, BoundsOK
  <1>3. Stored' BY <1>1 DEF ControlInv, Stored, ToldRunStored, Between
  <1>4. Follows' = Follows BY <1>1 DEF Follows
  <1>5. Obedient' BY <1>1, <1>4 DEF ControlInv, Obedient, Between
  <1>6. Guarded' BY <1>1 DEF ControlInv, Guarded
  <1> QED BY <1>2, <1>3, <1>5, <1>6 DEF ControlInv

LEMMA ScanMainKeeps == ASSUME ControlInv, ScanMain PROVE ControlInv'
  <1>1. radio \in Radios /\ BoundsOK BY DEF ControlInv, TypeOK, BoundsOK
  <1>2. radio' \in Radios /\ radio'.mode = radio.mode BY <1>1, MainStepsAre DEF ScanMain
  <1>3. BoundsOK' BY <1>1 DEF ScanMain, BoundsOK, bounds
  <1> QED BY <1>2, <1>3, StillKeeps DEF ScanMain, Between

LEMMA AloneKeeps == ASSUME ControlInv, FiveMinutes \/ LinkLost PROVE ControlInv'
  <1>1. radio \in Radios /\ BoundsOK BY DEF ControlInv, TypeOK, BoundsOK
  <1>2. radio' \in Radios /\ radio'.mode = radio.mode
    BY <1>1, DroppedIs DEF FiveMinutes, LinkLost, Radios
  <1>3. BoundsOK' BY <1>1 DEF FiveMinutes, LinkLost, BoundsOK, bounds
  <1>4. pc' = pc /\ pc \in {"off", "cli", "scan", "swarm", "lines", "put", "stored", "menu"}
    BY DEF FiveMinutes, LinkLost, ControlInv, TypeOK
  <1>5. UNCHANGED <<touch, screen, node, phone, touched, session>> BY DEF FiveMinutes, LinkLost
  <1> QED BY <1>2, <1>3, <1>4, <1>5, StillKeeps

LEMMA SwarmDownKeeps == ASSUME ControlInv, SwarmDown PROVE ControlInv'
  <1>1. radio \in Radios /\ BoundsOK BY DEF ControlInv, TypeOK, BoundsOK
  <1>2. BoundsOK'
    <2>1. taps' = taps /\ commands' = commands /\ cuts' = cuts BY DEF SwarmDown, bounds
    <2>2. MaxFails \in Nat BY Zenon
    <2>3. fails' = fails \/ (fails < MaxFails /\ fails' = fails + 1) BY DEF SwarmDown, bounds
    <2>4. fails \in 0 .. MaxFails BY <1>1 DEF BoundsOK
    <2>5. fails' \in 0 .. MaxFails BY ONLY <2>2, <2>3, <2>4
    <2> QED BY <1>1, <2>1, <2>5, ZenonT(40) DEF BoundsOK
  <1> QED BY <1>1, <1>2, StillKeeps DEF SwarmDown, Between

---------------------------------------------------------------------------
(* The phone's commands *)

\* A command up to its first write: the run is new, NVS not yet.
LEMMA HeardKeeps ==
  ASSUME ControlInv, Heard, NEW m \in {0} \cup Masks, NEW s \in 0 .. MaxSession, Put(m, s),
         NEW c \in {"run", "stopscan", "wardrive"}, NEW start \in BOOLEAN,
         command' = [c |-> c, m |-> m, start |-> start],
         m # 0 /\ ~start => m = run.m /\ (c # "run" => radio.mode = "wardrive")
  PROVE  ControlInv'
  <1>1. /\ touch' = touch /\ home' = home /\ arm' = arm /\ cursor' = cursor /\ radio' = radio
        /\ swarm' = swarm /\ resumed' = resumed /\ answered' = answered /\ open' = TRUE
        /\ touched' = touched /\ fresh' = fresh /\ sure' = sure /\ pc = "lines" /\ pc' = "put"
        /\ taps' = taps /\ fails' = fails /\ cuts' = cuts
    BY DEF Heard, screen, session
  <1>2. commands' \in 0 .. MaxCommands
    <2>1. MaxCommands \in Nat BY Zenon
    <2>2. commands \in 0 .. MaxCommands /\ commands < MaxCommands /\ commands' = commands + 1
      BY DEF ControlInv, TypeOK, Heard
    <2> QED BY ONLY <2>1, <2>2
  <1>3. run' \in Runs /\ nvs' \in Runs /\ run'.m = m /\ nvs'.m = m
    BY DEF Put, ControlInv, TypeOK, Runs
  <1>4. command' \in Commands /\ command'.c = c /\ command'.m = m /\ command'.start = start
    BY DEF Commands
  <1>5. TypeOK' BY <1>1, <1>2, <1>3, <1>4, ZenonT(40) DEF ControlInv, TypeOK
  <1>6. Stored' BY <1>1, <1>3, <1>4 DEF Stored, ToldRunStored
  <1>7. ~touched => Follows BY <1>1 DEF ControlInv, Obedient
  <1>8. Obedient' BY <1>1, <1>3, <1>4, <1>7 DEF Obedient, Follows
  <1>9. Guarded' BY <1>1 DEF ControlInv, Guarded
  <1> QED BY <1>5, <1>6, <1>8, <1>9 DEF ControlInv

LEMMA PutSessionKeeps == ASSUME ControlInv, PutSession PROVE ControlInv'
  <1>1. /\ touch' = touch /\ home' = home /\ arm' = arm /\ cursor' = cursor /\ radio' = radio
        /\ swarm' = swarm /\ resumed' = resumed /\ answered' = answered /\ open' = open
        /\ run' = run /\ command' = command
        /\ touched' = touched /\ fresh' = fresh /\ sure' = sure /\ pc = "put" /\ pc' = "stored"
        /\ taps' = taps /\ commands' = commands /\ fails' = fails /\ cuts' = cuts
    BY DEF PutSession, screen, phone, session, bounds
  <1>2. nvs' \in Runs /\ nvs' = run
    BY <1>1 DEF PutSession, ControlInv, TypeOK, Stored, Runs
  <1>3. TypeOK' BY <1>1, <1>2, ZenonT(40) DEF ControlInv, TypeOK
  <1>4. Stored' BY <1>1, <1>2 DEF ControlInv, Stored, ToldRunStored
  <1>5. Follows' = Follows BY <1>1 DEF Follows
  <1>6. Obedient' BY <1>1, <1>5 DEF ControlInv, Obedient
  <1>7. Guarded' BY <1>1 DEF ControlInv, Guarded
  <1> QED BY <1>3, <1>4, <1>6, <1>7 DEF ControlInv

LEMMA AnswerKeeps == ASSUME ControlInv, Answer PROVE ControlInv'
  <1>1. /\ touch' = touch /\ arm' = arm /\ swarm' = swarm /\ run' = run /\ nvs' = nvs
        /\ resumed' = resumed /\ pc = "stored" /\ pc' = "lines" /\ open' = FALSE /\ answered' = run
        /\ command' = NoCommand
        /\ taps' = taps /\ commands' = commands /\ fails' = fails /\ cuts' = cuts
    BY DEF Answer, bounds
  <1>2. NoCommand \in Commands BY DEF NoCommand, Commands
  <1>3. nvs = run /\ run.m = command.m /\ radio \in Radios BY <1>1 DEF ControlInv, Stored, TypeOK
  <1>4. Stored' BY <1>1, <1>3 DEF Stored, ToldRunStored
  <1>5. SUFFICES /\ radio' \in Radios /\ home' \in BOOLEAN /\ cursor' \in Items \cup {"info back", "gps back"}
                 /\ touched' \in BOOLEAN /\ fresh' \in BOOLEAN /\ sure' \in BOOLEAN
                 /\ (~touched' => Follows') /\ Guarded'
    <2>1. answered' \in Runs BY <1>1 DEF ControlInv, TypeOK
    <2>2. command' \in Commands BY <1>1, <1>2 DEF NoCommand
    <2>4. TypeOK' BY <1>1, <1>5, <2>1, <2>2, ZenonT(40) DEF ControlInv, TypeOK
    <2>3. Obedient' BY <1>1, <1>5 DEF Obedient
    <2> QED BY <1>4, <1>5, <2>3, <2>4 DEF ControlInv
  <1>6. CASE command.m = 0
    <2>1. radio' = ScanOff(radio) /\ home' = FALSE /\ cursor' = Top /\ touched' = FALSE /\ UNCHANGED session
      BY <1>6 DEF Answer
    <2>2. radio' \in Radios /\ radio'.mode = "off" BY <1>3, <2>1, ScanOffIs
    <2>3. cursor' \in Items \cup {"info back", "gps back"} BY <2>1 DEF Top, Items
    <2>4. fresh' \in BOOLEAN /\ sure' \in BOOLEAN BY <2>1 DEF session, ControlInv, TypeOK
    <2>5. Follows' BY <1>1, <1>3, <1>6, <2>2 DEF Follows
    <2>6. Guarded' BY <2>2 DEF Guarded
    <2> QED BY <2>1, <2>2, <2>3, <2>4, <2>5, <2>6
  <1>7. CASE command.m # 0 /\ command.start
    <2>1. /\ radio' = ScanOn(radio) /\ Begins(home, arm) /\ touched' = FALSE
          /\ home' = home /\ cursor' = cursor
      BY <1>7 DEF Answer
    <2>2. radio' \in Radios /\ radio'.mode = "wardrive" BY <1>3, <2>1, ScanOnIs
    <2>3. fresh' \in BOOLEAN /\ sure' \in BOOLEAN BY <2>1 DEF Begins, session, ControlInv, TypeOK
    <2>4. Follows' BY <1>1, <1>3, <1>7, <2>2 DEF Follows
    <2>5. Guarded' BY <1>1, <2>1 DEF Guarded, Begins, session, ControlInv
    <2>6. home' \in BOOLEAN /\ cursor' \in Items \cup {"info back", "gps back"}
      BY <2>1 DEF ControlInv, TypeOK
    <2> QED BY <2>1, <2>2, <2>3, <2>4, <2>5, <2>6
  <1>8. CASE command.m # 0 /\ ~command.start
    <2>1. /\ touched' = (touched /\ command.c = "run") /\ radio' = radio /\ home' = home
          /\ cursor' = cursor /\ fresh' = fresh /\ sure' = sure
      BY <1>8 DEF Answer, session
    <2>2. /\ home' \in BOOLEAN /\ cursor' \in Items \cup {"info back", "gps back"}
          /\ fresh' \in BOOLEAN /\ sure' \in BOOLEAN /\ touched' \in BOOLEAN
      BY <2>1 DEF ControlInv, TypeOK
    <2>3. IF command.c = "run" THEN ~touched => Follows ELSE radio.mode = "wardrive"
      BY <1>1, <1>8 DEF ControlInv, Obedient
    <2>4. ~touched' => Follows' BY <1>1, <1>3, <1>8, <2>1, <2>3 DEF Follows
    <2>5. Guarded' BY <1>1, <2>1 DEF Guarded, ControlInv
    <2> QED BY <1>3, <2>1, <2>2, <2>4, <2>5
  <1> QED BY <1>6, <1>7, <1>8, <1>3 DEF Answer

\* The boot resume: what has not begun is begun.
LEMMA ResumeKeeps == ASSUME ControlInv, Resume PROVE ControlInv'
  <1> DEFINE starts == ~resumed /\ run.m # 0 /\ radio.mode = "off"
  <1>1. /\ touch' = touch /\ home' = home /\ arm' = arm /\ cursor' = cursor /\ swarm' = swarm
        /\ run' = run /\ nvs' = nvs /\ command' = command /\ answered' = answered /\ open' = open
        /\ touched' = touched /\ resumed' = TRUE /\ pc = "lines" /\ pc' = "menu"
        /\ taps' = taps /\ commands' = commands /\ fails' = fails /\ cuts' = cuts
    BY DEF Resume, screen, phone, bounds
  <1>2. /\ starts => radio' = ScanOn(radio) /\ Begins(home, arm)
        /\ ~starts => radio' = radio /\ UNCHANGED session
    BY DEF Resume
  <1>3. radio \in Radios BY DEF ControlInv, TypeOK
  <1>4. radio' \in Radios /\ (starts => radio'.mode = "wardrive") BY <1>2, <1>3, ScanOnIs
  <1>5. fresh' \in BOOLEAN /\ sure' \in BOOLEAN BY <1>2 DEF Begins, session, ControlInv, TypeOK
  <1>6. TypeOK' BY <1>1, <1>4, <1>5, ZenonT(40) DEF ControlInv, TypeOK
  <1>7. Stored' BY <1>1 DEF ControlInv, Stored, ToldRunStored
  <1>8. Obedient'
    <2>1. ~touched => Follows BY <1>1 DEF ControlInv, Obedient
    <2>2. ~touched' => Follows'
      <3>1. CASE starts BY <1>1, <1>4, <3>1 DEF Follows
      <3>2. CASE ~starts BY <1>1, <1>2, <2>1, <3>2 DEF Follows
      <3> QED BY <3>1, <3>2
    <2> QED BY <1>1, <2>2 DEF Obedient
  <1>9. Guarded'
    <2>1. CASE starts
      <3>1. fresh' => ~home /\ ~arm BY <1>2, <2>1 DEF Begins
      <3> QED BY <1>1, <3>1 DEF Guarded
    <2>2. CASE ~starts
      <3>1. radio' = radio /\ fresh' = fresh /\ sure' = sure BY <1>2, <2>2 DEF session
      <3>2. Guarded BY DEF ControlInv
      <3> QED BY <1>1, <3>1, <3>2 DEF Guarded
    <2> QED BY <2>1, <2>2
  <1> QED BY <1>6, <1>7, <1>8, <1>9 DEF ControlInv

LEMMA SwarmKeeps == ASSUME ControlInv, Swarm PROVE ControlInv'
  <1>0. run \in Runs /\ Sessions \subseteq 0 .. MaxSession BY Zenon DEF ControlInv, TypeOK
  <1>1. ASSUME NEW m \in {0} \cup Masks, NEW s \in Sessions, HearRun(m, s) PROVE ControlInv'
    <2> DEFINE start == m # run.m \/ s # run.s
    <2>1. s \in 0 .. MaxSession BY <1>0
    <2>2. Heard /\ Put(m, s) /\ command' = [c |-> "run", m |-> m, start |-> start]
      BY <1>1 DEF HearRun
    <2>3. start \in BOOLEAN /\ (~start => m = run.m) OBVIOUS
    <2> HIDE DEF start
    <2> QED BY <2>1, <2>2, <2>3, HeardKeeps
  <1>2. CASE HearStopScan
    <2>1. run.s \in 0 .. MaxSession BY <1>0 DEF Runs
    <2>2. Heard /\ Put(0, run.s) /\ command' = [c |-> "stopscan", m |-> 0, start |-> FALSE]
      BY <1>2 DEF HearStopScan
    <2> QED BY <2>1, <2>2, HeardKeeps
  <1>3. ASSUME NEW m \in Masks, HearWardrive(m) PROVE ControlInv'
    <2> DEFINE start == m # run.m \/ radio.mode # "wardrive"
    <2>1. run.s + 1 \in 0 .. MaxSession
      <3>1. MaxSession \in Nat BY Zenon
      <3>2. run.s \in 0 .. MaxSession /\ run.s < MaxSession BY <1>0, <1>3 DEF Runs, HearWardrive
      <3> QED BY ONLY <3>1, <3>2
    <2>2. Heard /\ Put(m, run.s + 1) /\ command' = [c |-> "wardrive", m |-> m, start |-> start]
      BY <1>3 DEF HearWardrive
    <2>3. start \in BOOLEAN /\ (~start => m = run.m /\ radio.mode = "wardrive") OBVIOUS
    <2> HIDE DEF start
    <2> QED BY <2>1, <2>2, <2>3, HeardKeeps
  <1>4. CASE SwarmUp BY <1>4, PassedKeeps DEF SwarmUp
  <1> QED BY <1>1, <1>2, <1>3, <1>4, SwarmDownKeeps, PutSessionKeeps, AnswerKeeps, ResumeKeeps DEF Swarm

---------------------------------------------------------------------------
(* The power *)

LEMMA BootKeeps == ASSUME ControlInv, Boot PROVE ControlInv'
  <1>1. /\ touch' = touch /\ home' = FALSE /\ arm' = FALSE /\ cursor' = "scan" /\ swarm' = swarm
        /\ run' = nvs /\ nvs' = nvs /\ command' = NoCommand /\ answered' = answered /\ open' = open
        /\ touched' = FALSE /\ resumed' = FALSE /\ pc' = "cli" /\ fresh' = fresh /\ sure' = sure
        /\ taps' = taps /\ commands' = commands /\ fails' = fails /\ cuts' = cuts
    BY DEF Boot, phone, session, bounds
  <1>2. PICK r \in AutoConnected(Silent) \cup AutoFailed(Silent) : radio' = ScanOff(r) BY DEF Boot
  <1>3. Silent \in Radios BY DEF Silent, Radios
  <1>4. r \in Radios BY <1>3, AutoConnectedIs, AutoFailedIs DEF Calm
  <1>5. radio' \in Radios /\ radio'.mode = "off" BY <1>2, <1>4, ScanOffIs
  <1>6. command' \in Commands BY <1>1 DEF NoCommand, Commands
  <1>7. cursor' \in Items BY <1>1 DEF Items
  <1>8. TypeOK' BY <1>1, <1>5, <1>6, <1>7, ZenonT(40) DEF ControlInv, TypeOK
  <1>9. Stored' BY <1>1 DEF ControlInv, Stored, ToldRunStored
  <1>10. Obedient' BY <1>1, <1>5 DEF Obedient, Follows
  <1>11. Guarded' BY <1>5 DEF Guarded
  <1> QED BY <1>8, <1>9, <1>10, <1>11 DEF ControlInv

LEMMA PowerCutKeeps == ASSUME ControlInv, PowerCut PROVE ControlInv'
  <1>1. /\ touch' = touch /\ home' = home /\ arm' = arm /\ cursor' = cursor /\ swarm' = swarm
        /\ run' = run /\ nvs' = nvs /\ command' = command /\ answered' = answered /\ open' = open
        /\ touched' = touched /\ resumed' = resumed /\ pc' = "off" /\ fresh' = fresh /\ sure' = sure
        /\ taps' = taps /\ commands' = commands /\ fails' = fails
    BY DEF PowerCut, screen, node, phone, session
  <1>2. cuts' \in 0 .. MaxCuts
    <2>1. MaxCuts \in Nat BY Zenon
    <2>2. cuts \in 0 .. MaxCuts /\ cuts < MaxCuts /\ cuts' = cuts + 1
      BY DEF PowerCut, ControlInv, TypeOK
    <2> QED BY ONLY <2>1, <2>2
  <1>3. radio' \in Radios /\ radio'.mode = "off" BY DEF PowerCut, Silent, Radios
  <1>4. TypeOK' BY <1>1, <1>2, <1>3, ZenonT(40) DEF ControlInv, TypeOK
  <1>5. Stored' BY <1>1 DEF ControlInv, Stored, ToldRunStored
  <1>6. Obedient' BY <1>1 DEF Obedient
  <1>7. Guarded' BY <1>3 DEF Guarded
  <1> QED BY <1>4, <1>5, <1>6, <1>7 DEF ControlInv

LEMMA StepKeeps == ASSUME ControlInv, [Next]_vars PROVE ControlInv'
  <1>1. CASE UNCHANGED vars
    <2>1. /\ UNCHANGED <<touch, screen, node, phone, touched, session>> /\ radio' = radio /\ pc' = pc
          /\ UNCHANGED bounds
      BY <1>1 DEF vars
    <2>2. radio \in Radios /\ BoundsOK /\ pc \in {"off", "cli", "scan", "swarm", "lines", "put", "stored", "menu"}
      BY DEF ControlInv, TypeOK, BoundsOK
    <2>3. BoundsOK' BY <2>1, <2>2 DEF BoundsOK, bounds
    <2> QED BY <2>1, <2>2, <2>3, StillKeeps
  <1> QED BY <1>1, CliKeeps, ScanMainKeeps, SwarmKeeps, MenuKeeps, BootKeeps, PowerCutKeeps, AloneKeeps
      DEF Next, Loop

LEMMA ControlInvariant == Spec => []ControlInv
  <1>1. Init => ControlInv BY InitControl
  <1>2. ControlInv /\ [Next]_vars => ControlInv' BY StepKeeps
  <1> QED BY <1>1, <1>2, PTL DEF Spec

---------------------------------------------------------------------------
(* Theorems *)

\* The model's variables keep their types.
THEOREM ControlTypes == Spec => []TypeOK
  <1>1. ControlInv => TypeOK BY DEF ControlInv
  <1> QED BY <1>1, ControlInvariant, PTL

\* What the phone was last told is what a reboot will find, wherever the power
\* went between saveRun's two writes and the answer.
THEOREM ControlToldRunStored == Spec => []ToldRunStored
  <1>1. ControlInv => ToldRunStored BY DEF ControlInv, Stored
  <1> QED BY <1>1, ControlInvariant, PTL

\* Busy means that the device wardrives and Ready that it does not, over reboots
\* too, as long as nobody used the device itself.
THEOREM ControlToldIsTrue == Spec => []ToldIsTrue
  <1>1. ControlInv => ToldIsTrue
    <2>1. SUFFICES ASSUME ControlInv, resumed, pc # "off", ~open, ~touched
                   PROVE  radio.mode = "wardrive" <=> answered.m # 0
      BY DEF ToldIsTrue
    <2>2. pc \notin {"off", "put", "stored"} BY <2>1 DEF ControlInv, Stored
    <2>3. Follows BY <2>1, <2>2 DEF ControlInv, Obedient
    <2>4. answered = run BY <2>1, <2>2 DEF ControlInv, Stored, ToldRunStored
    <2> QED BY <2>1, <2>3, <2>4 DEF Follows
  <1> QED BY <1>1, ControlInvariant, PTL

\* In a session that began with the session screen up and STOP unarmed no tap
\* ends it before STOP was tapped once.
THEOREM ControlStrayTaps == Spec => StrayTapsKeepFreshSession
  <1>1. ControlInv /\ [Next]_vars => [EndedByTap /\ fresh => sure]_vars
    <2>1. SUFFICES ASSUME ControlInv, Next, EndedByTap, fresh PROVE sure
      OBVIOUS
    <2>2. pc = "menu" /\ pc' = "cli" /\ radio.mode = "wardrive" /\ radio'.mode # "wardrive"
      BY <2>1 DEF EndedByTap
    <2>3. (home => cursor = "scan") /\ (arm => sure) BY <2>1, <2>2 DEF ControlInv, Guarded
    <2>4. ~Cli /\ ~ScanMain /\ ~Boot /\ ~PowerCut
      BY <2>2 DEF Cli, CliNothing, Passed, CliStopScan, CliWardrive, CliJoin, CliUpload, CliGps, ScanMain,
                  Boot, PowerCut
    <2>5. ~Swarm
      BY <2>2 DEF Swarm, SwarmDown, SwarmUp, Passed, HearRun, HearStopScan, HearWardrive, Heard, PutSession,
                  Answer, Resume
    <2>6. ~FiveMinutes /\ ~LinkLost BY <2>2 DEF FiveMinutes, LinkLost
    <2>7. Menu BY <2>1, <2>4, <2>5, <2>6 DEF Next, Loop
    <2>8. ASSUME NEW item, Select(item) PROVE item = "scan"
      BY <2>2, <2>3, <2>8 DEF Select
    <2>9. ~SelectSync /\ ~SelectFile /\ ~SelectPage /\ ~SelectPageBack /\ ~SelectSwarm
      BY <2>8 DEF SelectSync, SelectFile, SelectPage, SelectPageBack, SelectSwarm
    <2>10. ~MenuNothing /\ ~ShowHome /\ ~SelectArm /\ ~\E item \in Items : Navigate(item)
      BY <2>2 DEF MenuNothing, Passed, ShowHome, SelectArm, Navigate
    <2>11. ~SelectScan BY <2>2 DEF SelectScan
    <2>12. SelectStop BY <2>7, <2>9, <2>10, <2>11 DEF Menu
    <2> QED BY <2>3, <2>12 DEF SelectStop
  <1>2. Spec => [][EndedByTap /\ fresh => sure]_vars BY <1>1, ControlInvariant, PTL DEF Spec
  <1> QED BY <1>2 DEF StrayTapsKeepFreshSession
===========================================================================
