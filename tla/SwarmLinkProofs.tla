-------------------------- MODULE SwarmLinkProofs --------------------------
(***************************************************************************)
(* The safety of the link, for every set of handles and every _inBuf: the  *)
(* flags and the stack keep their types, _connected is never true without  *)
(* a link behind it, and the radio is quiet while an upload has it.        *)
(***************************************************************************)
EXTENDS SwarmLink, TLAPS

\* UploadQuiet does not need to know that Swarm was suspended: only
\* SuspendDeinit leads to "upload", and nothing comes up again before Resume.
Quiet == pc = "upload" => ~stack /\ ~adv /\ ~AnyLink /\ ~connected /\ ~proven

LinkInv == TypeOK /\ ConnectedIsReal /\ Quiet

USE HandleAssumption, BufferAssumption, PhoneAssumption

\* At power-on nothing is up.
LEMMA InitLink == Init => LinkInv
  <1> SUFFICES ASSUME Init PROVE LinkInv
    OBVIOUS
  <1>1. <<>> \in Seq(Commands) /\ Len(<<>>) = 0
    OBVIOUS
  <1>2. link \in [Handles -> {"free", "open", "closing"}] /\ spoke \in [Handles -> BOOLEAN]
    BY DEF Init
  <1>3. inBuf \in Seq(Commands) /\ Len(inBuf) <= InBuf
    BY <1>1 DEF Init
  <1>4. connHandle \in Handles /\ pc = "loop" BY DEF Init
  <1>5. /\ stack \in BOOLEAN /\ adv \in BOOLEAN /\ suspended \in BOOLEAN
        /\ bleUp \in BOOLEAN /\ connected \in BOOLEAN /\ proven \in BOOLEAN
        /\ elapsed \in BOOLEAN /\ aged \in BOOLEAN /\ ahead \in BOOLEAN
        /\ enabled \in BOOLEAN /\ scanBle \in BOOLEAN
    BY DEF Init
  <1>6. TypeOK BY <1>2, <1>3, <1>4, <1>5 DEF TypeOK
  <1> QED BY <1>6 DEF Init, LinkInv, ConnectedIsReal, Quiet

\* onCommandWrite keeps _inBuf within its 512 characters.
LEMMA AddLineFits ==
  ASSUME TypeOK, NEW c \in Commands
  PROVE  AddLine(c) \in Seq(Commands) /\ Len(AddLine(c)) <= InBuf
  <1>1. inBuf \in Seq(Commands) /\ Len(inBuf) \in Nat /\ Len(inBuf) <= InBuf
    BY DEF TypeOK
  <1>2. CASE Len(inBuf) < InBuf
    <2>1. Append(inBuf, c) \in Seq(Commands) /\ Len(Append(inBuf, c)) = Len(inBuf) + 1
      BY <1>1
    <2> QED BY <1>1, <1>2, <2>1 DEF AddLine
  <1>3. CASE ~(Len(inBuf) < InBuf)
    <2>1. inBuf # <<>> BY <1>1, <1>3
    <2>2. Tail(inBuf) \in Seq(Commands) /\ Len(Tail(inBuf)) = Len(inBuf) - 1
      BY <1>1, <2>1
    <2>3. /\ Append(Tail(inBuf), c) \in Seq(Commands)
          /\ Len(Append(Tail(inBuf), c)) = Len(Tail(inBuf)) + 1
      BY <2>2
    <2> QED BY <1>1, <1>3, <2>2, <2>3 DEF AddLine
  <1> QED BY <1>2, <1>3

\* Whatever the host task does between two steps of loop().
LEMMA HostKeepsLink ==
  ASSUME LinkInv, Host \/ Elapse
  PROVE  LinkInv'
  <1> USE DEF LinkInv
  <1>1. ASSUME NEW h \in Handles, Connect(h) PROVE LinkInv'
    BY <1>1 DEF Connect, Stamp, TypeOK, ConnectedIsReal, Quiet, system
  <1>2. ASSUME NEW h \in Handles, Vanish(h) PROVE LinkInv'
    <2>1. TypeOK' BY <1>2 DEF Vanish, TypeOK, flags, silence, system
    <2>2. ConnectedIsReal' BY <1>2 DEF Vanish, TypeOK, ConnectedIsReal, flags
    <2>3. Quiet' BY <1>2 DEF Vanish, Quiet, AnyLink
    <2> QED BY <2>1, <2>2, <2>3
  <1>3. ASSUME NEW h \in Handles, LinkEnds(h) PROVE LinkInv'
    <2>1. TypeOK' BY <1>3, ZenonT(40) DEF LinkEnds, OnDisconnect, TypeOK, silence, system
    <2>2. ConnectedIsReal' BY <1>3 DEF LinkEnds, OnDisconnect, ConnectedIsReal
    <2>3. Quiet' BY <1>3 DEF LinkEnds, Quiet, AnyLink
    <2> QED BY <2>1, <2>2, <2>3
  <1>4. ASSUME NEW h \in Handles, NEW c \in Commands, Write(h, c) PROVE LinkInv'
    <2>1. AddLine(c) \in Seq(Commands) /\ Len(AddLine(c)) <= InBuf
      BY AddLineFits
    <2>2. inBuf' \in Seq(Commands) /\ Len(inBuf') <= InBuf
      BY <1>4, <2>1 DEF Write, TypeOK
    <2>3. TypeOK'
      BY <1>4, <2>2, ZenonT(40) DEF Write, Stamp, TypeOK, stackVars, flags, system
    <2>4. ConnectedIsReal' /\ Quiet'
      BY <1>4 DEF Write, ConnectedIsReal, Quiet, AnyLink, stackVars, flags
    <2> QED BY <2>3, <2>4
  <1>5. CASE Elapse
    BY <1>5 DEF Elapse, TypeOK, ConnectedIsReal, Quiet, AnyLink, stackVars, flags, system
  <1> QED BY <1>1, <1>2, <1>3, <1>4, <1>5 DEF Host

\* What Teardown and ShutdownBLE leave behind.
LEMMA TeardownType ==
  ASSUME TypeOK, Teardown
  PROVE  link' \in [Handles -> {"free", "open", "closing"}] /\ ~connected' /\ ~proven' /\ ~adv'
  BY DEF Teardown, Disconnected, TypeOK

LEMMA ShutdownLeaves ==
  ASSUME TypeOK, ConnectedIsReal, ShutdownBLE, UNCHANGED connHandle
  PROVE  /\ link' \in [Handles -> {"free", "open", "closing"}]
         /\ stack' \in BOOLEAN /\ adv' \in BOOLEAN /\ scanBle' \in BOOLEAN
         /\ connected' \in BOOLEAN /\ proven' \in BOOLEAN
         /\ ConnectedIsReal'
  <1>1. CASE scanBle
    <2>1. /\ stack' = FALSE /\ adv' = FALSE /\ scanBle' = FALSE
          /\ link' = [h \in Handles |-> "free"]
      BY <1>1 DEF ShutdownBLE, Deinit
    <2>2. connected' = FALSE /\ proven' \in BOOLEAN
      BY <1>1 DEF ShutdownBLE, ReportEnds, OnDisconnect, AnyLink, ConnectedIsReal, TypeOK
    <2> QED BY <2>1, <2>2 DEF ConnectedIsReal
  <1>2. CASE ~scanBle
    BY <1>2 DEF ShutdownBLE, TypeOK, ConnectedIsReal, stackVars
  <1> QED BY <1>1, <1>2 DEF TypeOK

\* Taking a line off _inBuf.
LEMMA LineTaken ==
  ASSUME TypeOK, NEW c, NextLine(c)
  PROVE  inBuf' \in Seq(Commands) /\ Len(inBuf') <= InBuf
  <1>1. inBuf \in Seq(Commands) /\ inBuf # <<>> /\ Len(inBuf) <= InBuf
    BY DEF NextLine, TypeOK
  <1>2. Tail(inBuf) \in Seq(Commands) /\ Len(Tail(inBuf)) = Len(inBuf) - 1
    BY <1>1
  <1> QED BY <1>1, <1>2 DEF NextLine

\* The commands of the phone.
LEMMA LinesKeepLink ==
  ASSUME LinkInv, HandleLine
  PROVE  LinkInv'
  <1> USE DEF LinkInv
  <1>1. CASE HandleHello
    <2>1. inBuf' \in Seq(Commands) /\ Len(inBuf') <= InBuf
      BY <1>1, LineTaken DEF HandleHello
    <2> QED BY <1>1, <2>1
        DEF HandleHello, NextLine, Stamp, TypeOK, ConnectedIsReal, Quiet, stackVars, system
  <1>2. CASE HandleRefused
    <2>1. inBuf' \in Seq(Commands) /\ Len(inBuf') <= InBuf
      BY <1>2, LineTaken DEF HandleRefused
    <2>2. pc = "lines" BY <1>2 DEF HandleRefused, NextLine
    <2> QED BY <1>2, <2>1, <2>2
        DEF HandleRefused, TypeOK, ConnectedIsReal, Quiet, stackVars, flags, silence, system
  <1>3. CASE HandleSlot
    <2>1. inBuf' \in Seq(Commands) /\ Len(inBuf') <= InBuf
      BY <1>3, LineTaken DEF HandleSlot
    <2> QED BY <1>3, <2>1
        DEF HandleSlot, NextLine, TypeOK, ConnectedIsReal, Quiet, flags, silence, system
  <1>4. CASE HandleStop
    <2>1. inBuf' \in Seq(Commands) /\ Len(inBuf') <= InBuf
      BY <1>4, LineTaken DEF HandleStop
    <2>2. ShutdownBLE /\ UNCHANGED connHandle BY <1>4 DEF HandleStop
    <2>3. /\ link' \in [Handles -> {"free", "open", "closing"}]
          /\ stack' \in BOOLEAN /\ adv' \in BOOLEAN /\ scanBle' \in BOOLEAN
          /\ connected' \in BOOLEAN /\ proven' \in BOOLEAN /\ ConnectedIsReal'
      BY <2>2, ShutdownLeaves
    <2>4. TypeOK' BY <1>4, <2>1, <2>3 DEF HandleStop, TypeOK, silence
    <2>5. Quiet' BY <1>4 DEF HandleStop, NextLine, Quiet
    <2> QED BY <2>3, <2>4, <2>5
  <1>5. CASE HandleStart
    <2>1. inBuf' \in Seq(Commands) /\ Len(inBuf') <= InBuf
      BY <1>5, LineTaken DEF HandleStart
    <2> QED BY <1>5, <2>1
        DEF HandleStart, StartBLE, NextLine, TypeOK, ConnectedIsReal, Quiet, silence
  <1> QED BY <1>1, <1>2, <1>3, <1>4, <1>5 DEF HandleLine

\* The rest of SwarmNode::main.
LEMMA TickKeepsLink ==
  ASSUME LinkInv, Tick
  PROVE  LinkInv'
  <1> USE DEF LinkInv
  <1>1. CASE LoopBegins
    BY <1>1 DEF LoopBegins, TypeOK, ConnectedIsReal, Quiet, stackVars, flags, system
  <1>2. CASE TickDisabled
    <2>1. link' \in [Handles -> {"free", "open", "closing"}] /\ ~connected' /\ ~proven' /\ ~adv'
      BY <1>2, TeardownType DEF TickDisabled
    <2>2. adv' \in BOOLEAN /\ connected' \in BOOLEAN /\ proven' \in BOOLEAN
      BY <1>2 DEF TickDisabled, Teardown
    <2> QED BY <1>2, <2>1, <2>2 DEF TickDisabled, TypeOK, ConnectedIsReal, Quiet, silence, system
  <1>3. CASE TickBuild
    BY <1>3 DEF TickBuild, TypeOK, ConnectedIsReal, Quiet, silence, system
  <1>4. CASE TickWatchdog
    BY <1>4 DEF TickWatchdog, TypeOK, ConnectedIsReal, Quiet, flags, silence, system
  <1>5. CASE HandleLine BY <1>5, LinesKeepLink
  <1>6. CASE LinesDone
    BY <1>6 DEF LinesDone, TypeOK, ConnectedIsReal, Quiet, stackVars, flags, silence, system
  <1>7. CASE DropSilent
    <2>1. link' \in [Handles -> {"free", "open", "closing"}]
      BY <1>7 DEF DropSilent, Disconnected, TypeOK
    <2> QED BY <1>7, <2>1, ZenonT(40) DEF DropSilent, TypeOK, ConnectedIsReal, Quiet, silence, system
  <1>8. CASE KeepLink
    BY <1>8 DEF KeepLink, TypeOK, ConnectedIsReal, Quiet, stackVars, flags, silence, system
  <1> QED BY <1>1, <1>2, <1>3, <1>4, <1>5, <1>6, <1>7, <1>8 DEF Tick

\* The menu, and an upload.
LEMMA MenuKeepsLink ==
  ASSUME LinkInv, Menu \/ Upload
  PROVE  LinkInv'
  <1> USE DEF LinkInv
  <1>1. CASE MenuNothing
    BY <1>1 DEF MenuNothing, TypeOK, ConnectedIsReal, Quiet, stackVars, flags, silence, system
  <1>2. CASE MenuToggle
    BY <1>2 DEF MenuToggle, TypeOK, ConnectedIsReal, Quiet, stackVars, flags, silence
  <1>3. ASSUME MenuScan, ShutdownBLE PROVE LinkInv'
    <2>1. UNCHANGED <<connHandle, bleUp, inBuf, suspended, silence, enabled, spoke>>
      BY <1>3 DEF MenuScan
    <2>2. pc' = "loop" BY <1>3 DEF MenuScan
    <2>3. /\ link' \in [Handles -> {"free", "open", "closing"}]
          /\ stack' \in BOOLEAN /\ adv' \in BOOLEAN /\ scanBle' \in BOOLEAN
          /\ connected' \in BOOLEAN /\ proven' \in BOOLEAN /\ ConnectedIsReal'
      BY <1>3, <2>1, ShutdownLeaves
    <2>4. TypeOK' BY <2>1, <2>2, <2>3 DEF TypeOK, silence
    <2> QED BY <2>2, <2>3, <2>4 DEF Quiet
  <1>4. CASE MenuScan /\ StartBLE
    BY <1>4 DEF MenuScan, StartBLE, TypeOK, ConnectedIsReal, Quiet, silence
  <1>5. CASE SuspendTeardown
    <2>1. link' \in [Handles -> {"free", "open", "closing"}] /\ ~connected' /\ ~proven' /\ ~adv'
      BY <1>5, TeardownType DEF SuspendTeardown
    <2>2. adv' \in BOOLEAN /\ connected' \in BOOLEAN /\ proven' \in BOOLEAN
      BY <1>5 DEF SuspendTeardown, Teardown
    <2> QED BY <1>5, <2>1, <2>2
        DEF SuspendTeardown, TypeOK, ConnectedIsReal, Quiet, silence, system
  <1>6. CASE SuspendDeinit
    BY <1>6 DEF SuspendDeinit, Deinit, TypeOK, ConnectedIsReal, Quiet, AnyLink, silence, system
  <1>7. CASE Resume
    BY <1>7 DEF Resume, TypeOK, ConnectedIsReal, Quiet, stackVars, flags, silence, system
  <1>8. ASSUME UploadsDone, ShutdownBLE PROVE LinkInv'
    <2>1. UNCHANGED <<connHandle, bleUp, inBuf, suspended, silence, enabled, spoke>>
      BY <1>8 DEF UploadsDone
    <2>2. pc' = "loop" BY <1>8 DEF UploadsDone
    <2>3. /\ link' \in [Handles -> {"free", "open", "closing"}]
          /\ stack' \in BOOLEAN /\ adv' \in BOOLEAN /\ scanBle' \in BOOLEAN
          /\ connected' \in BOOLEAN /\ proven' \in BOOLEAN /\ ConnectedIsReal'
      BY <1>8, <2>1, ShutdownLeaves
    <2>4. TypeOK' BY <2>1, <2>2, <2>3 DEF TypeOK, silence
    <2> QED BY <2>2, <2>3, <2>4 DEF Quiet
  <1>9. CASE UploadsDone /\ UNCHANGED <<stackVars, connected, proven, scanBle>>
    BY <1>9 DEF UploadsDone, TypeOK, ConnectedIsReal, Quiet, stackVars, silence
  <1> QED BY <1>1, <1>2, <1>3, <1>4, <1>5, <1>6, <1>7, <1>8, <1>9
      DEF Menu, Upload, MenuScan, UploadsDone

\* Every behaviour keeps the invariant.
LEMMA LinkInvariant == Spec => []LinkInv
  <1>1. Init => LinkInv BY InitLink
  <1>2. LinkInv /\ [Next]_vars => LinkInv'
    <2> SUFFICES ASSUME LinkInv, [Next]_vars PROVE LinkInv'
      OBVIOUS
    <2>1. CASE Next BY <2>1, HostKeepsLink, TickKeepsLink, MenuKeepsLink DEF Next
    <2>2. CASE UNCHANGED vars
      BY <2>2 DEF vars, stackVars, flags, silence, system, LinkInv, TypeOK, ConnectedIsReal,
                  Quiet, AnyLink
    <2> QED BY <2>1, <2>2
  <1> QED BY <1>1, <1>2, PTL DEF Spec

\* The stack, the flags and _inBuf keep their types; _inBuf keeps its size
\* (onCommandWrite).
THEOREM LinkTyped == Spec => []TypeOK
  <1>1. LinkInv => TypeOK BY DEF LinkInv
  <1> QED BY <1>1, LinkInvariant, PTL

\* _connected is never true without a link of a running stack behind it, so the
\* advertising watchdog of main is never kept waiting by a link that is gone
\* (onServerEvent, ensureBle, shutdownBLE).
THEOREM ConnectedHasLink == Spec => []ConnectedIsReal
  <1>1. LinkInv => ConnectedIsReal BY DEF LinkInv
  <1> QED BY <1>1, LinkInvariant, PTL

\* From suspendForUpload to resumeFromUpload nothing of Swarm is on the air.
THEOREM UploadHasRadio == Spec => []UploadQuiet
  <1>1. LinkInv => UploadQuiet BY DEF LinkInv, Quiet, UploadQuiet
  <1> QED BY <1>1, LinkInvariant, PTL
===========================================================================
