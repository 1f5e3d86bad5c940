------------------------- MODULE SettingsKeptProofs -------------------------
(***************************************************************************)
(* What the settings keep, for every set of keys and networks: the order   *)
(* of the saved networks under every save and removal, and the keys that   *)
(* came from the card until another one is taken.                          *)
(***************************************************************************)
EXTENDS SettingsProofs

---------------------------------------------------------------------------
(* The order of the networks *)

\* A rotation puts s in front, keeps every network but the one of the slot it
\* started from, and changes no order among the others.
LEMMA RotatedMoves ==
  ASSUME NEW list \in Seq(SSIDs), Distinct(list), NEW s \in SSIDs, NEW at \in 1 .. Len(list) + 1,
         \A i \in DOMAIN list : list[i] = s => i = at
  PROVE  LET r == Rotated(list, s, at)
         IN  /\ r[1] = s /\ InOrderBut(r, list, s)
             /\ at \in DOMAIN list => Nets(r) = (Nets(list) \ {list[at]}) \cup {s}
             /\ at \notin DOMAIN list => Nets(r) = Nets(list) \cup {s}
  <1> DEFINE n == RotatedLen(list, at)
             r == Rotated(list, s, at)
             was(k) == IF k <= at THEN k - 1 ELSE k
             now(m) == IF m < at THEN m + 1 ELSE m
  <1>1. Len(list) \in Nat /\ DOMAIN list = 1 .. Len(list)
    OBVIOUS
  <1>0. IsRotated(r, n, list, s, at)
    BY RotatedEntries
  <1> HIDE DEF n, r
  <1>2. /\ DOMAIN r = 1 .. n /\ r[1] = s
        /\ n \in Nat /\ n >= Len(list) /\ n >= at /\ n <= Len(list) + 1 /\ (n > Len(list) => at = n)
        /\ \A k \in 2 .. n : r[k] = IF k <= at THEN list[k - 1] ELSE list[k]
    BY <1>0 DEF IsRotated
  <1>3. ASSUME NEW k \in DOMAIN r, k # 1
        PROVE  was(k) \in DOMAIN list /\ was(k) # at /\ r[k] = list[was(k)]
    <2>1. k \in 2 .. n
      BY <1>2, <1>3
    <2>2. was(k) \in 1 .. Len(list) /\ was(k) # at
      BY <1>1, <1>2, <2>1
    <2>3. r[k] = list[was(k)]
      BY <1>2, <2>1
    <2> QED BY <1>1, <2>2, <2>3
  <1>4. ASSUME NEW m \in DOMAIN list, m # at
        PROVE  now(m) \in DOMAIN r /\ r[now(m)] = list[m]
    <2>1. now(m) \in 2 .. n
      BY <1>1, <1>2, <1>4
    <2>2. was(now(m)) = m
      BY <1>1, <1>4
    <2>3. r[now(m)] = list[was(now(m))]
      BY <1>2, <2>1
    <2>4. now(m) \in 1 .. n
      BY <1>2, <2>1
    <2> HIDE DEF was, now
    <2> QED BY <1>2, <2>2, <2>3, <2>4
  <1>5. InOrderBut(r, list, s)
    <2> SUFFICES ASSUME NEW x \in Nets(r) \ {s}, NEW y \in Nets(r) \ {s}, Before(r, x, y)
                 PROVE  Before(list, x, y)
      BY DEF InOrderBut
    <2>1. PICK i \in DOMAIN r, j \in DOMAIN r : i < j /\ r[i] = x /\ r[j] = y
      BY DEF Before
    <2>2. i # 1 /\ j # 1
      BY <1>2, <2>1
    <2>3. /\ was(i) \in DOMAIN list /\ was(j) \in DOMAIN list
          /\ list[was(i)] = x /\ list[was(j)] = y
      BY <1>3, <2>1, <2>2
    <2>4. was(i) < was(j)
      BY <1>2, <2>1, <2>2
    <2> HIDE DEF was
    <2> QED BY <2>3, <2>4 DEF Before
  <1>6. \A z : z \in Nets(r) <=> z = s \/ \E m \in DOMAIN list : m # at /\ z = list[m]
    <2>1. ASSUME NEW z \in Nets(r), z # s PROVE \E m \in DOMAIN list : m # at /\ z = list[m]
      <3>1. PICK k \in DOMAIN r : z = r[k]
        BY DEF Nets
      <3> HIDE DEF was
      <3> QED BY <1>2, <1>3, <2>1, <3>1
    <2>2. ASSUME NEW m \in DOMAIN list, m # at PROVE list[m] \in Nets(r)
      <3> HIDE DEF now
      <3> QED BY <1>4, <2>2 DEF Nets
    <2>3. s \in Nets(r)
      <3>1. 1 \in DOMAIN r
        BY <1>2
      <3> QED BY <1>2, <3>1 DEF Nets
    <2> QED BY <2>1, <2>2, <2>3
  <1>7. \A z : z \in Nets(list) <=> \E m \in DOMAIN list : z = list[m]
    BY DEF Nets
  <1>8. ASSUME at \in DOMAIN list PROVE Nets(r) = (Nets(list) \ {list[at]}) \cup {s}
    <2>1. \A m \in DOMAIN list : m # at <=> list[m] # list[at]
      BY <1>8 DEF Distinct
    <2> HIDE DEF was, now
    <2> QED BY <1>6, <1>7, <2>1
  <1>9. ASSUME at \notin DOMAIN list PROVE Nets(r) = Nets(list) \cup {s}
    BY <1>6, <1>9, <1>7
  <1> QED BY <1>2, <1>5, <1>8, <1>9 DEF r

LEMMA RemovedMoves ==
  ASSUME NEW list \in Seq(SSIDs), Distinct(list), NEW i \in DOMAIN list, NEW s
  PROVE  LET r == RemoveAt(list, i)
         IN  InOrderBut(r, list, s) /\ Nets(r) = Nets(list) \ {list[i]}
  <1> DEFINE r == RemoveAt(list, i)
             was(k) == IF k < i THEN k ELSE k + 1
             now(m) == IF m < i THEN m ELSE m - 1
  <1>1. Len(list) \in Nat /\ DOMAIN list = 1 .. Len(list) /\ i \in 1 .. Len(list)
    OBVIOUS
  <1>2. /\ DOMAIN r = 1 .. Len(list) - 1
        /\ \A k \in 1 .. Len(list) - 1 : r[k] = list[IF k < i THEN k ELSE k + 1]
    BY RemovedEntries
  <1> HIDE DEF r
  <1>3. ASSUME NEW k \in DOMAIN r
        PROVE  was(k) \in DOMAIN list /\ was(k) # i /\ r[k] = list[was(k)]
    BY <1>1, <1>2
  <1>4. ASSUME NEW m \in DOMAIN list, m # i
        PROVE  now(m) \in DOMAIN r /\ r[now(m)] = list[m]
    <2>1. now(m) \in 1 .. Len(list) - 1 /\ was(now(m)) = m
      BY <1>1, <1>4
    <2>2. r[now(m)] = list[was(now(m))]
      BY <1>2, <2>1
    <2> HIDE DEF was, now
    <2> QED BY <1>2, <2>1, <2>2
  <1>5. InOrderBut(r, list, s)
    <2> SUFFICES ASSUME NEW x \in Nets(r) \ {s}, NEW y \in Nets(r) \ {s}, Before(r, x, y)
                 PROVE  Before(list, x, y)
      BY DEF InOrderBut
    <2>1. PICK k \in DOMAIN r, j \in DOMAIN r : k < j /\ r[k] = x /\ r[j] = y
      BY DEF Before
    <2>2. was(k) < was(j)
      BY <1>1, <1>2, <2>1
    <2> HIDE DEF was
    <2> QED BY <1>3, <2>1, <2>2 DEF Before
  <1>6. \A z : z \in Nets(r) <=> \E m \in DOMAIN list : m # i /\ z = list[m]
    <2>1. ASSUME NEW z \in Nets(r) PROVE \E m \in DOMAIN list : m # i /\ z = list[m]
      <3> HIDE DEF was
      <3> QED BY <1>3 DEF Nets
    <2>2. ASSUME NEW m \in DOMAIN list, m # i PROVE list[m] \in Nets(r)
      <3> HIDE DEF now
      <3> QED BY <1>4, <2>2 DEF Nets
    <2> QED BY <2>1, <2>2
  <1>7. \A m \in DOMAIN list : m # i <=> list[m] # list[i]
    BY DEF Distinct
  <1>8. Nets(r) = Nets(list) \ {list[i]}
    <2>1. \A z : z \in Nets(list) <=> \E m \in DOMAIN list : z = list[m]
      BY DEF Nets
    <2> QED BY <1>6, <1>7, <2>1
  <1> QED BY <1>5, <1>8 DEF r

\* The list in flash after a save or a removal is the one that was written.
LEMMA WrittenWifi ==
  ASSUME DocsInv, NEW l \in Seq(SSIDs), StoreBehind(WithWifi(l))
  PROVE  flash'.wifi = l
  <1>1. text \in Docs /\ flash' = WithWifi(l)
    BY DEF DocsInv, Good, StoreBehind
  <1> QED BY <1>1 DEF WithWifi, Docs

\* saveWifiCredential at the slot of s, or at the next free one.
LEMMA SaveMoves ==
  ASSUME DocsInv, NEW s \in SSIDs, NEW at \in 1 .. Len(text.wifi) + 1,
         at <= MAX_SAVED_WIFI_PROFILES,
         \A i \in DOMAIN text.wifi : text.wifi[i] = s => i = at,
         at \in DOMAIN text.wifi =>
           \/ text.wifi[at] = s
           \/ s = pending /\ Len(text.wifi) = MAX_SAVED_WIFI_PROFILES,
         WifiSaved(s, at)
  PROVE  Moved(flash'.wifi, text.wifi)
  <1> DEFINE list == text.wifi
             r == Rotated(list, s, at)
  <1>1. list \in Seq(SSIDs) /\ Distinct(list)
    BY ListType
  <1>2. r \in Seq(SSIDs)
    BY <1>1, RotatedGood
  <1>3. flash'.wifi = r
    BY <1>2, WrittenWifi DEF WifiSaved
  <1>4. /\ r[1] = s /\ InOrderBut(r, list, s)
        /\ at \in DOMAIN list => Nets(r) = (Nets(list) \ {list[at]}) \cup {s}
        /\ at \notin DOMAIN list => Nets(r) = Nets(list) \cup {s}
    BY <1>1, RotatedMoves
  <1>5. at \in DOMAIN list => list[at] \in SSIDs
    BY ListType
  <1> HIDE DEF r
  <1>6. CASE at \in DOMAIN list /\ list[at] # s
    BY <1>3, <1>4, <1>5, <1>6 DEF Moved
  <1>7. CASE at \in DOMAIN list /\ list[at] = s
    <2>1. Nets(r) = Nets(list) \cup {s}
      BY <1>4, <1>7
    <2> QED BY <1>3, <1>4, <2>1 DEF Moved
  <1>8. CASE at \notin DOMAIN list
    BY <1>3, <1>4, <1>8 DEF Moved
  <1> QED BY <1>6, <1>7, <1>8

\* ... which is what the search for the slot finds, or the slot the user gave up.
LEMMA TargetMoves ==
  ASSUME DocsInv, NEW s \in SSIDs, NEW replace \in 0 .. Len(text.wifi),
         replace = 0 \/ s = pending, WifiSaved(s, Target(text.wifi, s, replace))
  PROVE  Moved(flash'.wifi, text.wifi)
  <1> DEFINE at == Target(text.wifi, s, replace)
  <1>1. /\ at # 0 /\ at \in 1 .. Len(text.wifi) + 1 /\ at <= MAX_SAVED_WIFI_PROFILES
        /\ \A i \in DOMAIN text.wifi : text.wifi[i] = s => i = at
    BY ListType, TargetRight DEF WifiSaved
  <1>2. at \in DOMAIN text.wifi =>
          \/ text.wifi[at] = s
          \/ s = pending /\ Len(text.wifi) = MAX_SAVED_WIFI_PROFILES
    <2>1. CASE Index(text.wifi, s) # 0
      <3>1. text.wifi[Index(text.wifi, s)] = s /\ at = Index(text.wifi, s)
        BY <2>1 DEF Index, Target
      <3> QED BY <3>1
    <2>2. CASE Index(text.wifi, s) = 0 /\ Len(text.wifi) < MAX_SAVED_WIFI_PROFILES
      <3>1. at = Len(text.wifi) + 1
        BY <2>2 DEF Target
      <3> HIDE DEF at
      <3> QED BY <3>1, ListType
    <2>3. CASE Index(text.wifi, s) = 0 /\ ~(Len(text.wifi) < MAX_SAVED_WIFI_PROFILES)
      <3>1. at = replace
        BY <2>3 DEF Target
      <3>2. s = pending
        BY <1>1, <3>1
      <3>3. Len(text.wifi) = MAX_SAVED_WIFI_PROFILES
        <4> DEFINE len == Len(text.wifi)
        <4>1. len \in Nat /\ len <= MAX_SAVED_WIFI_PROFILES /\ ~(len < MAX_SAVED_WIFI_PROFILES)
          BY <2>3, ListType
        <4> HIDE DEF at, len
        <4>2. len = MAX_SAVED_WIFI_PROFILES
          BY ONLY <4>1, BoundAssumption
        <4> QED BY <4>2 DEF len
      <3> QED BY <3>2, <3>3
    <2> QED BY <2>1, <2>2, <2>3
  <1> HIDE DEF at
  <1> QED BY <1>1, <1>2, SaveMoves DEF at

\* What a step about networks writes is the list that readers see, with one network
\* moved, added, replaced or removed.
LEMMA NetworksMove ==
  ASSUME DocsInv, Books, Networks, stage' = "up", flash'.wifi # flash.wifi
  PROVE  Moved(flash'.wifi, text.wifi)
  <1>1. ASSUME WifiNotSaved \/ OpenFails \/ UNCHANGED docs PROVE FALSE
    BY <1>1 DEF WifiNotSaved, OpenFails, docs
  <1>2. ASSUME NEW d, CutIn(d) PROVE FALSE
    BY <1>2 DEF CutIn
  <1>3. CASE ImportWifi
    <2>1. wifiFile \in SSIDs /\ 0 \in 0 .. Len(text.wifi)
      BY <1>3, ListType DEF ImportWifi, Books
    <2>2. WifiSaved(wifiFile, Target(text.wifi, wifiFile, 0))
      BY <1>1, <1>3 DEF ImportWifi
    <2> QED BY <2>1, <2>2, TargetMoves
  <1>4. ASSUME NEW i \in 1 .. MAX_SAVED_WIFI_PROFILES, ReplaceSaved(i) PROVE Moved(flash'.wifi, text.wifi)
    <2>1. pending \in SSIDs /\ i \in 0 .. Len(text.wifi)
      BY <1>4, ListType DEF ReplaceSaved, Books
    <2>2. WifiSaved(pending, Target(text.wifi, pending, i))
      BY <1>1, <1>4 DEF ReplaceSaved
    <2> QED BY <2>1, <2>2, TargetMoves
  <1>5. ASSUME NEW i \in 1 .. MAX_SAVED_WIFI_PROFILES, MarkSuccessful(i) PROVE Moved(flash'.wifi, text.wifi)
    <2>1. i \in DOMAIN text.wifi /\ WifiSaved(text.wifi[i], i)
      BY <1>1, <1>5 DEF MarkSuccessful
    <2>2. /\ i \in 1 .. Len(text.wifi) + 1 /\ i <= MAX_SAVED_WIFI_PROFILES /\ text.wifi[i] \in SSIDs
          /\ \A j \in DOMAIN text.wifi : text.wifi[j] = text.wifi[i] => j = i
      BY <2>1, OwnSlot
    <2> QED BY <2>1, <2>2, SaveMoves
  <1>6. ASSUME NEW i \in 1 .. MAX_SAVED_WIFI_PROFILES, RemoveSaved(i) PROVE Moved(flash'.wifi, text.wifi)
    <2>1. i \in DOMAIN text.wifi /\ StoreBehind(WithWifi(RemoveAt(text.wifi, i)))
      BY <1>1, <1>6 DEF RemoveSaved
    <2>2. text.wifi[i] \in SSIDs /\ RemoveAt(text.wifi, i) \in Seq(SSIDs)
      BY <2>1, ListType, RemoveGood
    <2>3. flash'.wifi = RemoveAt(text.wifi, i)
      BY <2>1, <2>2, WrittenWifi
    <2>4. /\ InOrderBut(flash'.wifi, text.wifi, text.wifi[i])
          /\ Nets(flash'.wifi) = Nets(text.wifi) \ {text.wifi[i]}
      BY <2>1, <2>3, ListType, RemovedMoves
    <2> QED BY <2>2, <2>4 DEF Moved
  <1>7. CASE DiscardPending
    BY <1>1, <1>7 DEF DiscardPending
  <1>8. CASE WifiCut
    BY <1>2, <1>8 DEF WifiCut
  <1> QED BY <1>3, <1>4, <1>5, <1>6, <1>7, <1>8 DEF Networks

\* Another save writes the list that readers see.
LEMMA MenuLeavesWifi ==
  ASSUME DocsInv, Menu, stage' = "up", ~ResetSettings
  PROVE  flash'.wifi \in {flash.wifi, text.wifi}
  <1>1. text \in Docs
    BY DEF DocsInv, Good
  <1>2. ASSUME OpenFails \/ UNCHANGED docs PROVE flash'.wifi = flash.wifi
    BY <1>2 DEF OpenFails, docs
  <1>3. ASSUME NEW k, NEW v, SaveSetting(k, v) PROVE flash'.wifi \in {flash.wifi, text.wifi}
    <2>1. WithKey(k, v).wifi = text.wifi
      BY <1>1 DEF WithKey, Docs
    <2> QED BY <1>2, <1>3, <2>1 DEF SaveSetting, Saved, NotSaved, Store
  <1>4. ASSUME NEW f, SaveFences(f) PROVE flash'.wifi \in {flash.wifi, text.wifi}
    <2>1. WithFences(f).wifi = text.wifi
      BY <1>1 DEF WithFences, Docs
    <2> QED BY <1>2, <1>4, <2>1 DEF SaveFences, Store
  <1>5. ASSUME NEW d, CutIn(d) PROVE FALSE
    BY <1>5 DEF CutIn
  <1> QED BY <1>3, <1>4, <1>5 DEF Menu, SetFence, ClearFence, SaveSettingCut, SaveFencesCut

LEMMA UpStep ==
  ASSUME SettingsInv, Next, stage = "up", stage' = "up", flash.wifi = text.wifi, ~ResetSettings
  PROVE  flash'.wifi = flash.wifi \/ Moved(flash'.wifi, flash.wifi)
  <1>1. ~Begin /\ ~Install /\ ~PowerCycle
    BY DEF Begin, Install, PowerCycle, BeginDefaults, BeginReads, BeginOverwrites, BeginFails,
           BeginCut, Accept, InstallDefaults, InstallFails, InstallCut
  <1>2. ~Import
    BY DEF Import, Presave, PresaveCut, ApplyFromApi, ApplyFromSingle, ApplyCut, PresaveDone,
           ApiDone, SingleDone
  <1> QED BY <1>1, <1>2, NetworksMove, MenuLeavesWifi DEF Next, SettingsInv

\* While readers see the list that is stored, a step of the running device other
\* than a reset moves, adds, replaces or removes at most one network of it and
\* leaves the order of the others as it was.
THEOREM SettingsMostRecentFirst == Spec => MostRecentFirst
  <1>1. SettingsInv /\ [Next]_vars =>
          [ (stage = "up" /\ stage' = "up" /\ flash.wifi = text.wifi /\ ~ResetSettings) =>
              flash'.wifi = flash.wifi \/ Moved(flash'.wifi, flash.wifi) ]_vars
    BY UpStep
  <1> QED BY <1>1, SettingsAlways, PTL DEF Spec, MostRecentFirst

---------------------------------------------------------------------------
(* The keys of the card.  RunSetup, API.txt and the single-value files are  *)
(* read in turn, so KeysKept alone is not inductive: between the stages a   *)
(* key taken earlier may be overwritten by one whose file is still there.   *)

\* No reset, no cut, no file that did not open.
Untouched == ~wiped /\ fails = 0

\* Then a document in use has every name, so that no save is lost.
Whole ==
  Untouched => /\ flash = Empty \/ flash.has \in {Names \ Late, Names}
               /\ stage # "off" => text.has = Names

\* A single-value file that the import will take.
Waiting(k) == single[k] \notin {NoKey, Placeholder, Default[k]}

\* The key last taken is the one that counts, or a file on the card will bring another.
Entrusted(k) ==
  \/ taken[k] \in {NoKey, value[k]}
  \/ k \in Presaved /\ single[k] \in {Placeholder, Default[k]}
  \/ Waiting(k) \/ api[k] # NoKey

\* How far the stages have come: what is read is taken, what is taken is stored.
CardRead ==
  /\ stage = "presave" => todo \subseteq Presaved
  /\ stage \in {"single", "up"} => \A k \in UploadKeys : api[k] = NoKey
  /\ stage = "single" => \A k \in UploadKeys \ todo : ~Waiting(k)
  /\ stage = "up" => \A k \in UploadKeys : ~Waiting(k)
  /\ (Untouched /\ stage = "api") => \A k \in UploadKeys \ todo : api[k] \in {NoKey, cache[k]}

Custody == Whole /\ CardRead /\ (Untouched => \A k \in UploadKeys : Entrusted(k))

\* What a step must leave when nothing went wrong in it.
Kept == Untouched /\ Whole' /\ \A k \in UploadKeys : Entrusted(k)'

LEMMA NoHarm ==
  ASSUME Books, Untouched'
  PROVE  ~OpenFails /\ ~Reset /\ \A d : ~CutIn(d)
  BY DEF Books, Untouched, OpenFails, Reset, CutIn

LEMMA EntrustedFrame ==
  ASSUME NEW k \in UploadKeys, Entrusted(k), value'[k] = value[k], single'[k] = single[k],
         taken'[k] = taken[k], api'[k] = api[k]
  PROVE  Entrusted(k)'
  BY DEF Entrusted, Waiting

\* A step that leaves keys, card and history alone.
LEMMA QuietStep ==
  ASSUME Custody, Untouched', UNCHANGED <<wiped, fails, single, api, taken>>, value' = value,
         flash' = Empty \/ flash'.has \in {Names \ Late, Names}, stage' # "off" => text'.has = Names
  PROVE  Kept
  <1>1. Untouched
    BY DEF Untouched
  <1>2. Whole'
    BY DEF Whole
  <1>3. \A k \in UploadKeys : Entrusted(k)'
    BY <1>1, EntrustedFrame DEF Custody
  <1> QED BY <1>1, <1>2, <1>3 DEF Kept

LEMMA DocsQuiet ==
  ASSUME DocsInv, Custody, Untouched', UNCHANGED <<docs, wiped, fails, single, api, taken>>,
         stage # "off", stage' # "off"
  PROVE  Kept
  <1>1. Untouched /\ flash' = flash /\ text' = text /\ cache' = cache
    BY DEF Untouched, docs
  <1>2. value' = value
    BY <1>1 DEF value
  <1>3. /\ flash = Empty \/ flash.has \in {Names \ Late, Names}
        /\ text.has = Names
    BY <1>1 DEF Custody, Whole
  <1> QED BY <1>1, <1>2, <1>3, QuietStep

\* saveSetting finds the name, so document, text and cache have the value.
LEMMA SavedWhole ==
  ASSUME DocsInv, Custody, Untouched, NEW k \in Keys, NEW v \in Values, Saved(k, v),
         stage # "off", stage' # "off"
  PROVE  /\ text'.has = Names /\ flash'.has = Names
         /\ cache' = [cache EXCEPT ![k] = v] /\ value' = [value EXCEPT ![k] = v]
         /\ UNCHANGED <<wiped, fails>>
  <1>1. text.has = Names /\ k \in text.has /\ text \in Docs
    BY DEF Custody, Whole, DocsInv, Good, Names
  <1>2. /\ flash' = WithKey(k, v) /\ text' = WithKey(k, v) /\ cache' = [cache EXCEPT ![k] = v]
        /\ UNCHANGED <<wiped, fails>>
    BY <1>1 DEF Saved, Store, bounds
  <1>3. WithKey(k, v).has = text.has
    BY <1>1 DEF WithKey, Docs
  <1> QED BY <1>1, <1>2, <1>3 DEF value

\* Only the key saved reads differently.
LEMMA SavedOthers ==
  ASSUME DocsInv, NEW k \in Keys, NEW v \in Values, cache' = [cache EXCEPT ![k] = v],
         stage # "off", stage' # "off"
  PROVE  value'[k] = v /\ \A j \in Keys \ {k} : value'[j] = value[j]
  <1>1. cache \in [Keys -> Values]
    BY CachedType DEF DocsInv, Good
  <1> QED BY <1>1 DEF value

LEMMA BeginKept ==
  ASSUME DocsInv, Books, Custody, Begin \/ Install, Untouched'
  PROVE  Kept
  <1>1. CASE BeginDefaults
    <2>1. /\ stage = "off" /\ stage' = "begun" /\ flash.has = {} /\ flash' = DefaultDoc
          /\ text' = DefaultDoc /\ cache' = Default /\ UNCHANGED <<wiped, fails, single, api, taken>>
      BY <1>1 DEF BeginDefaults, Store, card, history, bounds
    <2>2. Untouched
      BY <2>1 DEF Untouched
    <2>3. "SavedWiFi" \in Names /\ "SavedWiFi" \in Late
      BY KeyAssumption DEF Names
    <2>4. flash = Empty \/ flash.has = Names \ Late
      BY <2>1, <2>2, <2>3 DEF Custody, Whole
    <2>5. Probe \in Names \ Late
      BY KeyAssumption DEF Names
    <2>6. value = Default /\ value' = Default
      BY <2>1, <2>4, <2>5, DefaultCached DEF value
    <2>7. DefaultDoc.has = Names
      BY DEF DefaultDoc, Empty
    <2> QED BY <2>1, <2>6, <2>7, QuietStep
  <1>2. CASE BeginReads
    <2>1. /\ stage = "off" /\ stage' = "begun" /\ flash.has # {} /\ flash' = Migrated(flash)
          /\ text' = Migrated(flash) /\ cache' = Cached(text')
          /\ UNCHANGED <<wiped, fails, single, api, taken>>
      BY <1>2 DEF BeginReads, Store, card, history, bounds
    <2>2. Untouched
      BY <2>1 DEF Untouched
    <2>3. flash.has \in {Names \ Late, Names}
      BY <2>1, <2>2 DEF Custody, Whole, Empty
    <2>4. flash \in Docs /\ Distinct(flash.wifi)
      BY DEF DocsInv
    <2>5. Migrated(flash).has = flash.has \cup Late
      BY <2>1, <2>4 DEF Migrated, Docs
    <2>6. Migrated(flash).has = Names
      BY <2>3, <2>5, KeyAssumption
    <2>7. Cached(Migrated(flash)) = Cached(flash)
      BY <2>1, <2>4, MigratedGood
    <2>8. cache' = Cached(Migrated(flash))
      BY <2>1
    <2>9. value' = value
      BY <2>1, <2>7, <2>8 DEF value
    <2> QED BY <2>1, <2>6, <2>9, QuietStep
  <1>3. CASE Accept
    BY <1>3, DocsQuiet DEF Accept, card, history, bounds
  <1>4. ~BeginFails /\ ~BeginCut /\ ~InstallDefaults /\ ~InstallFails /\ ~InstallCut
    BY NoHarm DEF BeginFails, BeginCut, InstallDefaults, InstallFails, InstallCut
  <1>5. ~BeginOverwrites
    BY DEF BeginOverwrites, Untouched
  <1> QED BY <1>1, <1>2, <1>3, <1>4, <1>5 DEF Begin, Install

LEMMA NetworksLeave ==
  ASSUME DocsInv, Books, Custody, Networks, Untouched'
  PROVE  Kept
  <1>1. stage = "up" /\ stage # "off"
    BY DEF Networks, ImportWifi, DiscardPending, WifiCut, ReplaceSaved, MarkSuccessful, RemoveSaved
  <1>2. ~OpenFails /\ \A d : ~CutIn(d)
    BY NoHarm
  <1>3. /\ stage' = stage /\ UNCHANGED <<wiped, fails, single, api, taken>>
        /\ UNCHANGED docs \/ (UNCHANGED cache /\ \E l : StoreBehind(WithWifi(l)))
    <2>1. CASE ImportWifi
      BY <1>2, <2>1 DEF ImportWifi, WifiSaved, WifiNotSaved, bounds
    <2>2. CASE DiscardPending
      BY <2>2 DEF DiscardPending, card, history, bounds
    <2>3. CASE WifiCut
      BY <1>2, <2>3 DEF WifiCut
    <2>4. ASSUME NEW i, ReplaceSaved(i)
          PROVE  /\ stage' = stage /\ UNCHANGED <<wiped, fails, single, api, taken>>
                 /\ UNCHANGED docs \/ (UNCHANGED cache /\ \E l : StoreBehind(WithWifi(l)))
      BY <1>2, <2>4 DEF ReplaceSaved, WifiSaved, WifiNotSaved, card, bounds
    <2>5. ASSUME NEW i, MarkSuccessful(i)
          PROVE  /\ stage' = stage /\ UNCHANGED <<wiped, fails, single, api, taken>>
                 /\ UNCHANGED docs \/ (UNCHANGED cache /\ \E l : StoreBehind(WithWifi(l)))
      BY <1>2, <2>5 DEF MarkSuccessful, WifiSaved, WifiNotSaved, card, bounds
    <2>6. ASSUME NEW i, RemoveSaved(i)
          PROVE  /\ stage' = stage /\ UNCHANGED <<wiped, fails, single, api, taken>>
                 /\ UNCHANGED docs \/ (UNCHANGED cache /\ \E l : StoreBehind(WithWifi(l)))
      BY <1>2, <2>6 DEF RemoveSaved, WifiNotSaved, card, bounds
    <2> QED BY <2>1, <2>2, <2>3, <2>4, <2>5, <2>6 DEF Networks
  <1>4. Untouched
    BY <1>3 DEF Untouched
  <1>5. text.has = Names /\ text.has # {} /\ text \in Docs
    BY <1>1, <1>4 DEF Custody, Whole, DocsInv, Good, Names
  <1>6. CASE UNCHANGED docs
    BY <1>1, <1>3, <1>6, DocsQuiet
  <1>7. ASSUME NEW l, StoreBehind(WithWifi(l)), UNCHANGED cache PROVE Kept
    <2>1. flash' = WithWifi(l) /\ text' = text
      BY <1>5, <1>7 DEF StoreBehind
    <2>2. WithWifi(l).has = text.has
      BY <1>5 DEF WithWifi, Docs
    <2>3. value' = value
      BY <1>1, <1>3, <1>7 DEF value
    <2> QED BY <1>3, <1>5, <2>1, <2>2, <2>3, QuietStep
  <1> QED BY <1>3, <1>6, <1>7

\* Menu and command line save other keys than the card.
LEMMA MenuLeaves ==
  ASSUME DocsInv, Books, Custody, Menu, Untouched'
  PROVE  Kept
  <1>1. ~OpenFails /\ ~Reset /\ \A d : ~CutIn(d)
    BY NoHarm
  <1>2. ASSUME NEW k \in Keys, NEW v \in Values, SaveSetting(k, v) PROVE Kept
    <2>1. /\ stage # "off" /\ stage' # "off" /\ Saved(k, v) /\ k \notin UploadKeys
          /\ UNCHANGED <<single, api, taken>>
      BY <1>1, <1>2 DEF SaveSetting, NotSaved, card
    <2>2. UNCHANGED <<wiped, fails>>
      BY <2>1 DEF Saved, bounds
    <2>3. Untouched
      BY <2>2 DEF Untouched
    <2>4. /\ text'.has = Names /\ flash'.has = Names /\ cache' = [cache EXCEPT ![k] = v]
      BY <2>1, <2>3, SavedWhole
    <2>5. \A j \in UploadKeys : value'[j] = value[j]
      <3>1. \A j \in Keys \ {k} : value'[j] = value[j]
        BY <2>1, <2>4, SavedOthers
      <3>2. UploadKeys \subseteq Keys \ {k}
        BY <2>1, KeyAssumption
      <3> QED BY <3>1, <3>2
    <2>6. \A j \in UploadKeys : Entrusted(j)'
      BY <2>1, <2>3, <2>5, EntrustedFrame DEF Custody
    <2>7. Whole'
      BY <2>4 DEF Whole
    <2> QED BY <2>3, <2>6, <2>7 DEF Kept
  <1>3. ASSUME NEW f, SaveFences(f) PROVE Kept
    <2>1. /\ stage # "off" /\ stage' = stage /\ Store(WithFences(f)) /\ cache' = cache
          /\ UNCHANGED <<wiped, fails, single, api, taken>>
      BY <1>1, <1>3 DEF SaveFences, card, bounds
    <2>2. Untouched
      BY <2>1 DEF Untouched
    <2>3. text.has = Names /\ text \in Docs
      BY <2>1, <2>2 DEF Custody, Whole, DocsInv, Good
    <2>4. WithFences(f).has = text.has
      BY <2>3 DEF WithFences, Docs
    <2>5. value' = value
      BY <2>1 DEF value
    <2> QED BY <2>1, <2>3, <2>4, <2>5, QuietStep DEF Store
  <1> QED BY <1>1, <1>2, <1>3 DEF Menu, SetFence, ClearFence, SaveSettingCut, SaveFencesCut, ResetSettings

\* The next boot reads what the cache said.
LEMMA PowerLeaves ==
  ASSUME DocsInv, Books, Custody, PowerCycle, Untouched'
  PROVE  Kept
  <1>1. /\ stage # "off" /\ stage' = "off" /\ flash' = flash
        /\ UNCHANGED <<wiped, fails, single, api, taken>>
    BY DEF PowerCycle, card, history, bounds
  <1>2. Untouched
    BY <1>1 DEF Untouched
  <1>3. text.has = Names /\ text \in Docs /\ flash \in Docs /\ cache = Cached(text)
    BY <1>1, <1>2 DEF Custody, Whole, DocsInv, Good
  <1>4. flash = [text EXCEPT !.wifi = flash.wifi]
    BY <1>3 DEF DocsInv, OnlyNetworksDiffer, Names
  <1>5. flash.key = text.key /\ flash.null = text.null
    BY <1>3, <1>4 DEF Docs
  <1>6. Cached(flash) = cache
    BY <1>3, <1>5, CachedSame
  <1>7. Cached(flash)' = Cached(flash)
    BY <1>1 DEF Cached, Read
  <1>8. value' = value
    BY <1>1, <1>6, <1>7 DEF value
  <1>9. flash = Empty \/ flash.has \in {Names \ Late, Names}
    BY <1>2 DEF Custody, Whole
  <1> QED BY <1>1, <1>8, <1>9, QuietStep

\* RunSetup stores a single-value file as it is: that is the key, or an empty one.
LEMMA PresaveKept ==
  ASSUME DocsInv, Books, Custody, NEW k \in UploadKeys, Presave(k), Untouched'
  PROVE  Kept
  <1>1. /\ stage = "presave" /\ stage' = stage /\ k \in todo /\ k \in Presaved /\ k \in Keys
        /\ UNCHANGED <<single, api, taken>>
    BY KeyAssumption DEF Presave, Custody, CardRead, card
  <1>2. \/ single[k] # NoKey /\ Saved(k, single[k])
        \/ UNCHANGED <<docs, wiped, fails>>
    BY NoHarm DEF Presave, NotSaved, bounds
  <1>3. CASE UNCHANGED <<docs, wiped, fails>>
    BY <1>1, <1>3, DocsQuiet
  <1>4. CASE single[k] # NoKey /\ Saved(k, single[k])
    <2>1. single[k] \in Values /\ UNCHANGED <<wiped, fails>>
      BY <1>4 DEF Books, Saved, bounds
    <2>2. Untouched
      BY <2>1 DEF Untouched
    <2>3. text'.has = Names /\ flash'.has = Names /\ cache' = [cache EXCEPT ![k] = single[k]]
      BY <1>1, <1>4, <2>1, <2>2, SavedWhole
    <2>4. \A j \in Keys \ {k} : value'[j] = value[j]
      BY <1>1, <2>1, <2>3, SavedOthers
    <2>5. ASSUME NEW j \in UploadKeys, j # k PROVE Entrusted(j)'
      <3>1. value'[j] = value[j]
        BY <2>4, <2>5, KeyAssumption
      <3> QED BY <1>1, <2>2, <3>1, EntrustedFrame DEF Custody
    <2>6. Entrusted(k)'
      <3>1. Waiting(k)' \/ single'[k] \in {Placeholder, Default[k]}
        BY <1>1, <1>4 DEF Waiting
      <3> QED BY <1>1, <3>1 DEF Entrusted
    <2>7. Whole'
      BY <2>3 DEF Whole
    <2> QED BY <2>2, <2>5, <2>6, <2>7 DEF Kept
  <1> QED BY <1>2, <1>3, <1>4

\* What applyUploadApiKey does when every name is there: the key brought is in the
\* cache afterwards, the other keys are as they were.
LEMMA AppliedWhole ==
  ASSUME DocsInv, Books, Custody, NEW k \in UploadKeys, Applied(k), Untouched',
         stage # "off", stage' # "off"
  PROVE  /\ Untouched /\ Whole' /\ UNCHANGED <<wiped, fails>>
         /\ Brought(k) # NoKey => cache'[k] = Brought(k)
         /\ \A j \in UploadKeys : j # k \/ Brought(k) = NoKey => cache'[j] = cache[j]
  <1>1. k \in Keys /\ UploadKeys \subseteq Keys
    BY KeyAssumption
  <1>2. \/ Brought(k) \in {NoKey, cache[k]} /\ UNCHANGED <<docs, wiped, fails>>
        \/ Brought(k) \notin {NoKey, cache[k]} /\ Saved(k, Brought(k))
    BY NoHarm DEF Applied, NotSaved, bounds
  <1>3. CASE Brought(k) \in {NoKey, cache[k]} /\ UNCHANGED <<docs, wiped, fails>>
    <2>1. Untouched /\ flash' = flash /\ text' = text /\ cache' = cache
      BY <1>3 DEF Untouched, docs
    <2>2. Whole'
      BY <2>1 DEF Custody, Whole
    <2> QED BY <1>3, <2>1, <2>2
  <1>4. CASE Brought(k) \notin {NoKey, cache[k]} /\ Saved(k, Brought(k))
    <2>1. Brought(k) \in Values /\ UNCHANGED <<wiped, fails>>
      BY <1>4 DEF Books, Brought, Saved, bounds
    <2>2. Untouched
      BY <2>1 DEF Untouched
    <2>3. text'.has = Names /\ flash'.has = Names /\ cache' = [cache EXCEPT ![k] = Brought(k)]
      BY <1>1, <1>4, <2>1, <2>2, SavedWhole
    <2>4. Whole'
      BY <2>3 DEF Whole
    <2>5. cache \in [Keys -> Values]
      BY CachedType DEF DocsInv, Good
    <2> QED BY <1>1, <1>4, <2>1, <2>2, <2>3, <2>4, <2>5
  <1> QED BY <1>2, <1>3, <1>4

LEMMA FromApiKept ==
  ASSUME DocsInv, Books, Custody, NEW k \in UploadKeys, ApplyFromApi(k), Untouched'
  PROVE  Kept /\ \A j \in UploadKeys \ todo' : api'[j] \in {NoKey, cache'[j]}
  <1>1. /\ stage = "api" /\ stage' = "api" /\ todo' = todo \ {k} /\ Applied(k)
        /\ UNCHANGED <<single, api, taken>> /\ Brought(k) = api[k]
    BY DEF ApplyFromApi, Brought, card
  <1>2. /\ Untouched /\ Whole'
        /\ Brought(k) # NoKey => cache'[k] = Brought(k)
        /\ \A j \in UploadKeys : j # k \/ Brought(k) = NoKey => cache'[j] = cache[j]
    BY <1>1, AppliedWhole
  <1>3. ASSUME NEW j \in UploadKeys PROVE Entrusted(j)'
    <2>1. CASE api[j] # NoKey
      BY <1>1, <2>1 DEF Entrusted
    <2>2. CASE api[j] = NoKey
      <3>1. value'[j] = value[j]
        BY <1>1, <1>2, <2>2 DEF value
      <3> QED BY <1>1, <1>2, <3>1, EntrustedFrame DEF Custody
    <2> QED BY <2>1, <2>2
  <1>4. ASSUME NEW j \in UploadKeys \ todo' PROVE api'[j] \in {NoKey, cache'[j]}
    <2>1. CASE j = k
      BY <1>1, <1>2, <2>1
    <2>2. CASE j # k
      <3>1. j \notin todo
        BY <1>1, <2>2
      <3>2. api[j] \in {NoKey, cache[j]}
        BY <1>1, <1>2, <3>1 DEF Custody, CardRead
      <3> QED BY <1>1, <1>2, <2>2, <3>2
    <2> QED BY <2>1, <2>2
  <1> QED BY <1>2, <1>3, <1>4 DEF Kept

LEMMA FromSingleKept ==
  ASSUME DocsInv, Books, Custody, NEW k \in UploadKeys, ApplyFromSingle(k), Untouched'
  PROVE  Kept
  <1>1. /\ stage = "single" /\ Applied(k) /\ stage' = "single" /\ api' = api
        /\ single' = IF Brought(k) = NoKey THEN single ELSE [single EXCEPT ![k] = NoKey]
        /\ taken' = IF Brought(k) = NoKey THEN taken ELSE [taken EXCEPT ![k] = Brought(k)]
    BY DEF ApplyFromSingle
  <1>2. /\ Untouched /\ Whole'
        /\ Brought(k) # NoKey => cache'[k] = Brought(k)
        /\ \A j \in UploadKeys : j # k \/ Brought(k) = NoKey => cache'[j] = cache[j]
    BY <1>1, AppliedWhole
  <1>3. single \in [UploadKeys -> Values \cup {NoKey}] /\ taken \in [UploadKeys -> Values \cup {NoKey}]
    BY DEF Books
  <1>4. ASSUME NEW j \in UploadKeys PROVE Entrusted(j)'
    <2>1. CASE j # k \/ Brought(k) = NoKey
      <3>1. single'[j] = single[j] /\ taken'[j] = taken[j] /\ value'[j] = value[j]
        BY <1>1, <1>2, <1>3, <2>1 DEF value
      <3> QED BY <1>1, <1>2, <3>1, EntrustedFrame DEF Custody
    <2>2. CASE j = k /\ Brought(k) # NoKey
      <3>1. taken'[j] = Brought(k) /\ value'[j] = Brought(k)
        BY <1>1, <1>2, <1>3, <2>2 DEF value
      <3> QED BY <3>1 DEF Entrusted
    <2> QED BY <2>1, <2>2
  <1> QED BY <1>2, <1>4 DEF Kept

\* API.txt goes only when all of its keys were looked at, so what is taken is stored.
LEMMA ApiDoneKept ==
  ASSUME DocsInv, Books, Custody, ApiDone, Untouched'
  PROVE  Kept
  <1>1. /\ stage = "api" /\ todo = {} /\ stage' = "single" /\ UNCHANGED <<docs, single, wiped, fails>>
        /\ api' = [k \in UploadKeys |-> NoKey]
        /\ taken' = [k \in UploadKeys |-> IF api[k] = NoKey THEN taken[k] ELSE api[k]]
    BY DEF ApiDone, bounds
  <1>2. Untouched /\ flash' = flash /\ text' = text /\ cache' = cache
    BY <1>1 DEF Untouched, docs
  <1>3. Whole'
    BY <1>1, <1>2 DEF Custody, Whole
  <1>4. ASSUME NEW k \in UploadKeys PROVE Entrusted(k)'
    <2>1. value' = cache /\ value = cache
      BY <1>1, <1>2 DEF value
    <2>2. CASE api[k] # NoKey
      <3>1. api[k] = cache[k]
        BY <1>1, <1>2, <2>2 DEF Custody, CardRead
      <3>2. taken'[k] = value'[k]
        BY <1>1, <2>1, <2>2, <3>1
      <3> QED BY <3>2 DEF Entrusted
    <2>3. CASE api[k] = NoKey
      <3>1. taken'[k] = taken[k] /\ api'[k] = api[k] /\ single'[k] = single[k] /\ value'[k] = value[k]
        BY <1>1, <2>1, <2>3
      <3> QED BY <1>2, <3>1, EntrustedFrame DEF Custody
    <2> QED BY <2>2, <2>3
  <1> QED BY <1>2, <1>3, <1>4 DEF Kept

LEMMA ImportKept ==
  ASSUME DocsInv, Books, Custody, Import, Untouched'
  PROVE  Kept
  <1>1. ASSUME NEW k, PresaveCut(k) \/ ApplyCut(k) PROVE FALSE
    BY <1>1, NoHarm DEF PresaveCut, ApplyCut
  <1>2. CASE PresaveDone \/ SingleDone
    BY <1>2, DocsQuiet DEF PresaveDone, SingleDone, card, history, bounds
  <1> QED BY <1>1, <1>2, PresaveKept, FromApiKept, FromSingleKept, ApiDoneKept DEF Import

LEMMA KeptStep ==
  ASSUME SettingsInv, Custody, Next, Untouched'
  PROVE  Kept
  BY BeginKept, ImportKept, NetworksLeave, MenuLeaves, PowerLeaves DEF Next, SettingsInv

\* The stages advance over the card in order; only the import takes from it.
LEMMA CardStep ==
  ASSUME SettingsInv, Custody, Next
  PROVE  CardRead'
  <1>1. CardRead /\ Books /\ DocsInv
    BY DEF Custody, SettingsInv
  <1>2. ASSUME NEW d, CutIn(d) PROVE CardRead'
    BY <1>2 DEF CutIn, CardRead
  <1>3. CASE Begin \/ Install
    <2>1. CASE stage' \in {"off", "begun"}
      BY <2>1 DEF CardRead
    <2>2. CASE stage' = "presave" /\ todo' = Presaved
      BY <2>2 DEF CardRead
    <2> QED
      BY <1>2, <1>3, <2>1, <2>2
      DEF Begin, Install, BeginDefaults, BeginReads, BeginOverwrites, BeginFails, BeginCut, Accept, InstallDefaults,
          InstallFails, InstallCut
  <1>4. CASE Import
    <2>1. ASSUME NEW k \in UploadKeys, Presave(k) PROVE CardRead'
      <3>1. stage' = "presave" /\ todo' = todo \ {k} /\ todo \subseteq Presaved
        BY <1>1, <2>1 DEF Presave, CardRead
      <3> QED BY <3>1 DEF CardRead
    <2>2. ASSUME NEW k \in UploadKeys, ApplyFromApi(k) PROVE CardRead'
      <3>1. stage' = "api"
        BY <2>2 DEF ApplyFromApi
      <3>2. Untouched' => \A j \in UploadKeys \ todo' : api'[j] \in {NoKey, cache'[j]}
        BY <1>1, <2>2, FromApiKept
      <3> QED BY <3>1, <3>2 DEF CardRead
    <2>3. ASSUME NEW k \in UploadKeys, ApplyFromSingle(k) PROVE CardRead'
      <3>1. /\ stage = "single" /\ stage' = "single" /\ todo' = todo \ {k} /\ api' = api
            /\ single' = IF Brought(k) = NoKey THEN single ELSE [single EXCEPT ![k] = NoKey]
        BY <2>3 DEF ApplyFromSingle
      <3>2. single \in [UploadKeys -> Values \cup {NoKey}]
        BY <1>1 DEF Books
      <3>3. Brought(k) = IF single[k] \in {Placeholder, Default[k]} THEN NoKey ELSE single[k]
        BY <3>1 DEF Brought
      <3>4. ~Waiting(k)'
        BY <3>1, <3>2, <3>3 DEF Waiting
      <3>5. \A j \in UploadKeys \ todo : j # k => ~Waiting(j)'
        <4>1. \A j \in UploadKeys : j # k => single'[j] = single[j]
          BY <3>1, <3>2
        <4> QED BY <1>1, <3>1, <4>1 DEF CardRead, Waiting
      <3>6. \A j \in UploadKeys \ todo' : ~Waiting(j)'
        BY <3>1, <3>4, <3>5
      <3> QED BY <1>1, <3>1, <3>6 DEF CardRead
    <2>4. ASSUME NEW k, PresaveCut(k) \/ ApplyCut(k) PROVE CardRead'
      BY <1>2, <2>4 DEF PresaveCut, ApplyCut
    <2>5. CASE PresaveDone
      BY <2>5 DEF PresaveDone, CardRead
    <2>6. CASE ApiDone
      BY <2>6 DEF ApiDone, CardRead
    <2>7. CASE SingleDone
      <3>1. stage = "single" /\ todo = {} /\ stage' = "up" /\ api' = api /\ single' = single
        BY <2>7 DEF SingleDone, card
      <3> QED BY <1>1, <3>1 DEF CardRead, Waiting
    <2> QED BY <1>4, <2>1, <2>2, <2>3, <2>4, <2>5, <2>6, <2>7 DEF Import
  <1>5. ASSUME stage = "up", stage' = "up", UNCHANGED <<api, single>> PROVE CardRead'
    BY <1>1, <1>5 DEF CardRead, Waiting
  <1>6. CASE Networks
    <2>1. ASSUME NEW i, ReplaceSaved(i) \/ MarkSuccessful(i) \/ RemoveSaved(i) PROVE CardRead'
      BY <1>5, <2>1 DEF ReplaceSaved, MarkSuccessful, RemoveSaved, card
    <2> QED BY <1>2, <1>5, <1>6, <2>1 DEF Networks, ImportWifi, DiscardPending, WifiCut, card
  <1>7. CASE Menu
    <2>1. ASSUME NEW k, NEW v, SaveSetting(k, v) PROVE CardRead'
      BY <1>5, <2>1 DEF SaveSetting, card
    <2>2. ASSUME NEW f, SaveFences(f) PROVE CardRead'
      BY <1>5, <2>2 DEF SaveFences, card
    <2> QED BY <1>2, <1>5, <1>7, <2>1, <2>2
            DEF Menu, SaveSettingCut, SetFence, ClearFence, SaveFencesCut, ResetSettings, Reset, card
  <1>8. CASE PowerCycle
    BY <1>8 DEF PowerCycle, CardRead
  <1> QED BY <1>3, <1>4, <1>6, <1>7, <1>8 DEF Next

LEMMA InitCustody == Init => Custody
  <1> SUFFICES ASSUME Init PROVE Custody
    OBVIOUS
  <1>1. /\ stage = "off" /\ taken = [k \in UploadKeys |-> NoKey]
        /\ flash \in {Empty} \cup {OlderDoc(l) : l \in SSIDs \cup {NoSSID}} \cup {InUse(l) : l \in Lists}
    BY DEF Init
  <1>2. \A l : OlderDoc(l).has = Names \ Late /\ InUse(l).has = Names
    BY DEF OlderDoc, InUse, DefaultDoc, Empty
  <1>3. flash = Empty \/ flash.has \in {Names \ Late, Names}
    BY <1>1, <1>2
  <1>4. Whole /\ CardRead
    BY <1>1, <1>3 DEF Whole, CardRead
  <1>5. \A k \in UploadKeys : Entrusted(k)
    BY <1>1 DEF Entrusted
  <1> QED BY <1>4, <1>5 DEF Custody

LEMMA CustodyStep == SettingsInv /\ Custody /\ [Next]_vars => Custody'
  <1> SUFFICES ASSUME SettingsInv, Custody, [Next]_vars PROVE Custody'
    OBVIOUS
  <1>1. CASE Next
    <2>1. CardRead'
      BY <1>1, CardStep
    <2>2. Untouched' => Kept
      BY <1>1, KeptStep
    <2>3. ~Untouched' => Whole'
      BY DEF Whole
    <2> QED BY <2>1, <2>2, <2>3 DEF Custody, Kept
  <1>2. CASE UNCHANGED vars
    <2>1. UNCHANGED <<flash, text, cache, stage, todo, api, single, taken, wiped, fails>>
      BY <1>2 DEF vars, docs, card, history, bounds
    <2>2. UNCHANGED <<Untouched, Whole, CardRead>>
      BY <2>1 DEF Untouched, Whole, CardRead, Waiting
    <2>3. value' = value
      BY <2>1 DEF value, Cached, Read
    <2>4. \A k \in UploadKeys : Entrusted(k) => Entrusted(k)'
      BY <2>1, <2>3, EntrustedFrame
    <2> QED BY <2>2, <2>4 DEF Custody
  <1> QED BY <1>1, <1>2

LEMMA CustodyAlways == Spec => []Custody
  BY InitSettings, InitCustody, NextSettings, CustodyStep, SettingsAlways, PTL DEF Spec

\* A key taken from a file on the card, which is then removed, is the one in use
\* once the device is up, unless settings were lost or a write failed, or RunSetup
\* finds an empty file or a placeholder to store in its place.
THEOREM SettingsKeysKept == Spec => []KeysKept
  <1>1. Custody => KeysKept
    <2> SUFFICES ASSUME Custody, stage = "up", ~wiped, fails = 0, NEW k \in UploadKeys
                 PROVE  \/ taken[k] \in {NoKey, cache[k]}
                        \/ k \in Presaved /\ single[k] \in {Placeholder, Default[k]}
      BY DEF KeysKept
    <2>1. Entrusted(k) /\ ~Waiting(k) /\ api[k] = NoKey
      BY DEF Custody, CardRead, Untouched
    <2> QED BY <2>1 DEF Entrusted, value
  <1> QED BY <1>1, CustodyAlways, PTL
=============================================================================
