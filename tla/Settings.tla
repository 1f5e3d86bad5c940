----------------------------- MODULE Settings -----------------------------
(***************************************************************************)
(* The settings (esp32_marauder/settings.cpp): one JSON document in        *)
(* SPIFFS, rewritten in place by every save; its text in RAM, of which     *)
(* readers parse the first document; and a cache of the single values.     *)
(* With it what a boot does to them: defaults and migrations, and the      *)
(* import of upload keys and WiFi credentials from the card                *)
(* (esp32_marauder/WiFiScan.cpp).                                          *)
(*                                                                         *)
(* All of this runs on the main task; what can cut into it is the power.   *)
(* A write truncates the file first, so a cut leaves a part of the new     *)
(* document, of which a boot keeps the entries that are whole and, from    *)
(* the last one, perhaps a name without its value.                         *)
(***************************************************************************)
EXTENDS Naturals, Sequences, FiniteSets

CONSTANTS
  Keys,       \* the single values: Swarm, Region, wu, wt, ...
  UploadKeys, \* those the card may bring
  Presaved,   \* those of them that RunSetup stores as well: wu, wt, wdg_key
  Late,       \* the names begin() adds to a document of an older build
  Probe,      \* the name setup() looks for to accept a document: wu
  Rank,       \* the place of each name in the document
  Values, Default, Junk, Placeholder,  \* of a key; Junk is what a name without a value reads
  SSIDs, NoSSID, MAX_SAVED_WIFI_PROFILES,
  Slots,      \* of the geofences
  MaxFails, MaxCuts  \* bounds: files that do not open, power cuts in a write

Names == Keys \cup {"SavedWiFi", "Geofences"}

ASSUME KeyAssumption ==
  /\ Presaved \subseteq UploadKeys /\ UploadKeys \subseteq Keys
  /\ Late \subseteq Names /\ Probe \in Keys \ Late
  /\ {"SavedWiFi", "Geofences"} \subseteq Late \ Keys
ASSUME RankAssumption  == Rank \in [Names -> Nat]
ASSUME ValueAssumption == Default \in [Keys -> Values] /\ {Junk, Placeholder} \subseteq Values
ASSUME BoundAssumption ==
  /\ NoSSID \notin SSIDs /\ MAX_SAVED_WIFI_PROFILES \in Nat \ {0}
  /\ MaxFails \in Nat /\ MaxCuts \in Nat

VARIABLES
  flash,   \* /settings.json
  text,    \* the first document of json_settings_string
  cache,   \* _cache
  stage,   \* off, the stages of setup() that touch settings, and up
  todo,    \* the keys the stage has still to look at
  api,     \* the real keys in API.txt on the card
  single,  \* the single-value key files on the card
  wifiFile, \* the network in the card's credentials file
  pending, \* pending_wifi_credential: joined, but no room to save it
  given,   \* history: networks reported as saved and not removed since
  taken,   \* history: the key last taken from a file that was then removed
  wiped,   \* history: a reset, an overwrite or a cut took settings away
  fails, cuts

docs    == <<flash, text, cache>>
card    == <<api, single, wifiFile>>
history == <<given, taken, wiped>>
bounds  == <<fails, cuts>>
vars    == <<docs, stage, todo, card, pending, history, bounds>>

NoKey == "no file"

---------------------------------------------------------------------------
(* Documents.  has: the names in it; null: those of them without a value.   *)
(* No document, an empty file and the document "null" read alike: Empty.   *)

Empty == [has |-> {}, null |-> {}, key |-> Default, wifi |-> <<>>, fence |-> {}, legacy |-> NoSSID]
DefaultDoc == [Empty EXCEPT !.has = Names]

Read(d, k) == IF k \in d.null THEN Junk ELSE d.key[k]
Cached(d)  == [k \in Keys |-> Read(d, k)]

\* What is left when the power goes while d is written: the names before some
\* place, the last one with a part of its value, or with none.
TornWifi(d, left, last) ==
  IF "SavedWiFi" \in last THEN {SubSeq(d.wifi, 1, m) : m \in 0 .. Len(d.wifi)}
  ELSE IF "SavedWiFi" \in left THEN {d.wifi} ELSE {<<>>}
TornFence(d, left, last) ==
  IF "Geofences" \in last THEN SUBSET d.fence
  ELSE IF "Geofences" \in left THEN {d.fence} ELSE {{}}
TornDoc(d, left, p) ==
  [has |-> left, null |-> (d.null \cap left) \cup p.gone,
   key |-> [k \in Keys |-> IF k \in left \ p.gone THEN d.key[k] ELSE Default[k]],
   wifi |-> p.wifi, fence |-> p.fence, legacy |-> p.legacy]
TornAt(d, n) ==
  LET left == {e \in d.has : Rank[e] < n}
      last == {e \in left : Rank[e] + 1 = n}
  IN  {TornDoc(d, left, p) :
         p \in [gone : SUBSET last, wifi : TornWifi(d, left, last), fence : TornFence(d, left, last),
                legacy : IF Probe \in left THEN {d.legacy} ELSE {d.legacy, NoSSID}]}
Torn(d) == UNION {TornAt(d, n) : n \in {0} \cup {Rank[e] + 1 : e \in d.has}}

\* begin: the entries a document of an older build lacks, a list for the networks
\* and, while it is empty, the one network older builds knew.
MigratedAllOrNone(d) ==  \* mutant: what came late is added only where none of it is there
  IF d.has = {} THEN d
  ELSE [d EXCEPT !.has = IF @ \cap Late = {} THEN @ \cup Late ELSE @, !.null = @ \ {"SavedWiFi"},
                 !.wifi = IF @ = <<>> /\ d.legacy # NoSSID THEN <<d.legacy>> ELSE @]
Migrated(d) ==
  IF d.has = {} THEN d
  ELSE [d EXCEPT !.has = @ \cup Late, !.null = @ \ {"SavedWiFi"},
                 !.wifi = IF @ = <<>> /\ d.legacy # NoSSID THEN <<d.legacy>> ELSE @]

---------------------------------------------------------------------------
(* Every write of the file: it does not open, the power goes, or it is done. *)

OpenFails ==
  /\ fails < MaxFails /\ fails' = fails + 1
  /\ UNCHANGED <<docs, given, wiped, cuts>>

CutIn(d) ==
  /\ cuts < MaxCuts /\ cuts' = cuts + 1 /\ wiped' = TRUE
  /\ flash' \in Torn(d)
  /\ text' = Empty /\ cache' = Default
  /\ stage' = "off" /\ todo' = {} /\ pending' = NoSSID
  /\ given' = {} /\ UNCHANGED <<taken, fails, card>>

\* The text is replaced by the document just written (writeSettingsDocument,
\* saveSetting), or the document goes behind the one that is there
\* (saveWifiCredential, removeSavedWifiCredential).
Store(d) == flash' = d /\ text' = d
StoreBehind(d) == flash' = d /\ text' = IF text.has = {} THEN d ELSE text

\* createDefaultSettings
Reset ==
  /\ Store(DefaultDoc) /\ cache' = Default
  /\ wiped' = TRUE /\ given' = {}
  /\ UNCHANGED <<taken, card, pending, bounds>>

---------------------------------------------------------------------------
(* setup() *)

\* begin: the document is read and brought up to date, or defaults are written.
BeginDefaults ==
  /\ stage = "off"
  /\ flash.has = {}
  /\ Store(DefaultDoc) /\ cache' = Default
  /\ stage' = "begun"
  /\ UNCHANGED <<todo, card, pending, history, bounds>>

BeginReads ==
  /\ stage = "off" /\ flash.has # {}
  /\ Store(Migrated(flash)) /\ cache' = Cached(text')
  /\ stage' = "begun"
  /\ UNCHANGED <<todo, card, pending, history, bounds>>

\* The file is there but does not open for reading: defaults are written over it.
BeginOverwrites ==
  /\ stage = "off" /\ flash.has # {}
  /\ fails < MaxFails /\ fails' = fails + 1
  /\ Store(DefaultDoc) /\ cache' = Default
  /\ wiped' = TRUE /\ given' = {}
  /\ stage' = "begun"
  /\ UNCHANGED <<todo, card, pending, taken, cuts>>

\* Neither: no file opened for writing where one was needed, after one that did
\* not open for reading too.  The failures of one boot count once.
BeginFails ==
  /\ stage = "off"
  /\ OpenFails /\ stage' = "begun"
  /\ UNCHANGED <<todo, card, pending, taken>>

BeginCut ==
  /\ stage = "off"
  /\ \/ CutIn(DefaultDoc)
     \/ flash.has # {} /\ Migrated(flash) # flash /\ CutIn(Migrated(flash))

\* A document without the probe is replaced by the defaults.
Accept ==
  /\ stage = "begun" /\ Probe \in text.has
  /\ stage' = "presave" /\ todo' = Presaved
  /\ UNCHANGED <<docs, card, pending, history, bounds>>

InstallDefaults ==
  /\ stage = "begun" /\ Probe \notin text.has
  /\ Reset
  /\ stage' = "presave" /\ todo' = Presaved

InstallFails ==
  /\ stage = "begun" /\ Probe \notin text.has
  /\ OpenFails
  /\ stage' = "presave" /\ todo' = Presaved
  /\ UNCHANGED <<card, pending, taken>>

InstallCut == stage = "begun" /\ Probe \notin text.has /\ CutIn(DefaultDoc)

---------------------------------------------------------------------------
(* saveSetting *)

WithKey(k, v) == [text EXCEPT !.key[k] = v, !.null = @ \ {k}]

\* Saved, in the document, the text and the cache; or no entry of that name.
SavedUncached(k, v) ==  \* mutant: a save forgets the cache
  /\ UNCHANGED <<pending, given, wiped, bounds, cache>>
  /\ IF k \in text.has THEN Store(WithKey(k, v)) ELSE UNCHANGED <<flash, text>>
SavedOrCached(k, v) ==  \* mutant: without an entry the value acts until the reboot
  /\ UNCHANGED <<pending, given, wiped, bounds>>
  /\ cache' = [cache EXCEPT ![k] = v]
  /\ IF k \in text.has THEN Store(WithKey(k, v)) ELSE UNCHANGED <<flash, text>>
Saved(k, v) ==
  /\ UNCHANGED <<pending, given, wiped, bounds>>
  /\ IF k \in text.has
     THEN Store(WithKey(k, v)) /\ cache' = [cache EXCEPT ![k] = v]
     ELSE UNCHANGED docs

NotSaved(k) ==
  /\ k \in text.has /\ OpenFails
  /\ UNCHANGED pending

---------------------------------------------------------------------------
(* The keys on the card.  RunSetup stores single-value files as they are;   *)
(* loadUploadApiKeys then takes API.txt, then the single-value files, and   *)
(* removes what it took, whatever became of the save.                       *)

PresaveUnread(k) ==  \* mutant: what a missing file reads as is stored
  /\ stage = "presave" /\ k \in todo /\ todo' = todo \ {k}
  /\ UNCHANGED <<stage, card, taken>> /\ Saved(k, single[k])
Presave(k) ==
  /\ stage = "presave" /\ k \in todo /\ todo' = todo \ {k}
  /\ UNCHANGED <<stage, card, taken>>
  /\ \/ single[k] # NoKey /\ Saved(k, single[k])
     \/ single[k] # NoKey /\ NotSaved(k)
     \/ single[k] = NoKey /\ UNCHANGED <<docs, pending, given, wiped, bounds>>

PresaveCut(k) ==
  /\ stage = "presave" /\ k \in todo /\ single[k] # NoKey
  /\ k \in text.has /\ CutIn(WithKey(k, single[k]))

\* What the file of the stage says of key k, placeholders and empty ones left out.
Brought(k) ==
  IF stage = "api" THEN api[k]
  ELSE IF single[k] \in {Placeholder, Default[k]} THEN NoKey ELSE single[k]

AppliedUnlessPresaved(k) ==  \* mutant: leaves to RunSetup what RunSetup stores too
  \/ (k \in Presaved \/ Brought(k) \in {NoKey, cache[k]})
     /\ UNCHANGED <<docs, pending, given, wiped, bounds>>
  \/ k \notin Presaved /\ Brought(k) \notin {NoKey, cache[k]} /\ Saved(k, Brought(k))
\* applyUploadApiKey saves a key that changes.
Applied(k) ==
  \/ Brought(k) \in {NoKey, cache[k]} /\ UNCHANGED <<docs, pending, given, wiped, bounds>>
  \/ Brought(k) \notin {NoKey, cache[k]} /\ Saved(k, Brought(k))
  \/ Brought(k) \notin {NoKey, cache[k]} /\ NotSaved(k)

ApplyFromApi(k) ==
  /\ stage = "api" /\ k \in todo /\ todo' = todo \ {k}
  /\ Applied(k) /\ UNCHANGED <<stage, card, taken>>

ApplyFromSingle(k) ==
  /\ stage = "single" /\ k \in todo /\ todo' = todo \ {k}
  /\ Applied(k)
  /\ single' = IF Brought(k) = NoKey THEN single ELSE [single EXCEPT ![k] = NoKey]
  /\ taken' = IF Brought(k) = NoKey THEN taken ELSE [taken EXCEPT ![k] = Brought(k)]
  /\ UNCHANGED <<stage, api, wifiFile>>

ApplyCut(k) ==
  /\ stage \in {"api", "single"} /\ k \in todo
  /\ Brought(k) \notin {NoKey, cache[k]}
  /\ k \in text.has /\ CutIn(WithKey(k, Brought(k)))

PresaveDone ==
  /\ stage = "presave" /\ todo = {}
  /\ stage' = "api" /\ todo' = UploadKeys
  /\ UNCHANGED <<docs, card, pending, history, bounds>>

\* API.txt is removed when a key of it was applied.
ApiDone ==
  /\ stage = "api" /\ todo = {}
  /\ api' = [k \in UploadKeys |-> NoKey]
  /\ taken' = [k \in UploadKeys |-> IF api[k] = NoKey THEN taken[k] ELSE api[k]]
  /\ stage' = "single" /\ todo' = UploadKeys
  /\ UNCHANGED <<docs, single, wifiFile, pending, given, wiped, bounds>>

SingleDone ==
  /\ stage = "single" /\ todo = {}
  /\ stage' = "up"
  /\ UNCHANGED <<docs, todo, card, pending, history, bounds>>

---------------------------------------------------------------------------
(* The saved networks, the most recent first *)

\* saveWifiCredential rotates the slots up to `at` and puts s in front; `at` is
\* where s is, a new slot at the end, or the slot the user gave up for it.
IndexButLast(list, s) ==  \* mutant: the search stops one slot early
  IF \E i \in DOMAIN list : i < Len(list) /\ list[i] = s
  THEN CHOOSE i \in DOMAIN list : list[i] = s ELSE 0
Index(list, s) == IF \E i \in DOMAIN list : list[i] = s
                  THEN CHOOSE i \in DOMAIN list : list[i] = s ELSE 0
Target(list, s, replace) ==
  IF Index(list, s) # 0 THEN Index(list, s)
  ELSE IF Len(list) < MAX_SAVED_WIFI_PROFILES THEN Len(list) + 1
  ELSE replace
RotatedToEnd(list, s, at) ==  \* mutant: rotates from the last slot whatever slot was found
  [i \in 1 .. (IF at > Len(list) THEN at ELSE Len(list)) |-> IF i = 1 THEN s ELSE list[i - 1]]
Rotated(list, s, at) ==
  [i \in 1 .. (IF at > Len(list) THEN at ELSE Len(list)) |->
     IF i = 1 THEN s ELSE IF i <= at THEN list[i - 1] ELSE list[i]]

WithWifi(list) == [text EXCEPT !.wifi = list]

\* The network at `at` gives way to s, or s moves from there.
Evicted(s, at) == IF at \in DOMAIN text.wifi THEN {text.wifi[at]} \ {s} ELSE {}

WifiSaved(s, at) ==
  /\ text.has # {} /\ at # 0
  /\ StoreBehind(WithWifi(Rotated(text.wifi, s, at)))
  /\ given' = (given \ Evicted(s, at)) \cup {s}
  /\ UNCHANGED <<cache, wiped, bounds>>

WifiNotSaved ==
  \/ text.has = {} /\ UNCHANGED <<docs, given, wiped, bounds>>
  \/ text.has # {} /\ OpenFails

\* autoConnectUploadWiFi joined the network of the credentials file: it is saved,
\* or kept in RAM when the list is full, or lost; where it was joined before,
\* joinWiFi returns and saves nothing.  The file is removed.
ImportWifi ==
  /\ stage = "up" /\ wifiFile # NoSSID /\ wifiFile' = NoSSID
  /\ LET at == Target(text.wifi, wifiFile, 0)
     IN  \/ UNCHANGED <<docs, pending, given, wiped, bounds>>
         \/ WifiSaved(wifiFile, at) /\ UNCHANGED pending
         \/ at # 0 /\ WifiNotSaved /\ UNCHANGED pending
         \/ at = 0 /\ pending' = wifiFile /\ UNCHANGED <<docs, given, wiped, bounds>>
  /\ UNCHANGED <<stage, todo, api, single, taken>>

\* The menu of a full list: one is replaced by the network kept in RAM, or none.
ReplaceSaved(i) ==
  /\ stage = "up" /\ pending # NoSSID /\ i \in DOMAIN text.wifi
  /\ \/ WifiSaved(pending, Target(text.wifi, pending, i)) /\ pending' = NoSSID
     \/ WifiNotSaved /\ UNCHANGED pending
  /\ UNCHANGED <<stage, todo, card, taken>>

DiscardPending ==
  /\ stage = "up" /\ pending # NoSSID /\ pending' = NoSSID
  /\ UNCHANGED <<docs, stage, todo, card, history, bounds>>

\* markSavedWifiSuccessful after joinSavedWiFi: no write for the first one.
MarkSuccessful(i) ==
  /\ stage = "up" /\ i \in DOMAIN text.wifi \ {1}
  /\ WifiSaved(text.wifi[i], i) \/ WifiNotSaved
  /\ UNCHANGED <<stage, todo, card, pending, taken>>

RemoveAt(list, i) == SubSeq(list, 1, i - 1) \o SubSeq(list, i + 1, Len(list))

RemoveSaved(i) ==
  /\ stage = "up" /\ i \in DOMAIN text.wifi
  /\ \/ /\ StoreBehind(WithWifi(RemoveAt(text.wifi, i)))
        /\ given' = given \ {text.wifi[i]} /\ UNCHANGED <<cache, wiped, bounds>>
     \/ WifiNotSaved
  /\ UNCHANGED <<stage, todo, card, pending, taken>>

\* The power goes in one of these writes.
WifiCut ==
  /\ stage = "up" /\ text.has # {}
  /\ \/ /\ wifiFile # NoSSID /\ Target(text.wifi, wifiFile, 0) # 0
        /\ CutIn(WithWifi(Rotated(text.wifi, wifiFile, Target(text.wifi, wifiFile, 0))))
     \/ \E i \in DOMAIN text.wifi :
          \/ /\ pending # NoSSID
             /\ CutIn(WithWifi(Rotated(text.wifi, pending, Target(text.wifi, pending, i))))
          \/ i # 1 /\ CutIn(WithWifi(Rotated(text.wifi, text.wifi[i], i)))
          \/ CutIn(WithWifi(RemoveAt(text.wifi, i)))

---------------------------------------------------------------------------
(* Settings menu, command line, geofences, power *)

SaveSetting(k, v) ==
  /\ stage = "up" /\ k \in Keys \ UploadKeys /\ k # Probe /\ v \in Values \ {Junk, Placeholder}
  /\ Saved(k, v) \/ NotSaved(k)
  /\ UNCHANGED <<stage, todo, card, taken>>

SaveSettingCut(k, v) ==
  /\ stage = "up" /\ k \in Keys \ UploadKeys /\ k # Probe /\ v \in Values \ {Junk, Placeholder}
  /\ k \in text.has /\ CutIn(WithKey(k, v))

\* saveGeofence and clearGeofence; without a list in the document nothing is kept.
WithFences(f) == IF "Geofences" \in text.null THEN text ELSE [text EXCEPT !.fence = f]

SaveFencesBehind(f) ==  \* mutant: the document is appended to the text, as it once was
  /\ stage = "up" /\ text.has # {}
  /\ \/ StoreBehind(WithFences(f)) /\ UNCHANGED <<cache, given, wiped, bounds>>
     \/ OpenFails
  /\ UNCHANGED <<stage, todo, card, pending, taken>>
SaveFences(f) ==
  /\ stage = "up" /\ text.has # {}
  /\ \/ Store(WithFences(f)) /\ UNCHANGED <<cache, given, wiped, bounds>>
     \/ OpenFails
  /\ UNCHANGED <<stage, todo, card, pending, taken>>

SaveFencesCut(f) == stage = "up" /\ text.has # {} /\ CutIn(WithFences(f))

SetFence(n)   == SaveFences(text.fence \cup {n}) \/ SaveFencesCut(text.fence \cup {n})
ClearFence(n) == SaveFences(text.fence \ {n}) \/ SaveFencesCut(text.fence \ {n})

ResetSettings ==
  /\ stage = "up" /\ Reset /\ UNCHANGED <<stage, todo>>

PowerCycle ==
  /\ stage # "off" /\ stage' = "off"
  /\ text' = Empty /\ cache' = Default /\ todo' = {} /\ pending' = NoSSID
  /\ UNCHANGED <<flash, card, history, bounds>>

---------------------------------------------------------------------------
Begin == BeginDefaults \/ BeginReads \/ BeginOverwrites \/ BeginFails \/ BeginCut
Install == Accept \/ InstallDefaults \/ InstallFails \/ InstallCut
Import ==
  \/ \E k \in UploadKeys : \/ Presave(k) \/ PresaveCut(k) \/ ApplyFromApi(k)
                           \/ ApplyFromSingle(k) \/ ApplyCut(k)
  \/ PresaveDone \/ ApiDone \/ SingleDone
Networks ==
  \/ ImportWifi \/ DiscardPending \/ WifiCut
  \/ \E i \in 1 .. MAX_SAVED_WIFI_PROFILES : ReplaceSaved(i) \/ MarkSuccessful(i) \/ RemoveSaved(i)
Menu ==
  \/ \E k \in Keys, v \in Values : SaveSetting(k, v) \/ SaveSettingCut(k, v)
  \/ \E n \in Slots : SetFence(n) \/ ClearFence(n)
  \/ ResetSettings
Next == Begin \/ Install \/ Import \/ Networks \/ Menu \/ PowerCycle

\* A new device, one whose settings an older build wrote, or one with as many
\* networks as it can hold; what the user put on the card.
Lists == {l \in [1 .. MAX_SAVED_WIFI_PROFILES -> SSIDs] :
            \A i, j \in DOMAIN l : l[i] = l[j] => i = j}
InUse(l) == [DefaultDoc EXCEPT !.wifi = l]
OlderDoc(l) == [Empty EXCEPT !.has = Names \ Late, !.legacy = l]
Init ==
  /\ flash \in {Empty} \cup {OlderDoc(l) : l \in SSIDs \cup {NoSSID}} \cup {InUse(l) : l \in Lists}
  /\ text = Empty /\ cache = Default
  /\ stage = "off" /\ todo = {}
  /\ api \in {f \in [UploadKeys -> (Values \ {Junk, Placeholder}) \cup {NoKey}] :
               \A k \in UploadKeys : f[k] # Default[k]}
  /\ single \in [UploadKeys -> (Values \ {Junk}) \cup {NoKey}]
  /\ wifiFile \in SSIDs \cup {NoSSID} /\ pending = NoSSID
  /\ given = {} /\ taken = [k \in UploadKeys |-> NoKey] /\ wiped = FALSE /\ fails = 0 /\ cuts = 0

Spec == Init /\ [][Next]_vars

---------------------------------------------------------------------------
(* Properties *)

Docs == [has : SUBSET Names, null : SUBSET Names, key : [Keys -> Values], wifi : Seq(SSIDs),
         fence : SUBSET Slots, legacy : SSIDs \cup {NoSSID}]

TypeOK ==
  /\ flash \in Docs /\ text \in Docs /\ cache \in [Keys -> Values]
  /\ stage \in {"off", "begun", "presave", "api", "single", "up"} /\ todo \subseteq UploadKeys
  /\ api \in [UploadKeys -> Values \cup {NoKey}] /\ single \in [UploadKeys -> Values \cup {NoKey}]
  /\ wifiFile \in SSIDs \cup {NoSSID} /\ pending \in SSIDs \cup {NoSSID}
  /\ given \subseteq SSIDs /\ taken \in [UploadKeys -> Values \cup {NoKey}] /\ wiped \in BOOLEAN
  /\ fails \in 0 .. MaxFails /\ cuts \in 0 .. MaxCuts

\* "All loadSetting<T>() reads hit this struct": it says what the document says,
\* whatever failed, was torn, migrated or reset before (settings.h:48).
CacheIsText == stage # "off" => cache = Cached(text)

\* What a reader sees and what the next boot reads differ in the saved networks
\* at most: no save of a key or a geofence may miss one of the two.
OnlyNetworksDiffer ==
  text.has # {} => flash = [text EXCEPT !.wifi = flash.wifi]

\* The list holds a network once and never outgrows its slots: the search for a
\* saved one, the append, the replacement and the rotation work on one array.
ProfilesDistinct ==
  \A d \in {flash, text} :
    /\ Len(d.wifi) <= MAX_SAVED_WIFI_PROFILES
    /\ \A i, j \in DOMAIN d.wifi : d.wifi[i] = d.wifi[j] => i = j

\* A document in use has the entries that came late, whatever build or torn write
\* left it: without one "schlägt saveSetting fehl (kein Treffer in der Schleife)
\* und der Toggle wirkt nur bis zum Reboot" (settings.cpp:56-58).
LateEntriesThere ==
  stage \notin {"off", "begun"} => text.has = {} \/ Late \subseteq text.has

\* While readers see the list that is stored, one step of the running device does
\* to it one of these, a reset apart: nothing; one network moves to the front or is
\* added there and the others keep their order; one is pushed out, only of a full
\* list and for the one the user was asked about; one is removed and the others
\* keep their order (saveWifiCredential, markSavedWifiSuccessful,
\* removeSavedWifiCredential; no other save touches it).  Where readers see an
\* older list, networks do get lost: see NetworksKept.
Nets(list) == {list[i] : i \in DOMAIN list}
Before(list, x, y) == \E i, j \in DOMAIN list : i < j /\ list[i] = x /\ list[j] = y
InOrderBut(new, old, s) ==
  \A x, y \in Nets(new) \ {s} : Before(new, x, y) => Before(old, x, y)
Moved(new, old) ==
  \E s \in SSIDs :
    /\ InOrderBut(new, old, s)
    /\ \/ Nets(new) = Nets(old) \ {s}
       \/ Nets(new) = Nets(old) \cup {s} /\ new[1] = s
       \/ /\ Len(old) = MAX_SAVED_WIFI_PROFILES /\ s = pending
          /\ \E gone \in SSIDs : Nets(new) = (Nets(old) \ {gone}) \cup {s}
          /\ new[1] = s
MostRecentFirst ==
  [][ (stage = "up" /\ stage' = "up" /\ flash.wifi = text.wifi /\ ~ResetSettings) =>
        flash'.wifi = flash.wifi \/ Moved(flash'.wifi, flash.wifi) ]_vars

\* The settings are durable registers: as long as no file failed to open, nothing
\* was cut and no reset asked for, keys change one at a time and by a save alone.
Durable == INSTANCE DurableKeys WITH
  value <- IF stage = "off" THEN Cached(flash) ELSE cache, kept <- Cached(flash),
  spoilt <- wiped \/ fails > 0
KeepsKeys == Durable!DurableSpec

\* A key taken from the card, its file then removed, stays stored until another
\* one is taken, "the card only carries them once" (README.md:51), if no
\* placeholder or empty file is on the card for RunSetup to store in its place.
KeysKept ==
  (stage = "up" /\ ~wiped /\ fails = 0) =>
     \A k \in UploadKeys : \/ taken[k] \in {NoKey, cache[k]}
                           \/ k \in Presaved /\ single[k] \in {Placeholder, Default[k]}

\* A network imported from the card, the file then removed, stays saved.
NetworksKept == stage = "up" => given \subseteq Nets(flash.wifi)
===========================================================================
