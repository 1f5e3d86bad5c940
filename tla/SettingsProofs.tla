--------------------------- MODULE SettingsProofs ---------------------------
(***************************************************************************)
(* The settings, for every set of keys, networks and slots, every order of *)
(* the names in the document and every number of failures and power cuts:  *)
(* the cache is the text, flash and text differ in the networks at most,   *)
(* the list holds each network once, and the keys are the durable          *)
(* registers of DurableKeys.                                               *)
(***************************************************************************)
EXTENDS Settings, SequenceTheorems, TLAPS

Distinct(list) ==
  /\ Len(list) <= MAX_SAVED_WIFI_PROFILES
  /\ \A i, j \in DOMAIN list : list[i] = list[j] => i = j

\* What the running program may hold: nothing, or every entry that came late.
Complete(d) == \/ d.has = {} /\ d.wifi = <<>>
               \/ d.has # {} /\ Late \subseteq d.has

\* A document that may be written.
Good(d) == d \in Docs /\ Distinct(d.wifi) /\ Complete(d)

\* The invariant of flash, text and cache.  The text is kept complete even when
\* the flash is not (a cut), because begin reads through the migration; and no
\* text is left over from before the power went.
DocsInv ==
  /\ flash \in Docs /\ Distinct(flash.wifi) /\ Good(text)
  /\ cache = Cached(text)
  /\ OnlyNetworksDiffer
  /\ stage = "off" => text = Empty
  /\ flash.has = {} => Cached(flash) = Default

\* The rest of the type invariant.
Books ==
  /\ stage \in {"off", "begun", "presave", "api", "single", "up"} /\ todo \subseteq UploadKeys
  /\ api \in [UploadKeys -> Values \cup {NoKey}] /\ single \in [UploadKeys -> Values \cup {NoKey}]
  /\ wifiFile \in SSIDs \cup {NoSSID} /\ pending \in SSIDs \cup {NoSSID}
  /\ given \subseteq SSIDs /\ taken \in [UploadKeys -> Values \cup {NoKey}] /\ wiped \in BOOLEAN
  /\ fails \in 0 .. MaxFails /\ cuts \in 0 .. MaxCuts

SettingsInv == DocsInv /\ Books

USE KeyAssumption, RankAssumption, ValueAssumption, BoundAssumption

---------------------------------------------------------------------------
(* Documents and lists *)

LEMMA EmptyGood ==
  Empty \in Docs /\ DefaultDoc \in Docs /\ Good(Empty) /\ Good(DefaultDoc)
  <1>1. <<>> \in Seq(SSIDs) /\ Len(<<>>) = 0 /\ DOMAIN <<>> = {}
    OBVIOUS
  <1>2. Empty \in Docs /\ Empty.wifi = <<>> /\ Empty.has = {}
    BY <1>1 DEF Empty, Docs
  <1>3. DefaultDoc \in Docs /\ DefaultDoc.wifi = <<>> /\ DefaultDoc.has = Names
    BY <1>1 DEF Empty, DefaultDoc, Docs
  <1> QED BY <1>1, <1>2, <1>3 DEF Good, Distinct, Complete, Names

\* Fresh text and fresh cache agree, and a complete default document reads as Default.
LEMMA DefaultCached == Cached(Empty) = Default /\ Cached(DefaultDoc) = Default
  BY DEF Cached, Read, Empty, DefaultDoc

LEMMA DefaultNames == DefaultDoc.has = Names /\ DefaultDoc.has # {}
  BY DEF DefaultDoc, Empty, Names

LEMMA CachedType == ASSUME NEW d \in Docs PROVE Cached(d) \in [Keys -> Values]
  BY DEF Cached, Read, Docs

\* Two documents that differ in networks and fences read alike.
LEMMA CachedSame ==
  ASSUME NEW d \in Docs, NEW e \in Docs, d.key = e.key,
         d.null \cap Keys = e.null \cap Keys
  PROVE  Cached(d) = Cached(e)
  BY DEF Cached, Read

LEMMA MigratedGood ==
  ASSUME NEW d \in Docs, Distinct(d.wifi), d.has # {}
  PROVE  Good(Migrated(d)) /\ Cached(Migrated(d)) = Cached(d) /\ Migrated(d).has # {}
  <1> DEFINE w == IF d.wifi = <<>> /\ d.legacy # NoSSID THEN <<d.legacy>> ELSE d.wifi
  <1>1. d.wifi \in Seq(SSIDs) /\ d.legacy \in SSIDs \cup {NoSSID}
    BY DEF Docs
  <1>2. w \in Seq(SSIDs) /\ Distinct(w)
    BY <1>1 DEF Distinct
  <1>3. Migrated(d) = [d EXCEPT !.has = d.has \cup Late, !.null = d.null \ {"SavedWiFi"}, !.wifi = w]
    BY DEF Migrated
  <1> HIDE DEF w
  <1>4. /\ Migrated(d) \in Docs /\ Migrated(d).wifi = w /\ Late \subseteq Migrated(d).has
        /\ Migrated(d).key = d.key /\ Migrated(d).null = d.null \ {"SavedWiFi"}
    <2>1. d.has \cup Late \subseteq Names /\ d.null \ {"SavedWiFi"} \subseteq Names
      BY DEF Docs
    <2>2. Migrated(d) = [has |-> d.has \cup Late, null |-> d.null \ {"SavedWiFi"}, key |-> d.key,
                         wifi |-> w, fence |-> d.fence, legacy |-> d.legacy]
      BY <1>3 DEF Docs
    <2> QED BY <1>2, <2>1, <2>2 DEF Docs
  <1>5. Cached(Migrated(d)) = Cached(d)
    <2>1. (d.null \ {"SavedWiFi"}) \cap Keys = d.null \cap Keys
      OBVIOUS
    <2> QED BY <1>4, <2>1, CachedSame
  <1>6. Migrated(d).has # {}
    BY <1>4
  <1> QED BY <1>2, <1>4, <1>5, <1>6 DEF Good, Complete

\* Whatever a cut leaves is a document, its networks the first of those written;
\* a key reads as written, as its default, or as a name without a value.
LEMMA TornKeeps ==
  ASSUME NEW d \in Docs, Distinct(d.wifi), NEW t \in Torn(d)
  PROVE  /\ t \in Docs /\ Distinct(t.wifi)
         /\ \A k \in Keys : Cached(t)[k] \in {Cached(d)[k], Default[k], Junk}
         /\ t.has = {} => Cached(t) = Default
  <1>1. PICK n \in {0} \cup {Rank[e] + 1 : e \in d.has} : t \in TornAt(d, n)
    BY DEF Torn
  <1> DEFINE left == {e \in d.has : Rank[e] < n}
             last == {e \in left : Rank[e] + 1 = n}
             parts == [gone : SUBSET last, wifi : TornWifi(d, left, last),
                       fence : TornFence(d, left, last),
                       legacy : IF Probe \in left THEN {d.legacy} ELSE {d.legacy, NoSSID}]
  <1>2. PICK p \in parts : t = TornDoc(d, left, p)
    BY <1>1 DEF TornAt
  <1> DEFINE gone == p.gone
             w == p.wifi
             f == p.fence
             l == p.legacy
  <1>3. d.wifi \in Seq(SSIDs) /\ Len(d.wifi) \in Nat /\ DOMAIN d.wifi = 1 .. Len(d.wifi)
    BY DEF Docs
  <1>4. w \in Seq(SSIDs) /\ Distinct(w)
    <2>1. CASE w = d.wifi
      BY <1>3, <2>1
    <2>2. CASE w = <<>>
      BY <2>2 DEF Distinct
    <2>3. ASSUME NEW m \in 0 .. Len(d.wifi), w = SubSeq(d.wifi, 1, m) PROVE w \in Seq(SSIDs) /\ Distinct(w)
      <3>1. \A i \in 1 .. m : d.wifi[i] \in SSIDs
        BY <1>3
      <3>2. /\ w \in Seq(SSIDs) /\ Len(w) = m
            /\ \A i \in 1 .. m : w[i] = d.wifi[i]
        BY <2>3, <3>1, SubSeqProperties
      <3>3. Len(d.wifi) <= MAX_SAVED_WIFI_PROFILES
            /\ \A i, j \in 1 .. Len(d.wifi) : d.wifi[i] = d.wifi[j] => i = j
        BY <1>3 DEF Distinct
      <3>4. DOMAIN w = 1 .. m
        BY <3>2
      <3>5. ASSUME NEW i \in DOMAIN w, NEW j \in DOMAIN w, w[i] = w[j] PROVE i = j
        <4>1. i \in 1 .. Len(d.wifi) /\ j \in 1 .. Len(d.wifi) /\ w[i] = d.wifi[i] /\ w[j] = d.wifi[j]
          BY <1>3, <3>2, <3>4
        <4> QED BY <3>3, <3>5, <4>1
      <3>6. Len(w) <= MAX_SAVED_WIFI_PROFILES
        BY <1>3, <3>2, <3>3
      <3> QED BY <3>2, <3>5, <3>6 DEF Distinct
    <2>4. \/ w = d.wifi \/ w = <<>>
          \/ \E m \in 0 .. Len(d.wifi) : w = SubSeq(d.wifi, 1, m)
      BY <1>2 DEF TornWifi
    <2> QED BY <2>1, <2>2, <2>3, <2>4
  <1>5. f \in SUBSET Slots /\ l \in SSIDs \cup {NoSSID}
    BY <1>2 DEF Docs, TornFence
  <1>6. left \subseteq Names /\ gone \subseteq Names /\ d.null \subseteq Names
    BY DEF Docs
  <1>7. [k \in Keys |-> IF k \in left \ gone THEN d.key[k] ELSE Default[k]] \in [Keys -> Values]
    BY DEF Docs
  <1>8. t \in Docs
    BY <1>2, <1>4, <1>5, <1>6, <1>7 DEF Docs, TornDoc
  <1>9. ASSUME NEW k \in Keys PROVE Cached(t)[k] \in {Cached(d)[k], Default[k], Junk}
    <2>1. t.null = (d.null \cap left) \cup gone
          /\ t.key[k] = IF k \in left \ gone THEN d.key[k] ELSE Default[k]
      BY <1>2 DEF TornDoc
    <2>2. Cached(t)[k] = Read(t, k) /\ Cached(d)[k] = Read(d, k)
      BY DEF Cached
    <2> QED BY <2>1, <2>2 DEF Read
  <1>10. ASSUME t.has = {} PROVE Cached(t) = Default
    <2>1. left = {} /\ gone = {}
      BY <1>2, <1>10 DEF TornDoc
    <2>2. t.null = {} /\ t.key = [k \in Keys |-> Default[k]]
      BY <1>2, <2>1 DEF TornDoc
    <2>3. \A k \in Keys : Read(t, k) = Default[k]
      BY <2>2 DEF Read
    <2> QED BY <2>3 DEF Cached
  <1> QED BY <1>2, <1>4, <1>8, <1>9, <1>10 DEF TornDoc

\* The slot that saveWifiCredential rotates from is in the list or next to it, and
\* the only one that can hold the network.
LEMMA TargetRight ==
  ASSUME NEW list \in Seq(SSIDs), Distinct(list), NEW s, NEW replace \in 0 .. Len(list),
         Target(list, s, replace) # 0
  PROVE  /\ Target(list, s, replace) \in 1 .. Len(list) + 1
         /\ Target(list, s, replace) <= MAX_SAVED_WIFI_PROFILES
         /\ \A i \in DOMAIN list : list[i] = s => i = Target(list, s, replace)
  <1>1. Len(list) \in Nat /\ DOMAIN list = 1 .. Len(list) /\ Len(list) <= MAX_SAVED_WIFI_PROFILES
    BY DEF Distinct
  <1>2. CASE \E i \in DOMAIN list : list[i] = s
    <2>1. Index(list, s) \in DOMAIN list /\ list[Index(list, s)] = s
      BY <1>2 DEF Index
    <2>2. Target(list, s, replace) = Index(list, s)
      BY <1>1, <2>1 DEF Target
    <2> QED BY <1>1, <2>1, <2>2 DEF Distinct
  <1>3. CASE ~\E i \in DOMAIN list : list[i] = s
    <2>1. Index(list, s) = 0
      BY <1>3 DEF Index
    <2> QED BY <1>1, <1>3, <2>1 DEF Target
  <1> QED BY <1>2, <1>3

\* Rotated puts s first, moves the slots before `at` back by one and drops what was
\* there; nothing else moves.
RotatedLen(list, at) == IF at > Len(list) THEN at ELSE Len(list)
IsRotated(r, n, list, s, at) ==
  /\ r \in Seq(SSIDs) /\ DOMAIN r = 1 .. n /\ Len(r) = n /\ r[1] = s
  /\ n \in Nat /\ n >= Len(list) /\ n >= at /\ n <= Len(list) + 1 /\ (n > Len(list) => at = n)
  /\ \A k \in 2 .. n : r[k] = IF k <= at THEN list[k - 1] ELSE list[k]

LEMMA RotatedEntries ==
  ASSUME NEW list \in Seq(SSIDs), NEW s \in SSIDs, NEW at \in 1 .. Len(list) + 1
  PROVE  IsRotated(Rotated(list, s, at), RotatedLen(list, at), list, s, at)
  <1> DEFINE n == RotatedLen(list, at)
             r == Rotated(list, s, at)
  <1>1. Len(list) \in Nat /\ DOMAIN list = 1 .. Len(list)
    OBVIOUS
  <1>2. n \in Nat /\ n >= Len(list) /\ n >= at /\ n <= Len(list) + 1 /\ (n > Len(list) => at = n)
    <2>1. \/ at > Len(list) /\ n = at
          \/ ~(at > Len(list)) /\ n = Len(list)
      BY DEF RotatedLen
    <2> HIDE DEF n
    <2> QED BY <1>1, <2>1
  <1>3. \A i \in 1 .. Len(list) : list[i] \in SSIDs
    BY <1>1, ElementOfSeq
  <1>4. r = [i \in 1 .. n |-> IF i = 1 THEN s ELSE IF i <= at THEN list[i - 1] ELSE list[i]]
    BY DEF Rotated, RotatedLen
  <1> HIDE DEF n, r
  <1>5. \A i \in 1 .. n : r[i] \in SSIDs
    BY <1>1, <1>2, <1>3, <1>4
  <1>6. r \in Seq(SSIDs) /\ Len(r) = n /\ DOMAIN r = 1 .. n
    <2>1. r \in [1 .. n -> SSIDs]
      BY <1>4, <1>5
    <2>2. n \in Nat
      BY <1>2
    <2> QED BY ONLY <2>1, <2>2, SMT
  <1>7. r[1] = s /\ \A k \in 2 .. n : r[k] = IF k <= at THEN list[k - 1] ELSE list[k]
    BY <1>1, <1>2, <1>4
  <1> QED BY <1>2, <1>6, <1>7 DEF n, r, IsRotated

LEMMA RotatedGood ==
  ASSUME NEW list \in Seq(SSIDs), Distinct(list), NEW s \in SSIDs, NEW at \in 1 .. Len(list) + 1,
         at <= MAX_SAVED_WIFI_PROFILES,
         \A i \in DOMAIN list : list[i] = s => i = at
  PROVE  Rotated(list, s, at) \in Seq(SSIDs) /\ Distinct(Rotated(list, s, at))
  <1> DEFINE n == RotatedLen(list, at)
             r == Rotated(list, s, at)
             was(k) == IF k = 1 THEN at ELSE IF k <= at THEN k - 1 ELSE k
  <1>1. Len(list) \in Nat /\ DOMAIN list = 1 .. Len(list) /\ Len(list) <= MAX_SAVED_WIFI_PROFILES
    BY DEF Distinct
  <1>0. IsRotated(r, n, list, s, at)
    BY RotatedEntries
  <1> HIDE DEF n, r
  <1>2. /\ r \in Seq(SSIDs) /\ DOMAIN r = 1 .. n /\ Len(r) = n /\ r[1] = s
        /\ n \in Nat /\ n >= Len(list) /\ n >= at /\ n <= Len(list) + 1 /\ (n > Len(list) => at = n)
        /\ \A k \in 2 .. n : r[k] = IF k <= at THEN list[k - 1] ELSE list[k]
    BY <1>0 DEF IsRotated
  <1>3. n <= MAX_SAVED_WIFI_PROFILES
    BY <1>1, <1>2
  <1>4. ASSUME NEW k \in 2 .. n PROVE was(k) \in DOMAIN list /\ r[k] = list[was(k)] /\ was(k) # at
    <2>1. was(k) \in 1 .. Len(list) /\ was(k) # at
      BY <1>1, <1>2
    <2>2. r[k] = list[was(k)]
      BY <1>2
    <2> QED BY <1>1, <2>1, <2>2
  <1>5. ASSUME NEW i \in 1 .. n, NEW j \in 1 .. n, r[i] = r[j] PROVE i = j
    <2>1. CASE i = 1 /\ j = 1
      BY <2>1
    <2>2. CASE i = 1 /\ j # 1
      BY <1>2, <1>4, <1>5, <2>2
    <2>3. CASE i # 1 /\ j = 1
      BY <1>2, <1>4, <1>5, <2>3
    <2>4. CASE i # 1 /\ j # 1
      <3>1. was(i) = was(j)
        BY <1>4, <1>5, <2>4 DEF Distinct
      <3> QED BY <1>2, <2>4, <3>1
    <2> QED BY <2>1, <2>2, <2>3, <2>4
  <1>6. Distinct(r)
    BY <1>2, <1>3, <1>5 DEF Distinct
  <1> QED BY <1>2, <1>6 DEF r

\* RemoveAt drops one slot and moves the ones behind it up.
LEMMA RemovedEntries ==
  ASSUME NEW list \in Seq(SSIDs), Distinct(list), NEW i \in DOMAIN list
  PROVE  LET r == RemoveAt(list, i)
         IN  /\ r \in Seq(SSIDs) /\ Len(r) = Len(list) - 1 /\ DOMAIN r = 1 .. Len(list) - 1
             /\ \A k \in 1 .. Len(list) - 1 : r[k] = list[IF k < i THEN k ELSE k + 1]
  <1> DEFINE a == SubSeq(list, 1, i - 1)
             b == SubSeq(list, i + 1, Len(list))
             r == RemoveAt(list, i)
  <1>1. Len(list) \in Nat /\ DOMAIN list = 1 .. Len(list) /\ i \in 1 .. Len(list)
        /\ Len(list) <= MAX_SAVED_WIFI_PROFILES
    BY DEF Distinct
  <1>2. (\A k \in 1 .. i - 1 : list[k] \in SSIDs) /\ (\A k \in i + 1 .. Len(list) : list[k] \in SSIDs)
    BY <1>1
  <1>3. a \in Seq(SSIDs) /\ Len(a) = i - 1 /\ \A k \in 1 .. i - 1 : a[k] = list[k]
    BY <1>1, <1>2, SubSeqProperties, SMTT(30)
  <1>4. b \in Seq(SSIDs) /\ Len(b) = Len(list) - i /\ \A k \in 1 .. Len(list) - i : b[k] = list[i + k]
    BY <1>1, <1>2, SubSeqProperties, SMTT(30)
  <1>5. r = a \o b
    BY DEF RemoveAt
  <1> HIDE DEF a, b, r
  <1>6. r \in Seq(SSIDs) /\ Len(r) = Len(list) - 1
        /\ \A k \in 1 .. Len(list) - 1 : r[k] = IF k <= i - 1 THEN a[k] ELSE b[k - (i - 1)]
    <2>1. /\ a \o b \in Seq(SSIDs) /\ Len(a \o b) = Len(a) + Len(b)
          /\ \A k \in 1 .. Len(a) + Len(b) : (a \o b)[k] = IF k <= Len(a) THEN a[k] ELSE b[k - Len(a)]
      <3>1. a \in Seq(SSIDs) /\ b \in Seq(SSIDs)
        BY <1>3, <1>4
      <3> QED BY ONLY <3>1, ConcatProperties
    <2>2. Len(a) + Len(b) = Len(list) - 1
      BY <1>1, <1>3, <1>4
    <2> QED BY <1>1, <1>3, <1>5, <2>1, <2>2
  <1>7. \A k \in 1 .. Len(list) - 1 : r[k] = list[IF k < i THEN k ELSE k + 1]
    <2>1. ASSUME NEW k \in 1 .. Len(list) - 1, k < i PROVE r[k] = list[k]
      BY <1>1, <1>3, <1>6, <2>1
    <2>2. ASSUME NEW k \in 1 .. Len(list) - 1, ~(k < i) PROVE r[k] = list[k + 1]
      <3>1. k - (i - 1) \in 1 .. Len(list) - i /\ i + (k - (i - 1)) = k + 1 /\ ~(k <= i - 1)
        BY <1>1, <2>2
      <3>2. r[k] = b[k - (i - 1)]
        BY <1>6, <2>2, <3>1
      <3>3. b[k - (i - 1)] = list[i + (k - (i - 1))]
        BY <1>4, <3>1
      <3> QED BY <3>1, <3>2, <3>3
    <2> QED BY <2>1, <2>2
  <1>8. DOMAIN r = 1 .. Len(list) - 1
    BY <1>1, <1>6
  <1> QED BY <1>6, <1>7, <1>8 DEF r

LEMMA RemoveGood ==
  ASSUME NEW list \in Seq(SSIDs), Distinct(list), NEW i \in DOMAIN list
  PROVE  RemoveAt(list, i) \in Seq(SSIDs) /\ Distinct(RemoveAt(list, i))
  <1> DEFINE r == RemoveAt(list, i)
  <1>1. Len(list) \in Nat /\ DOMAIN list = 1 .. Len(list) /\ i \in 1 .. Len(list)
        /\ Len(list) <= MAX_SAVED_WIFI_PROFILES
    BY DEF Distinct
  <1>2. /\ r \in Seq(SSIDs) /\ Len(r) = Len(list) - 1 /\ DOMAIN r = 1 .. Len(list) - 1
        /\ \A k \in 1 .. Len(list) - 1 : r[k] = list[IF k < i THEN k ELSE k + 1]
    BY RemovedEntries
  <1> HIDE DEF r
  <1>3. ASSUME NEW k \in DOMAIN r, NEW m \in DOMAIN r, r[k] = r[m] PROVE k = m
    <2>1. (IF k < i THEN k ELSE k + 1) \in DOMAIN list /\ (IF m < i THEN m ELSE m + 1) \in DOMAIN list
      BY <1>1, <1>2
    <2>2. (IF k < i THEN k ELSE k + 1) = (IF m < i THEN m ELSE m + 1)
      BY <1>2, <1>3, <2>1 DEF Distinct
    <2> QED BY <1>1, <1>2, <2>2
  <1> QED BY <1>1, <1>2, <1>3 DEF Distinct, r

---------------------------------------------------------------------------
(* What every write does to flash, text and cache, and to the registers.     *)

value == IF stage = "off" THEN Cached(flash) ELSE cache
kept  == Cached(flash)
spoilt == wiped \/ fails > 0
Durably == Durable!DurableNext \/ UNCHANGED <<value, kept, spoilt>>

LEMMA StoreKeeps ==
  ASSUME DocsInv, NEW d, Good(d), d.has # {}, Store(d), cache' = Cached(d), stage' # "off"
  PROVE  DocsInv' /\ value' = Cached(d) /\ kept' = Cached(d)
  <1>1. flash' = d /\ text' = d
    BY DEF Store
  <1>2. d \in Docs /\ d = [d EXCEPT !.wifi = d.wifi]
    BY DEF Good, Docs
  <1>3. Cached(text)' = Cached(d) /\ Cached(flash)' = Cached(d)
    BY <1>1 DEF Cached, Read
  <1>4. OnlyNetworksDiffer'
    BY <1>1, <1>2 DEF OnlyNetworksDiffer
  <1>5. Good(text)' /\ Distinct(flash.wifi)' /\ (flash \in Docs)'
    BY <1>1, <1>2 DEF Good, Distinct, Complete, Docs
  <1> QED BY <1>1, <1>3, <1>4, <1>5 DEF DocsInv, value, kept

LEMMA SameKeeps ==
  ASSUME DocsInv, UNCHANGED docs, stage' # "off"
  PROVE  DocsInv' /\ value' = cache /\ kept' = kept
  <1>1. flash' = flash /\ text' = text /\ cache' = cache
    BY DEF docs
  <1>2. Cached(text)' = Cached(text) /\ Cached(flash)' = Cached(flash)
    BY <1>1 DEF Cached, Read
  <1> QED BY <1>1, <1>2 DEF DocsInv, Good, Distinct, Complete, OnlyNetworksDiffer, Docs, value, kept

\* Networks go to the flash alone; no key reads differently for it.
LEMMA BehindKeeps ==
  ASSUME DocsInv, NEW l \in Seq(SSIDs), Distinct(l), text.has # {}, StoreBehind(WithWifi(l)),
         cache' = cache, stage # "off", stage' # "off"
  PROVE  DocsInv' /\ value' = value /\ kept' = kept
  <1>1. flash' = [text EXCEPT !.wifi = l] /\ text' = text
    BY DEF StoreBehind, WithWifi
  <1>2. text \in Docs /\ flash \in Docs /\ flash = [text EXCEPT !.wifi = flash.wifi]
    BY DEF DocsInv, Good, OnlyNetworksDiffer
  <1>3. /\ flash' \in Docs /\ flash'.wifi = l /\ flash'.key = text.key /\ flash'.null = text.null
        /\ flash'.has # {}
    BY <1>1, <1>2 DEF Docs
  <1>4. flash.key = text.key /\ flash.null = text.null
    BY <1>2 DEF Docs
  <1>5. Cached(flash)' = Cached(flash)
    BY <1>3, <1>4 DEF Cached, Read
  <1>6. Cached(text)' = Cached(text)
    BY <1>1 DEF Cached, Read
  <1>7. OnlyNetworksDiffer'
    BY <1>1, <1>3 DEF OnlyNetworksDiffer
  <1>8. Good(text)' /\ Distinct(flash.wifi)' /\ (flash \in Docs)'
    BY <1>1, <1>3 DEF DocsInv, Good, Distinct, Complete, Docs
  <1> QED BY <1>3, <1>5, <1>6, <1>7, <1>8 DEF DocsInv, value, kept

\* A cut leaves of each key what was written, the default or Junk; all other keys
\* of the document written read as before.
LEMMA CutKeeps ==
  ASSUME DocsInv, NEW d \in Docs, Distinct(d.wifi), CutIn(d), NEW k \in Keys,
         \A j \in Keys \ {k} : Cached(d)[j] \in {value[j], kept[j], Default[j], Junk}
  PROVE  DocsInv' /\ Durable!Tear
  <1>1. /\ flash' \in Torn(d) /\ text' = Empty /\ cache' = Default /\ stage' = "off"
    BY DEF CutIn
  <1>2. /\ flash' \in Docs /\ Distinct(flash'.wifi)
        /\ \A j \in Keys : Cached(flash')[j] \in {Cached(d)[j], Default[j], Junk}
        /\ flash'.has = {} => Cached(flash') = Default
    BY <1>1, TornKeeps
  <1>3. Cached(text)' = Default
    <2>1. Cached(text)' = Cached(Empty)
      BY <1>1 DEF Cached, Read
    <2> QED BY <2>1, DefaultCached
  <1>4. Good(text)'
    BY <1>1, EmptyGood DEF Good, Distinct, Complete, Docs
  <1>5. OnlyNetworksDiffer'
    BY <1>1 DEF OnlyNetworksDiffer, Empty
  <1>11. Cached(flash)' = Cached(flash')
    BY DEF Cached, Read
  <1>6. DocsInv'
    BY <1>1, <1>2, <1>3, <1>4, <1>5, <1>11 DEF DocsInv, Distinct, Docs
  <1>7. value' = Cached(flash') /\ kept' = Cached(flash')
    BY <1>1 DEF value, kept, Cached, Read
  <1>8. kept' \in [Keys -> Values]
    BY <1>2, <1>7, CachedType
  <1>9. \A j \in Keys \ {k} : kept'[j] \in {value[j], kept[j], Default[j], Junk}
    BY <1>2, <1>7
  <1>12. (wiped \/ fails > 0)' = TRUE
    BY DEF CutIn
  <1>10. Durable!Tear
    BY <1>7, <1>8, <1>9, <1>12 DEF Durable!Tear, Durable!Registers, value, kept
  <1> QED BY <1>6, <1>10

LEMMA ResetKeeps ==
  ASSUME DocsInv, Store(DefaultDoc), cache' = Default, stage' # "off", wiped' = TRUE
  PROVE  DocsInv' /\ Durably
  <1>1. cache' = Cached(DefaultDoc)
    BY DefaultCached
  <1>2. DocsInv' /\ value' = Default /\ kept' = Default
    BY <1>1, EmptyGood, StoreKeeps, DefaultCached, DefaultNames
  <1>3. Durable!Reset
    BY <1>2 DEF Durable!Reset, value, kept
  <1> QED BY <1>2, <1>3 DEF Durably, Durable!DurableNext

\* The program goes on with what it read, and the flash with what it has.
LEMMA SameDurably ==
  ASSUME DocsInv, UNCHANGED docs, UNCHANGED <<wiped, fails>>, stage # "off", stage' # "off"
  PROVE  DocsInv' /\ Durably
  <1>1. DocsInv' /\ value' = cache /\ kept' = kept
    BY SameKeeps
  <1> QED BY <1>1 DEF Durably, value, spoilt

LEMMA WithKeyGood ==
  ASSUME DocsInv, NEW k \in Keys, NEW v \in Values
  PROVE  /\ Good(WithKey(k, v)) /\ WithKey(k, v) \in Docs /\ WithKey(k, v).has = text.has
         /\ Cached(WithKey(k, v)) = [cache EXCEPT ![k] = v]
  <1> DEFINE d == WithKey(k, v)
  <1>1. text \in Docs /\ Distinct(text.wifi) /\ Complete(text) /\ cache = Cached(text)
    BY DEF DocsInv, Good
  <1>2. d = [has |-> text.has, null |-> text.null \ {k}, key |-> [text.key EXCEPT ![k] = v],
             wifi |-> text.wifi, fence |-> text.fence, legacy |-> text.legacy]
    <2> DEFINE newKey == [text.key EXCEPT ![k] = v]
               newNull == text.null \ {k}
    <2>1. d = [text EXCEPT !.key = newKey, !.null = newNull]
      BY DEF WithKey
    <2> HIDE DEF newKey, newNull
    <2>2. d = [has |-> text.has, null |-> newNull, key |-> newKey,
               wifi |-> text.wifi, fence |-> text.fence, legacy |-> text.legacy]
      BY <1>1, <2>1 DEF Docs
    <2> QED BY <2>2 DEF newKey, newNull
  <1>3. text.has \subseteq Names /\ text.null \subseteq Names /\ text.key \in [Keys -> Values]
    BY <1>1 DEF Docs
  <1>4. d \in Docs
    BY <1>1, <1>2, <1>3 DEF Docs
  <1>5. Good(d)
    <2>1. d.wifi = text.wifi /\ d.has = text.has
      BY <1>2
    <2> QED BY <1>1, <1>4, <2>1 DEF Good, Complete
  <1>6. \A j \in Keys : Read(d, j) = [cache EXCEPT ![k] = v][j]
    <2>1. d.null = text.null \ {k} /\ d.key = [text.key EXCEPT ![k] = v]
      BY <1>2
    <2>2. \A j \in Keys : cache[j] = Read(text, j)
      BY <1>1 DEF Cached
    <2>3. cache \in [Keys -> Values]
      BY <1>1, CachedType
    <2> HIDE DEF d
    <2> QED BY <1>3, <2>1, <2>2, <2>3 DEF Read
  <1>7. cache \in [Keys -> Values]
    BY <1>1, CachedType
  <1>9. d.has = text.has
    BY <1>2
  <1> HIDE DEF d
  <1>8. Cached(d) = [cache EXCEPT ![k] = v]
    BY <1>6, <1>7 DEF Cached
  <1> QED BY <1>4, <1>5, <1>8, <1>9 DEF d

\* saveSetting is a write of one register, or of none.
LEMMA SavedKeeps ==
  ASSUME DocsInv, NEW k \in Keys, NEW v \in Values, Saved(k, v), stage # "off", stage' # "off"
  PROVE  DocsInv' /\ Durably
  <1>1. CASE k \in text.has
    <2>1. Store(WithKey(k, v)) /\ cache' = [cache EXCEPT ![k] = v]
      BY <1>1 DEF Saved
    <2>2. /\ Good(WithKey(k, v)) /\ Cached(WithKey(k, v)) = [cache EXCEPT ![k] = v]
          /\ WithKey(k, v).has # {}
      BY <1>1, WithKeyGood
    <2>3. DocsInv' /\ value' = [cache EXCEPT ![k] = v] /\ kept' = value'
      BY <2>1, <2>2, StoreKeeps
    <2>5. UNCHANGED <<wiped, fails>>
      BY DEF Saved, bounds
    <2>4. Durable!Write
      BY <2>3, <2>5 DEF Durable!Write, value, kept
    <2> QED BY <2>3, <2>4 DEF Durably, Durable!DurableNext
  <1>2. CASE k \notin text.has
    BY <1>2, SameDurably DEF Saved, bounds
  <1> QED BY <1>1, <1>2

LEMMA SaveCutKeeps ==
  ASSUME DocsInv, NEW k \in Keys, NEW v \in Values, CutIn(WithKey(k, v)), stage # "off"
  PROVE  DocsInv' /\ Durably
  <1>1. /\ Distinct(WithKey(k, v).wifi) /\ WithKey(k, v) \in Docs
        /\ Cached(WithKey(k, v)) = [cache EXCEPT ![k] = v]
    BY WithKeyGood DEF Good
  <1>2. cache \in [Keys -> Values]
    BY CachedType DEF DocsInv, Good
  <1>3. \A j \in Keys \ {k} : Cached(WithKey(k, v))[j] \in {value[j], kept[j], Default[j], Junk}
    BY <1>1, <1>2 DEF value
  <1>4. DocsInv' /\ Durable!Tear
    BY <1>1, <1>3, CutKeeps
  <1> QED BY <1>4 DEF Durably, Durable!DurableNext

\* A cut in a write that is not about keys.
LEMMA OtherCutKeeps ==
  ASSUME DocsInv, NEW d \in Docs, Distinct(d.wifi), CutIn(d),
         Cached(d) \in {value, kept, Default}
  PROVE  DocsInv' /\ Durably
  <1>1. \A j \in Keys \ {Probe} : Cached(d)[j] \in {value[j], kept[j], Default[j], Junk}
    OBVIOUS
  <1>2. DocsInv' /\ Durable!Tear
    BY <1>1, CutKeeps
  <1> QED BY <1>2 DEF Durably, Durable!DurableNext

LEMMA WithWifiGood ==
  ASSUME DocsInv, NEW l \in Seq(SSIDs), stage # "off"
  PROVE  WithWifi(l) \in Docs /\ WithWifi(l).wifi = l /\ Cached(WithWifi(l)) = value
  <1>1. text \in Docs /\ cache = Cached(text)
    BY DEF DocsInv, Good
  <1>2. WithWifi(l) \in Docs /\ WithWifi(l).wifi = l /\ WithWifi(l).key = text.key
        /\ WithWifi(l).null = text.null
    BY <1>1 DEF WithWifi, Docs
  <1>3. Cached(WithWifi(l)) = Cached(text)
    BY <1>1, <1>2, CachedSame
  <1> QED BY <1>1, <1>2, <1>3 DEF value

LEMMA WithFencesGood ==
  ASSUME DocsInv, NEW f \in SUBSET Slots, stage # "off"
  PROVE  /\ Good(WithFences(f)) /\ WithFences(f) \in Docs /\ Cached(WithFences(f)) = value
         /\ WithFences(f).has = text.has
  <1>1. text \in Docs /\ cache = Cached(text) /\ Good(text)
    BY DEF DocsInv, Good
  <1>2. WithFences(f) \in Docs /\ WithFences(f).wifi = text.wifi /\ WithFences(f).key = text.key
        /\ WithFences(f).null = text.null /\ WithFences(f).has = text.has
    BY <1>1 DEF WithFences, Docs
  <1>3. Cached(WithFences(f)) = Cached(text)
    BY <1>1, <1>2, CachedSame
  <1> QED BY <1>1, <1>2, <1>3 DEF value, Good, Complete

\* saveWifiCredential with the slot it chose itself, or one that is named.
LEMMA WifiSavedKeeps ==
  ASSUME DocsInv, NEW s \in SSIDs, NEW at \in 1 .. Len(text.wifi) + 1,
         at <= MAX_SAVED_WIFI_PROFILES,
         \A i \in DOMAIN text.wifi : text.wifi[i] = s => i = at,
         WifiSaved(s, at), stage # "off", stage' # "off"
  PROVE  DocsInv' /\ Durably
  <1>1. text.wifi \in Seq(SSIDs) /\ Distinct(text.wifi)
    BY DEF DocsInv, Good, Docs
  <1>2. /\ Rotated(text.wifi, s, at) \in Seq(SSIDs) /\ Distinct(Rotated(text.wifi, s, at))
    BY <1>1, RotatedGood
  <1>3. DocsInv' /\ value' = value /\ kept' = kept
    BY <1>2, BehindKeeps DEF WifiSaved
  <1> QED BY <1>3 DEF Durably, spoilt, WifiSaved, bounds

LEMMA OpenFailsKeeps ==
  ASSUME DocsInv, Books, OpenFails, stage # "off", stage' # "off"
  PROVE  DocsInv' /\ Durably
  <1>1. DocsInv' /\ value' = value /\ kept' = kept
    BY SameKeeps DEF OpenFails, value
  <1>2. (wiped \/ fails > 0)' = TRUE
    BY DEF OpenFails, Books
  <1>3. Durable!Fail
    BY <1>1, <1>2 DEF Durable!Fail, value, kept
  <1> QED BY <1>1, <1>3 DEF Durably, Durable!DurableNext

---------------------------------------------------------------------------
(* One step of setup(), menus and power, action by action. *)

LEMMA SetupKeeps ==
  ASSUME DocsInv, Books, Begin \/ Install
  PROVE  DocsInv' /\ Durably
  <1>1. CASE BeginDefaults
    <2>1. /\ Store(DefaultDoc) /\ cache' = Cached(DefaultDoc) /\ stage' # "off" /\ stage = "off"
          /\ flash.has = {} /\ UNCHANGED <<wiped, fails>>
      BY <1>1, DefaultCached DEF BeginDefaults, history, bounds
    <2>2. DocsInv' /\ value' = Default /\ kept' = Default
      BY <2>1, EmptyGood, StoreKeeps, DefaultCached, DefaultNames
    <2>3. value = Default /\ kept = Default
      BY <2>1 DEF DocsInv, value, kept
    <2> QED BY <2>1, <2>2, <2>3 DEF Durably, spoilt
  <1>2. CASE BeginReads
    <2>1. /\ Store(Migrated(flash)) /\ cache' = Cached(text') /\ stage' = "begun" /\ stage = "off"
          /\ flash.has # {} /\ UNCHANGED <<wiped, fails>>
      BY <1>2 DEF BeginReads, history, bounds
    <2>2. /\ Good(Migrated(flash)) /\ Cached(Migrated(flash)) = Cached(flash)
          /\ Migrated(flash).has # {}
      BY <2>1, MigratedGood DEF DocsInv
    <2>3. text' = Migrated(flash)
      BY <2>1 DEF Store
    <2>4. cache' = Cached(Migrated(flash))
      BY <2>1, <2>3
    <2>5. DocsInv' /\ value' = Cached(flash) /\ kept' = Cached(flash)
      BY <2>1, <2>2, <2>4, StoreKeeps
    <2> QED BY <2>1, <2>5 DEF Durably, value, kept, spoilt
  <1>3. CASE BeginFails
    <2>1. /\ UNCHANGED docs /\ stage = "off" /\ stage' = "begun"
          /\ (wiped \/ fails > 0)' = TRUE
      BY <1>3 DEF BeginFails, OpenFails, Books
    <2>2. DocsInv' /\ value' = cache /\ kept' = kept
      BY <2>1, SameKeeps
    <2>3. cache = Default
      <3>1. cache = Cached(text) /\ text = Empty
        BY <2>1 DEF DocsInv
      <3> QED BY <3>1, DefaultCached
    <2>4. Durable!Unread
      BY <2>1, <2>2, <2>3 DEF Durable!Unread, value, kept
    <2> QED BY <2>2, <2>4 DEF Durably, Durable!DurableNext
  <1>4. CASE BeginCut
    <2>1. CASE CutIn(DefaultDoc)
      BY <2>1, EmptyGood, DefaultCached, OtherCutKeeps DEF Good
    <2>2. CASE flash.has # {} /\ CutIn(Migrated(flash))
      <3>1. CutIn(Migrated(flash))
        BY <2>2
      <3>2. Good(Migrated(flash)) /\ Cached(Migrated(flash)) = Cached(flash)
        BY <2>2, MigratedGood DEF DocsInv
      <3>3. Migrated(flash) \in Docs /\ Distinct(Migrated(flash).wifi) /\ Cached(Migrated(flash)) = kept
        BY <3>2 DEF Good, kept
      <3> QED BY <3>1, <3>3, OtherCutKeeps
    <2> QED BY <1>4, <2>1, <2>2 DEF BeginCut
  <1>5. CASE Accept
    BY <1>5, SameDurably DEF Accept, history, bounds
  <1>6. CASE InstallDefaults
    BY <1>6, ResetKeeps DEF InstallDefaults, Reset
  <1>7. CASE InstallFails
    BY <1>7, OpenFailsKeeps DEF InstallFails
  <1>8. CASE InstallCut
    <2>1. CutIn(DefaultDoc)
      BY <1>8 DEF InstallCut
    <2> QED BY <2>1, EmptyGood, DefaultCached, OtherCutKeeps DEF Good
  <1>9. CASE BeginOverwrites
    BY <1>9, ResetKeeps DEF BeginOverwrites
  <1> QED BY <1>1, <1>2, <1>3, <1>4, <1>5, <1>6, <1>7, <1>8, <1>9 DEF Begin, Install

\* What the card brings is a value when it brings anything.
LEMMA ImportKeeps ==
  ASSUME DocsInv, Books, Import
  PROVE  DocsInv' /\ Durably
  <1>1. ASSUME NEW k \in UploadKeys, Presave(k) PROVE DocsInv' /\ Durably
    <2>1. stage # "off" /\ stage' # "off" /\ k \in Keys
      BY <1>1 DEF Presave
    <2>2. CASE single[k] # NoKey /\ Saved(k, single[k])
      <3>1. single[k] \in Values
        BY <2>2 DEF Books
      <3> QED BY <2>1, <2>2, <3>1, SavedKeeps
    <2>3. CASE NotSaved(k)
      BY <2>1, <2>3, OpenFailsKeeps DEF NotSaved
    <2>4. CASE UNCHANGED docs /\ UNCHANGED <<wiped, fails>>
      BY <2>1, <2>4, SameDurably
    <2> QED BY <1>1, <2>2, <2>3, <2>4 DEF Presave, bounds
  <1>2. ASSUME NEW k \in UploadKeys, PresaveCut(k) PROVE DocsInv' /\ Durably
    <2>1. stage # "off" /\ single[k] \in Values /\ CutIn(WithKey(k, single[k])) /\ k \in Keys
      BY <1>2 DEF PresaveCut, Books
    <2> QED BY <2>1, SaveCutKeeps
  <1>3. ASSUME NEW k \in UploadKeys PROVE Brought(k) \in Values \cup {NoKey}
    BY DEF Brought, Books
  <1>4. ASSUME NEW k \in UploadKeys, Applied(k), stage # "off", stage' # "off"
        PROVE  DocsInv' /\ Durably
    <2>1. CASE UNCHANGED docs /\ UNCHANGED <<wiped, fails>>
      BY <1>4, <2>1, SameDurably
    <2>2. CASE Brought(k) # NoKey /\ Saved(k, Brought(k))
      BY <1>3, <1>4, <2>2, SavedKeeps
    <2>3. CASE NotSaved(k)
      BY <1>4, <2>3, OpenFailsKeeps DEF NotSaved
    <2> QED BY <1>4, <2>1, <2>2, <2>3 DEF Applied, bounds
  <1>5. ASSUME NEW k \in UploadKeys, ApplyFromApi(k) \/ ApplyFromSingle(k) PROVE DocsInv' /\ Durably
    BY <1>4, <1>5 DEF ApplyFromApi, ApplyFromSingle
  <1>6. ASSUME NEW k \in UploadKeys, ApplyCut(k) PROVE DocsInv' /\ Durably
    <2>1. stage # "off" /\ Brought(k) # NoKey /\ CutIn(WithKey(k, Brought(k))) /\ k \in Keys
      BY <1>6 DEF ApplyCut
    <2> QED BY <1>3, <2>1, SaveCutKeeps
  <1>7. CASE PresaveDone \/ ApiDone \/ SingleDone
    BY <1>7, SameDurably DEF PresaveDone, ApiDone, SingleDone, history, bounds
  <1> QED BY <1>1, <1>2, <1>5, <1>6, <1>7 DEF Import

LEMMA ListType ==
  ASSUME DocsInv
  PROVE  /\ text.wifi \in Seq(SSIDs) /\ Distinct(text.wifi) /\ Len(text.wifi) \in Nat
         /\ DOMAIN text.wifi = 1 .. Len(text.wifi) /\ Len(text.wifi) <= MAX_SAVED_WIFI_PROFILES
         /\ \A i \in DOMAIN text.wifi : text.wifi[i] \in SSIDs
  BY DEF DocsInv, Good, Docs, Distinct

\* A slot in use is the only one that holds its network.
LEMMA OwnSlot ==
  ASSUME DocsInv, NEW i \in DOMAIN text.wifi
  PROVE  /\ i \in 1 .. Len(text.wifi) + 1 /\ i <= MAX_SAVED_WIFI_PROFILES /\ text.wifi[i] \in SSIDs
         /\ \A j \in DOMAIN text.wifi : text.wifi[j] = text.wifi[i] => j = i
  BY ListType DEF Distinct

LEMMA WifiNotSavedKeeps ==
  ASSUME DocsInv, Books, WifiNotSaved, stage # "off", stage' # "off"
  PROVE  DocsInv' /\ Durably
  BY OpenFailsKeeps, SameDurably DEF WifiNotSaved, bounds

LEMMA WifiCutKeeps ==
  ASSUME DocsInv, NEW s \in SSIDs, NEW at \in 1 .. Len(text.wifi) + 1,
         at <= MAX_SAVED_WIFI_PROFILES,
         \A i \in DOMAIN text.wifi : text.wifi[i] = s => i = at,
         CutIn(WithWifi(Rotated(text.wifi, s, at))), stage # "off"
  PROVE  DocsInv' /\ Durably
  <1> DEFINE l == Rotated(text.wifi, s, at)
  <1>1. l \in Seq(SSIDs) /\ Distinct(l)
    BY ListType, RotatedGood
  <1>2. WithWifi(l) \in Docs /\ WithWifi(l).wifi = l /\ Cached(WithWifi(l)) = value
    BY <1>1, WithWifiGood
  <1> QED BY <1>1, <1>2, OtherCutKeeps

LEMMA NetworksKeep ==
  ASSUME DocsInv, Books, Networks
  PROVE  DocsInv' /\ Durably
  <1> USE DEF Books
  <1>1. CASE ImportWifi
    <2> DEFINE at == Target(text.wifi, wifiFile, 0)
    <2>1. stage # "off" /\ stage' # "off" /\ wifiFile \in SSIDs
      BY <1>1 DEF ImportWifi
    <2>2. CASE WifiSaved(wifiFile, at)
      <3>1. at # 0
        BY <2>2 DEF WifiSaved
      <3>2. 0 \in 0 .. Len(text.wifi)
        BY ListType
      <3>3. /\ at \in 1 .. Len(text.wifi) + 1 /\ at <= MAX_SAVED_WIFI_PROFILES
            /\ \A i \in DOMAIN text.wifi : text.wifi[i] = wifiFile => i = at
        BY <3>1, <3>2, ListType, TargetRight
      <3> QED BY <2>1, <2>2, <3>3, WifiSavedKeeps
    <2>3. CASE WifiNotSaved
      BY <2>1, <2>3, WifiNotSavedKeeps
    <2>4. CASE UNCHANGED docs /\ UNCHANGED <<wiped, fails>>
      BY <2>1, <2>4, SameDurably
    <2> QED BY <1>1, <2>2, <2>3, <2>4 DEF ImportWifi, bounds
  <1>2. CASE DiscardPending
    BY <1>2, SameDurably DEF DiscardPending, history, bounds
  <1>3. ASSUME NEW i \in 1 .. MAX_SAVED_WIFI_PROFILES, ReplaceSaved(i) PROVE DocsInv' /\ Durably
    <2> DEFINE at == Target(text.wifi, pending, i)
    <2>1. stage # "off" /\ stage' # "off" /\ pending \in SSIDs /\ i \in 0 .. Len(text.wifi)
      BY <1>3, ListType DEF ReplaceSaved
    <2>2. CASE WifiSaved(pending, at)
      <3>1. at # 0
        BY <2>2 DEF WifiSaved
      <3>2. /\ at \in 1 .. Len(text.wifi) + 1 /\ at <= MAX_SAVED_WIFI_PROFILES
            /\ \A j \in DOMAIN text.wifi : text.wifi[j] = pending => j = at
        BY <2>1, <3>1, ListType, TargetRight
      <3> QED BY <2>1, <2>2, <3>2, WifiSavedKeeps
    <2>3. CASE WifiNotSaved
      BY <2>1, <2>3, WifiNotSavedKeeps
    <2> QED BY <1>3, <2>2, <2>3 DEF ReplaceSaved
  <1>4. ASSUME NEW i \in 1 .. MAX_SAVED_WIFI_PROFILES, MarkSuccessful(i) PROVE DocsInv' /\ Durably
    <2>1. stage # "off" /\ stage' # "off" /\ i \in DOMAIN text.wifi
          /\ (WifiSaved(text.wifi[i], i) \/ WifiNotSaved)
      BY <1>4 DEF MarkSuccessful
    <2> QED BY <2>1, OwnSlot, WifiSavedKeeps, WifiNotSavedKeeps
  <1>5. ASSUME NEW i \in 1 .. MAX_SAVED_WIFI_PROFILES, RemoveSaved(i) PROVE DocsInv' /\ Durably
    <2>1. stage # "off" /\ stage' # "off" /\ i \in DOMAIN text.wifi
      BY <1>5 DEF RemoveSaved
    <2>2. CASE WifiNotSaved
      BY <2>1, <2>2, WifiNotSavedKeeps
    <2>3. CASE /\ StoreBehind(WithWifi(RemoveAt(text.wifi, i))) /\ cache' = cache
               /\ UNCHANGED <<wiped, fails>>
      <3>1. RemoveAt(text.wifi, i) \in Seq(SSIDs) /\ Distinct(RemoveAt(text.wifi, i))
        BY <2>1, ListType, RemoveGood
      <3>2. text.has # {}
        BY <2>1 DEF DocsInv, Good, Complete
      <3>3. DocsInv' /\ value' = value /\ kept' = kept
        BY <2>1, <2>3, <3>1, <3>2, BehindKeeps
      <3> QED BY <2>3, <3>3 DEF Durably, spoilt
    <2> QED BY <1>5, <2>2, <2>3 DEF RemoveSaved, bounds
  <1>6. CASE WifiCut
    <2>0. stage # "off"
      BY <1>6 DEF WifiCut
    <2>1. CASE /\ wifiFile # NoSSID /\ Target(text.wifi, wifiFile, 0) # 0
               /\ CutIn(WithWifi(Rotated(text.wifi, wifiFile, Target(text.wifi, wifiFile, 0))))
      <3> DEFINE at == Target(text.wifi, wifiFile, 0)
      <3>1. 0 \in 0 .. Len(text.wifi) /\ wifiFile \in SSIDs
        BY <2>1, ListType
      <3>2. /\ at \in 1 .. Len(text.wifi) + 1 /\ at <= MAX_SAVED_WIFI_PROFILES
            /\ \A i \in DOMAIN text.wifi : text.wifi[i] = wifiFile => i = at
        BY <2>1, <3>1, ListType, TargetRight
      <3> QED BY <2>0, <2>1, <3>1, <3>2, WifiCutKeeps
    <2>2. ASSUME NEW i \in DOMAIN text.wifi, pending # NoSSID,
                 CutIn(WithWifi(Rotated(text.wifi, pending, Target(text.wifi, pending, i))))
          PROVE  DocsInv' /\ Durably
      <3> DEFINE at == Target(text.wifi, pending, i)
      <3>1. i \in 0 .. Len(text.wifi) /\ i # 0 /\ pending \in SSIDs
        BY <2>2, ListType
      <3>2. at # 0
        <4>1. Index(text.wifi, pending) # 0 => at = Index(text.wifi, pending)
          BY DEF Target
        <4>2. Index(text.wifi, pending) = 0 => at \in {Len(text.wifi) + 1, i}
          BY DEF Target
        <4> HIDE DEF at
        <4> QED BY <3>1, <4>1, <4>2, ListType
      <3>3. /\ at \in 1 .. Len(text.wifi) + 1 /\ at <= MAX_SAVED_WIFI_PROFILES
            /\ \A j \in DOMAIN text.wifi : text.wifi[j] = pending => j = at
        BY <3>1, <3>2, ListType, TargetRight
      <3> QED BY <2>0, <2>2, <3>1, <3>3, WifiCutKeeps
    <2>3. ASSUME NEW i \in DOMAIN text.wifi,
                 CutIn(WithWifi(Rotated(text.wifi, text.wifi[i], i)))
          PROVE  DocsInv' /\ Durably
      BY <2>0, <2>3, OwnSlot, WifiCutKeeps
    <2>4. ASSUME NEW i \in DOMAIN text.wifi, CutIn(WithWifi(RemoveAt(text.wifi, i)))
          PROVE  DocsInv' /\ Durably
      <3> DEFINE l == RemoveAt(text.wifi, i)
      <3>1. l \in Seq(SSIDs) /\ Distinct(l)
        BY ListType, RemoveGood
      <3>2. WithWifi(l) \in Docs /\ WithWifi(l).wifi = l /\ Cached(WithWifi(l)) = value
        BY <2>0, <3>1, WithWifiGood
      <3> QED BY <2>4, <3>1, <3>2, OtherCutKeeps
    <2> QED BY <1>6, <2>1, <2>2, <2>3, <2>4 DEF WifiCut
  <1> QED BY <1>1, <1>2, <1>3, <1>4, <1>5, <1>6 DEF Networks

LEMMA MenuKeeps ==
  ASSUME DocsInv, Books, Menu
  PROVE  DocsInv' /\ Durably
  <1>1. ASSUME NEW k \in Keys, NEW v \in Values, SaveSetting(k, v) PROVE DocsInv' /\ Durably
    BY <1>1, SavedKeeps, OpenFailsKeeps DEF SaveSetting, NotSaved
  <1>2. ASSUME NEW k \in Keys, NEW v \in Values, SaveSettingCut(k, v) PROVE DocsInv' /\ Durably
    BY <1>2, SaveCutKeeps DEF SaveSettingCut
  <1>3. ASSUME NEW f \in SUBSET Slots, SaveFences(f) PROVE DocsInv' /\ Durably
    <2>1. stage # "off" /\ stage' # "off"
      BY <1>3 DEF SaveFences
    <2>2. CASE OpenFails
      BY <2>1, <2>2, OpenFailsKeeps
    <2>3. CASE Store(WithFences(f)) /\ cache' = cache /\ UNCHANGED <<wiped, fails>>
      <3>1. Good(WithFences(f)) /\ Cached(WithFences(f)) = cache /\ value = cache
        BY <2>1, WithFencesGood DEF value
      <3>3. text.has # {} /\ WithFences(f).has # {}
        BY <1>3, <2>1, WithFencesGood DEF SaveFences
      <3>2. DocsInv' /\ value' = cache /\ kept' = cache
        BY <2>1, <2>3, <3>1, <3>3, StoreKeeps
      <3>4. kept = cache
        <4>1. text \in Docs /\ flash = [text EXCEPT !.wifi = flash.wifi] /\ cache = Cached(text)
          BY <3>3 DEF DocsInv, Good, OnlyNetworksDiffer
        <4>2. flash.key = text.key /\ flash.null = text.null
          BY <4>1 DEF Docs
        <4> QED BY <4>1, <4>2 DEF kept, Cached, Read
      <3> QED BY <2>3, <3>1, <3>2, <3>4 DEF Durably, spoilt
    <2> QED BY <1>3, <2>2, <2>3 DEF SaveFences, bounds
  <1>4. ASSUME NEW f \in SUBSET Slots, SaveFencesCut(f) PROVE DocsInv' /\ Durably
    BY <1>4, WithFencesGood, OtherCutKeeps DEF SaveFencesCut, Good
  <1>5. ASSUME NEW n \in Slots, SetFence(n) \/ ClearFence(n) PROVE DocsInv' /\ Durably
    <2>1. text.fence \subseteq Slots
      BY DEF DocsInv, Good, Docs
    <2>2. text.fence \cup {n} \in SUBSET Slots /\ text.fence \ {n} \in SUBSET Slots
      BY <2>1
    <2> QED BY <1>3, <1>4, <1>5, <2>2 DEF SetFence, ClearFence
  <1>6. CASE ResetSettings
    BY <1>6, ResetKeeps DEF ResetSettings, Reset
  <1> QED BY <1>1, <1>2, <1>5, <1>6 DEF Menu

LEMMA PowerKeeps ==
  ASSUME DocsInv, PowerCycle
  PROVE  DocsInv' /\ Durably
  <1>1. flash' = flash /\ text' = Empty /\ cache' = Default /\ stage' = "off"
    BY DEF PowerCycle
  <1>2. Cached(text)' = Default /\ Cached(flash)' = Cached(flash)
    <2>1. Cached(text)' = Cached(Empty)
      BY <1>1 DEF Cached, Read
    <2> QED BY <1>1, <2>1, DefaultCached DEF Cached, Read
  <1>3. Good(text)' /\ OnlyNetworksDiffer'
    BY <1>1, EmptyGood DEF Good, Distinct, Complete, Docs, OnlyNetworksDiffer, Empty
  <1>4. DocsInv'
    BY <1>1, <1>2, <1>3 DEF DocsInv, Distinct, Docs
  <1>5. value' = kept /\ kept' = kept /\ UNCHANGED <<wiped, fails>>
    BY <1>1, <1>2 DEF value, kept, PowerCycle, history, bounds
  <1>6. Durable!Reload
    BY <1>5 DEF Durable!Reload, value, kept
  <1> QED BY <1>4, <1>6 DEF Durably, Durable!DurableNext

\* Every step keeps flash, text and cache in order and is a step of the registers.
LEMMA NextKeeps ==
  ASSUME SettingsInv, [Next]_vars
  PROVE  DocsInv' /\ Durably
  <1>1. CASE UNCHANGED vars
    <2>1. UNCHANGED docs /\ stage' = stage
      BY <1>1 DEF vars
    <2>2. UNCHANGED <<flash, text, cache, wiped, fails>>
      BY <1>1, <2>1 DEF docs, vars, history, bounds
    <2> QED BY <2>1, <2>2 DEF spoilt, SettingsInv, DocsInv, Good, Distinct, Complete, OnlyNetworksDiffer, Docs,
                              Durably, value, kept, Cached, Read
  <1> QED BY <1>1, SetupKeeps, ImportKeeps, NetworksKeep, MenuKeeps, PowerKeeps DEF Next, SettingsInv

---------------------------------------------------------------------------
(* The card, the histories and the bounds. *)

LEMMA OpenFailsBooks ==
  ASSUME Books, OpenFails PROVE fails' \in 0 .. MaxFails /\ UNCHANGED <<given, wiped, cuts>>
  BY DEF Books, OpenFails

LEMMA CutBooks ==
  ASSUME Books, NEW d, CutIn(d) PROVE Books'
  BY DEF Books, CutIn, card

LEMMA SetupBooks ==
  ASSUME Books, Begin \/ Install PROVE Books'
  <1>1. CASE BeginCut \/ InstallCut
    BY <1>1, CutBooks DEF BeginCut, InstallCut
  <1>2. CASE BeginDefaults \/ BeginReads \/ Accept
    BY <1>2 DEF BeginDefaults, BeginReads, Accept, Books, card, history, bounds
  <1>3. CASE BeginFails \/ InstallFails
    BY <1>3, OpenFailsBooks DEF BeginFails, InstallFails, Books, card
  <1>4. CASE InstallDefaults
    BY <1>4 DEF InstallDefaults, Reset, Books, card, bounds
  <1>5. CASE BeginOverwrites
    BY <1>5 DEF BeginOverwrites, Books, card
  <1> QED BY <1>1, <1>2, <1>3, <1>4, <1>5 DEF Begin, Install

LEMMA ImportBooks ==
  ASSUME Books, Import PROVE Books'
  <1>1. ASSUME NEW k, Saved(k, single[k]) \/ Saved(k, Brought(k)) \/ NotSaved(k)
                      \/ UNCHANGED <<docs, pending, given, wiped, bounds>>
        PROVE  /\ pending' = pending /\ given' = given /\ wiped' = wiped
               /\ fails' \in 0 .. MaxFails /\ cuts' \in 0 .. MaxCuts
    BY <1>1, OpenFailsBooks DEF Saved, NotSaved, bounds, Books
  <1>2. ASSUME NEW k \in UploadKeys, Presave(k) PROVE Books'
    BY <1>1, <1>2 DEF Presave, Books, card
  <1>3. ASSUME NEW k \in UploadKeys, ApplyFromApi(k) PROVE Books'
    BY <1>1, <1>3 DEF ApplyFromApi, Applied, Books, card
  <1>4. ASSUME NEW k \in UploadKeys, ApplyFromSingle(k) PROVE Books'
    <2>1. Brought(k) \in Values \cup {NoKey}
      BY DEF Brought, Books
    <2>2. /\ pending' = pending /\ given' = given /\ wiped' = wiped
          /\ fails' \in 0 .. MaxFails /\ cuts' \in 0 .. MaxCuts
      BY <1>1, <1>4 DEF ApplyFromSingle, Applied
    <2>3. single' \in [UploadKeys -> Values \cup {NoKey}] /\ taken' \in [UploadKeys -> Values \cup {NoKey}]
      BY <1>4, <2>1 DEF ApplyFromSingle, Books
    <2> QED BY <1>4, <2>2, <2>3 DEF ApplyFromSingle, Books
  <1>5. ASSUME NEW k \in UploadKeys, PresaveCut(k) \/ ApplyCut(k) PROVE Books'
    BY <1>5, CutBooks DEF PresaveCut, ApplyCut
  <1>6. CASE PresaveDone \/ ApiDone \/ SingleDone
    BY <1>6 DEF PresaveDone, ApiDone, SingleDone, Books, card, history, bounds
  <1> QED BY <1>2, <1>3, <1>4, <1>5, <1>6 DEF Import

LEMMA NetworksBooks ==
  ASSUME DocsInv, Books, Networks PROVE Books'
  <1>1. ASSUME NEW s \in SSIDs, NEW at, WifiSaved(s, at)
        PROVE  given' \subseteq SSIDs /\ UNCHANGED <<wiped, fails, cuts>>
    BY <1>1 DEF WifiSaved, Books, bounds
  <1>2. ASSUME WifiNotSaved
        PROVE  given' = given /\ wiped' = wiped /\ fails' \in 0 .. MaxFails /\ cuts' = cuts
    BY <1>2, OpenFailsBooks DEF WifiNotSaved, Books, bounds
  <1>3. CASE ImportWifi
    <2>1. wifiFile \in SSIDs
      BY <1>3 DEF ImportWifi, Books
    <2>2. given' \subseteq SSIDs /\ wiped' = wiped /\ fails' \in 0 .. MaxFails /\ cuts' = cuts
      BY <1>1, <1>2, <1>3, <2>1 DEF ImportWifi, Books, bounds
    <2>3. pending' \in {pending, wifiFile}
      BY <1>3 DEF ImportWifi
    <2> QED BY <1>3, <2>2, <2>3 DEF ImportWifi, Books
  <1>4. CASE DiscardPending
    BY <1>4 DEF DiscardPending, Books, card, history, bounds
  <1>5. CASE WifiCut
    BY <1>5, CutBooks DEF WifiCut
  <1>6. ASSUME NEW i \in 1 .. MAX_SAVED_WIFI_PROFILES, ReplaceSaved(i) PROVE Books'
    <2>1. pending \in SSIDs
      BY <1>6 DEF ReplaceSaved, Books
    <2> QED BY <1>1, <1>2, <1>6, <2>1 DEF ReplaceSaved, Books, card
  <1>7. ASSUME NEW i \in 1 .. MAX_SAVED_WIFI_PROFILES, MarkSuccessful(i) PROVE Books'
    <2>1. text.wifi[i] \in SSIDs
      BY <1>7, ListType DEF MarkSuccessful
    <2> QED BY <1>1, <1>2, <1>7, <2>1 DEF MarkSuccessful, Books, card
  <1>8. ASSUME NEW i \in 1 .. MAX_SAVED_WIFI_PROFILES, RemoveSaved(i) PROVE Books'
    BY <1>2, <1>8 DEF RemoveSaved, Books, card, bounds
  <1> QED BY <1>3, <1>4, <1>5, <1>6, <1>7, <1>8 DEF Networks

LEMMA MenuBooks ==
  ASSUME Books, Menu PROVE Books'
  <1>1. ASSUME NEW k, NEW v, SaveSetting(k, v) PROVE Books'
    BY <1>1, OpenFailsBooks DEF SaveSetting, Saved, NotSaved, Books, card, bounds
  <1>2. ASSUME NEW k, NEW v, SaveSettingCut(k, v) PROVE Books'
    BY <1>2, CutBooks DEF SaveSettingCut
  <1>3. ASSUME NEW f, SaveFences(f) PROVE Books'
    BY <1>3, OpenFailsBooks DEF SaveFences, Books, card, bounds
  <1>4. ASSUME NEW f, SaveFencesCut(f) PROVE Books'
    BY <1>4, CutBooks DEF SaveFencesCut
  <1>5. CASE ResetSettings
    BY <1>5 DEF ResetSettings, Reset, Books, card, bounds
  <1> QED BY <1>1, <1>2, <1>3, <1>4, <1>5 DEF Menu, SetFence, ClearFence

LEMMA NextBooks ==
  ASSUME SettingsInv, [Next]_vars PROVE Books'
  <1>1. CASE UNCHANGED vars
    BY <1>1 DEF vars, card, history, bounds, SettingsInv, Books
  <1>2. CASE PowerCycle
    BY <1>2 DEF PowerCycle, card, history, bounds, SettingsInv, Books
  <1> QED BY <1>1, <1>2, SetupBooks, ImportBooks, NetworksBooks, MenuBooks DEF Next, SettingsInv

---------------------------------------------------------------------------
LEMMA InitSettings == Init => SettingsInv /\ Durable!DurableInit
  <1> SUFFICES ASSUME Init PROVE SettingsInv /\ Durable!DurableInit
    OBVIOUS
  <1>1. flash \in Docs /\ Distinct(flash.wifi)
    <2>1. ASSUME NEW l \in SSIDs \cup {NoSSID} PROVE OlderDoc(l) \in Docs /\ OlderDoc(l).wifi = <<>>
      <3>1. <<>> \in Seq(SSIDs)
        OBVIOUS
      <3> DEFINE early == Names \ Late
      <3>2. OlderDoc(l) = [Empty EXCEPT !.has = early, !.legacy = l]
        BY DEF OlderDoc
      <3>3. early \in SUBSET Names
        OBVIOUS
      <3> HIDE DEF early
      <3>4. Empty \in Docs /\ Empty.wifi = <<>>
        BY EmptyGood DEF Empty
      <3> QED BY <3>1, <3>2, <3>3, <3>4 DEF Docs
    <2>2. Empty \in Docs /\ Empty.wifi = <<>>
      BY EmptyGood DEF Empty
    <2>3. ASSUME NEW l \in Lists PROVE InUse(l) \in Docs /\ Distinct(InUse(l).wifi)
      <3>1. l \in Seq(SSIDs) /\ Len(l) = MAX_SAVED_WIFI_PROFILES
        BY DEF Lists
      <3>2. DefaultDoc \in Docs
        BY EmptyGood
      <3>3. InUse(l) \in Docs /\ InUse(l).wifi = l
        BY <3>1, <3>2 DEF InUse, Docs
      <3>4. \A i, j \in DOMAIN l : l[i] = l[j] => i = j
        BY DEF Lists
      <3> QED BY <3>1, <3>3, <3>4 DEF Distinct
    <2>4. Distinct(<<>>)
      BY EmptyGood DEF Good, Empty
    <2>5. CASE flash = Empty
      BY <2>2, <2>4, <2>5
    <2>6. CASE \E l \in SSIDs \cup {NoSSID} : flash = OlderDoc(l)
      BY <2>1, <2>4, <2>6
    <2>7. CASE \E l \in Lists : flash = InUse(l)
      BY <2>3, <2>7
    <2> QED BY <2>5, <2>6, <2>7 DEF Init
  <1>2. text = Empty /\ cache = Default /\ stage = "off"
    BY DEF Init
  <1>3. flash.has = {} => flash = Empty
    <2>1. \A l : OlderDoc(l).has = Names \ Late /\ InUse(l).has = Names
      BY DEF OlderDoc, InUse, DefaultDoc, Empty
    <2>2. Probe \in Names \ Late
      BY DEF Names
    <2> QED BY <2>1, <2>2 DEF Init
  <1>4. DocsInv
    BY <1>1, <1>2, <1>3, EmptyGood, DefaultCached DEF DocsInv, OnlyNetworksDiffer, Empty
  <1>5. Books
    <2>1. NoKey \in Values \cup {NoKey} /\ 0 \in 0 .. MaxFails /\ 0 \in 0 .. MaxCuts
      OBVIOUS
    <2>2. api \in [UploadKeys -> Values \cup {NoKey}] /\ single \in [UploadKeys -> Values \cup {NoKey}]
      <3>1. (Values \ {Junk, Placeholder}) \cup {NoKey} \subseteq Values \cup {NoKey}
            /\ (Values \ {Junk}) \cup {NoKey} \subseteq Values \cup {NoKey}
        OBVIOUS
      <3>2. /\ api \in [UploadKeys -> (Values \ {Junk, Placeholder}) \cup {NoKey}]
            /\ single \in [UploadKeys -> (Values \ {Junk}) \cup {NoKey}]
        BY DEF Init
      <3> QED BY <3>1, <3>2
    <2>3. /\ taken \in [UploadKeys -> Values \cup {NoKey}] /\ given \subseteq SSIDs
          /\ wiped \in BOOLEAN /\ fails \in 0 .. MaxFails /\ cuts \in 0 .. MaxCuts
      BY <2>1 DEF Init
    <2>4. /\ stage \in {"off", "begun", "presave", "api", "single", "up"} /\ todo \subseteq UploadKeys
          /\ wifiFile \in SSIDs \cup {NoSSID} /\ pending \in SSIDs \cup {NoSSID}
      BY DEF Init
    <2> QED BY <2>2, <2>3, <2>4 DEF Books
  <1>6. Durable!DurableInit
    <2>1. value = kept /\ kept \in [Keys -> Values] /\ (wiped \/ fails > 0) = FALSE
      BY <1>1, <1>2, CachedType DEF value, kept, Init
    <2> QED BY <2>1 DEF Durable!DurableInit, Durable!Registers, value, kept
  <1> QED BY <1>4, <1>5, <1>6 DEF SettingsInv

LEMMA NextSettings == SettingsInv /\ [Next]_vars => SettingsInv'
  BY NextKeeps, NextBooks DEF SettingsInv

LEMMA SettingsAlways == Spec => []SettingsInv
  BY InitSettings, NextSettings, PTL DEF Spec

\* Every variable keeps its type, whatever is torn, migrated or imported.
THEOREM SettingsTypes == Spec => []TypeOK
  <1>1. SettingsInv => TypeOK
    BY CachedType DEF SettingsInv, DocsInv, Good, Books, TypeOK
  <1> QED BY <1>1, SettingsAlways, PTL

\* loadSetting, which reads the cache, says what the document in RAM says.
THEOREM SettingsCacheIsText == Spec => []CacheIsText
  <1>1. SettingsInv => CacheIsText
    BY DEF SettingsInv, DocsInv, CacheIsText
  <1> QED BY <1>1, SettingsAlways, PTL

\* Flash and text differ in the saved networks at most.
THEOREM SettingsNetworksDiffer == Spec => []OnlyNetworksDiffer
  <1>1. SettingsInv => OnlyNetworksDiffer
    BY DEF SettingsInv, DocsInv
  <1> QED BY <1>1, SettingsAlways, PTL

\* The list of networks holds each once and fits its slots, in RAM and in flash.
THEOREM SettingsProfilesDistinct == Spec => []ProfilesDistinct
  <1>1. SettingsInv => ProfilesDistinct
    BY DEF SettingsInv, DocsInv, Good, Distinct, ProfilesDistinct
  <1> QED BY <1>1, SettingsAlways, PTL

\* A document in use has every entry that came with a later build.
THEOREM SettingsLateEntries == Spec => []LateEntriesThere
  <1>1. SettingsInv => LateEntriesThere
    BY DEF SettingsInv, DocsInv, Good, Complete, LateEntriesThere
  <1> QED BY <1>1, SettingsAlways, PTL

\* The keys implement durable registers: what is read is what the next boot reads,
\* a key changes alone, and only a reset, a failed boot or a cut takes values away.
THEOREM SettingsKeepKeys == Spec => KeepsKeys
  <1>1. SettingsInv /\ [Next]_vars => [Durable!DurableNext]_(Durable!dvars)
    <2> SUFFICES ASSUME SettingsInv, [Next]_vars PROVE [Durable!DurableNext]_(Durable!dvars)
      OBVIOUS
    <2>1. Durably
      BY NextKeeps
    <2> QED BY <2>1 DEF Durably, Durable!dvars, value, kept, spoilt
  <1> QED BY <1>1, InitSettings, SettingsAlways, PTL DEF Spec, KeepsKeys, Durable!DurableSpec
===========================================================================
