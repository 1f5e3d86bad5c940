---------------------------- MODULE MCSettings ----------------------------
(* Settings for TLC: two upload keys, one of them stored by RunSetup too.    *)
EXTENDS Settings, TLC

CONSTANTS home, work, car
Networks3 == {home, work, car}
NetworkSymmetry == Permutations(Networks3)  \* sound: only safety is checked

MCKeys == {"ChanHop", "wu", "wt", "wrd_key"}
MCUpload == {"wt", "wrd_key"}
MCRank == [n \in MCKeys \cup {"SavedWiFi", "Geofences"} |->
             CASE n = "ChanHop" -> 0 [] n = "wu" -> 1 [] n = "wt" -> 2
               [] n = "SavedWiFi" -> 3 [] n = "Geofences" -> 4 [] n = "wrd_key" -> 5]
MCDefault == [k \in MCKeys |-> "default"]
MCPresaved == {"wt"}
MCLate == {"SavedWiFi", "Geofences", "wrd_key"}

\* What is on the card in the runs: a device whose list is full finds only a
\* network there, one that finds a network finds keys in files of their own.
MCInit ==
  /\ Init
  /\ flash.wifi # <<>> => single = [k \in UploadKeys |-> NoKey]
  /\ wifiFile # NoSSID \/ flash.wifi # <<>> => api = [k \in UploadKeys |-> NoKey]
MCSpec == MCInit /\ [][Next]_vars
===========================================================================
