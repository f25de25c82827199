---------------------------- MODULE ProcessProofs ----------------------------
(***************************************************************************)
(* Theorems about the life of the process: its supervisor, restarts and    *)
(* configuration (Control), and what its pool saves and restores           *)
(* (Persist), for any environment, any contents of the files, any          *)
(* accounts, sites and bounds.                                             *)
(*                                                                         *)
(* ControlInv is inductive.  Lives ties the service's life to the          *)
(* supervisor's place; Reserved follows a restart from the reservation to  *)
(* the next child; Truthful follows the configuration through the steps of *)
(* a transaction.                                                          *)
(*                                                                         *)
(* PersistInv is inductive.  Synced says what a clear flag means for the   *)
(* accounts that are held and for those that are not; NoneNewer that no    *)
(* snapshot of the mirror, arrived or on its way, is newer than the file.  *)
(***************************************************************************)
EXTENDS Control, Persist, TLAPS

(* Supervisor, restart and configuration. *)

Up   == child \in {"serving", "draining"}
Keys == [Field -> Value \cup {Absent}]

DataOK ==
  /\ ControlTypeOK
  /\ sent \in Nat /\ spawns \in Nat
  /\ file \in [kind : {"json", "broken", "missing"}, keys : Keys] /\ staged \in Keys
  /\ {cancelled, drained, pending, edited, accepted, tampered} \subseteq BOOLEAN
  /\ reason \in {"none", "accepted", "unsettled"}

\* The supervisor is between two children, or has left: none is alive.  What a
\* service has going dies with it; one that is alive has no exit code.
Lives ==
  /\ sup \notin {"watch", "stopping"} => ~Alive
  /\ ~Up => requests = {} /\ timers = 0 /\ save = "idle"
  /\ Alive => code = 0
  /\ child = "boot" => ~pending /\ ~accepted /\ told = {}

\* The next child will meet a configuration it can load, or one that changed
\* after it was checked, or was not waited for.
Ready == Loads(file) \/ tampered \/ reason = "unsettled"

Reserved ==
  /\ timers <= 1
  /\ timers > 0 => accepted
  /\ requests # {} => pending /\ ~accepted
  /\ \A r, q \in requests : r = q
  /\ Alive => (pending <=> requests # {} \/ accepted)
  /\ accepted => Loads(file) \/ tampered
  /\ code = RestartCode => reason # "none" /\ Ready
  /\ sup = "delay" => code = RestartCode
  /\ spawns > 0 /\ sup \in {"check", "spawn"} => code = RestartCode
  /\ child = "boot" /\ spawns > 1 => Ready

\* The values in effect and the file differ in the fields last named, and in the
\* interval of a loop that was never started.
Accounted ==
  Loads(file) /\ {f \in Field : Effective(file.keys)[f] # running[f]} = told \cup Unsaid

Truthful ==
  /\ Up /\ save # "apply" /\ ~edited => Accounted
  /\ Up /\ ~refreshing => running["balance"] = 0
  /\ save = "apply" => LoadsKeys(staged)
  /\ save = "apply" /\ ~edited => file.kind = "json" /\ file.keys = staged

ControlInv == DataOK /\ Lives /\ Reserved /\ Truthful

-----------------------------------------------------------------------------
(* What a load makes of the file.                                            *)

LEMMA NormalizeInRange ==
  ASSUME NEW c \in [Field -> Value]
  PROVE  /\ Normalize(c) \in [Field -> Value]
         /\ Normalize(c)["soft_rate"] = c["soft_rate"]
         /\ Normalize(c)["timeout"] \in {1, 2}
         /\ Normalize(c)["header"] \in {1, 2}
         /\ Normalize(c)["balance"] \in {0, 1, 2}
<1>1. Default.timeout = 1 /\ Default.balance = 1
  BY DEF Default
<1>2. /\ c["timeout"] \in Value /\ c["header"] \in Value /\ c["balance"] \in Value
      /\ c.timeout = c["timeout"]
  BY DEF Field
<1> DEFINE timeout == IF c.timeout <= 0 THEN Default.timeout ELSE c.timeout
           header == IF c["header"] <= 0 THEN timeout ELSE c["header"]
           balance == IF c["balance"] < 0 THEN Default.balance ELSE c["balance"]
<1>3. timeout \in {1, 2} /\ header \in {1, 2} /\ balance \in {0, 1, 2}
  BY <1>1, <1>2 DEF Value, Bad
<1>4. Normalize(c) = [c EXCEPT !["timeout"] = timeout, !["header"] = header, !["balance"] = balance]
  BY DEF Normalize, Field
<1> HIDE DEF timeout, header, balance
<1> QED
  BY <1>3, <1>4 DEF Field, Value

LEMMA ParsedInRange ==
  ASSUME NEW keys \in Keys
  PROVE  /\ Parsed(keys) \in [Field -> Value]
         /\ \A c \in [Field -> Value] : WithEnv(c) \in [Field -> Value]
<1>1. Default \in [Field -> Value]
  BY DEF Default, Field, Value, Bad
<1>2. Parsed(keys) \in [Field -> Value]
  BY <1>1 DEF Parsed, Overlay, Keys
<1>3. \A c \in [Field -> Value] : WithEnv(c) \in [Field -> Value]
  BY ControlAssumption DEF WithEnv, Overlay
<1> QED
  BY <1>2, <1>3

LEMMA EffectiveInRange ==
  ASSUME NEW keys \in Keys, LoadsKeys(keys)
  PROVE  Effective(keys) \in Settings
<1> DEFINE c == Parsed(keys)  d == Normalize(c)  e == WithEnv(d)
<1>1. c \in [Field -> Value] /\ d \in [Field -> Value] /\ e \in [Field -> Value]
  BY ParsedInRange, NormalizeInRange
<1>2. d["soft_rate"] = c["soft_rate"]
  BY <1>1, NormalizeInRange
<1>3. e["soft_rate"] = WithEnv(c)["soft_rate"]
  BY <1>2 DEF WithEnv, Overlay, Field
<1>4. WithEnv(c)["soft_rate"] > 0
  BY DEF LoadsKeys, Valid
<1>5. Normalize(e) \in [Field -> Value] /\ Normalize(e)["soft_rate"] = e["soft_rate"]
      /\ Normalize(e)["timeout"] \in {1, 2} /\ Normalize(e)["header"] \in {1, 2}
      /\ Normalize(e)["balance"] \in {0, 1, 2}
  BY <1>1, NormalizeInRange
<1>6. Effective(keys) = Normalize(e)
  BY DEF Effective
<1>7. Normalize(e)["soft_rate"] \in Value
  BY <1>5 DEF Field
<1> HIDE DEF c, d, e
<1>8. Normalize(e)["soft_rate"] \in {1, 2}
  BY <1>3, <1>4, <1>5, <1>7 DEF Value, Bad
<1> QED
  BY <1>5, <1>6, <1>8 DEF Field, Settings

LEMMA DefaultLoads ==
  /\ Normalize(Default) \in Keys /\ Normalize(Default) \in Settings
  /\ NoKeys \in Keys
  /\ LoadsKeys(Default) => LoadsKeys(Normalize(Default))
<1>1. Default \in [Field -> Value] /\ Default["soft_rate"] = 1
  BY DEF Default, Field, Value, Bad
<1> DEFINE d == Normalize(Default)
<1>2. /\ d \in [Field -> Value] /\ d["soft_rate"] = 1
      /\ d["timeout"] \in {1, 2} /\ d["header"] \in {1, 2} /\ d["balance"] \in {0, 1, 2}
  BY <1>1, NormalizeInRange
<1> HIDE DEF d
<1>3. d \in Settings /\ d \in Keys
  BY <1>2 DEF Field, Keys, Value, Settings
<1>4. NoKeys \in Keys
  BY DEF NoKeys, Keys
<1>5. Parsed(d)["soft_rate"] = 1 /\ Parsed(Default)["soft_rate"] = 1
  BY <1>1, <1>2 DEF Parsed, Overlay, Field, Absent
<1>6. WithEnv(Parsed(d))["soft_rate"] = WithEnv(Parsed(Default))["soft_rate"]
  BY <1>5 DEF WithEnv, Overlay, Field
<1>7. LoadsKeys(Default) => LoadsKeys(d)
  BY <1>5, <1>6 DEF LoadsKeys, Valid
<1> QED
  BY <1>3, <1>4, <1>7 DEF d


-----------------------------------------------------------------------------
(* The supervisor's steps, and the ends of a service.                        *)

Sups == {"check", "spawn", "watch", "stopping", "delay", "exited"}

LEMMA Facts ==
  ASSUME ControlInv
  PROVE  /\ DataOK /\ Lives /\ Reserved /\ Truthful
         /\ sup \in Sups /\ signals \in 0 .. 4 /\ sent \in Nat /\ spawns \in Nat
         /\ child \in {"none", "boot", "serving", "draining", "dead"}
         /\ code \in {0, 1, RestartCode} /\ save \in {"idle", "staged", "apply"}
         /\ requests \subseteq Requests /\ timers \in Nat /\ told \subseteq Cold
         /\ running \in Settings /\ refreshing \in BOOLEAN /\ staged \in Keys
         /\ file.kind \in {"json", "broken", "missing"} /\ file.keys \in Keys
         /\ Alive <=> child \in {"boot", "serving", "draining"}
BY DEF ControlInv, DataOK, ControlTypeOK, Sups, Alive

\* A step of the supervisor alone.
LEMMA SupervisorMoves ==
  ASSUME ControlInv, sup' \in Sups, signals' \in 0 .. 4,
         UNCHANGED <<sent, spawns, childVars, restartVars, configVars, observers>>,
         sup' \notin {"watch", "stopping"} => ~Alive,
         sup' = "delay" => code = RestartCode,
         spawns > 0 /\ sup' \in {"check", "spawn"} => code = RestartCode
  PROVE  ControlInv'
<1> USE DEF childVars, restartVars, configVars, observers
<1>1. DataOK'
  BY Facts DEF DataOK, ControlTypeOK, Sups
<1>2. Lives'
  BY Facts DEF Lives, Alive, Up
<1>3. Reserved'
  BY Facts DEF Reserved, Alive, Ready
<1>4. Truthful'
  BY Facts DEF Truthful, Accounted, Unsaid, Up
<1> QED
  BY <1>1, <1>2, <1>3, <1>4 DEF ControlInv

\* The service ends without asking to be started again.
LEMMA ServiceDies ==
  ASSUME ControlInv, Alive, Die(1), sup' \in {"watch", "stopping"}, signals' \in 0 .. 4,
         sent' \in Nat, edited' \in BOOLEAN,
         file' \in [kind : {"json", "broken", "missing"}, keys : Keys], accepted => file' = file,
         UNCHANGED <<spawns, cancelled, drained, pending, staged, running, refreshing, told,
                     accepted, reason, tampered>>
  PROVE  ControlInv'
<1> USE DEF Die
<1>1. DataOK'
  BY Facts DEF DataOK, ControlTypeOK
<1>2. Lives'
  BY Facts DEF Lives, Alive, Up
<1>3. Reserved'
  BY Facts DEF Reserved, Alive, Ready, RestartCode
<1>4. Truthful'
  BY Facts DEF Truthful, Up
<1> QED
  BY <1>1, <1>2, <1>3, <1>4 DEF ControlInv

LEMMA AliveIsWatched ==
  ASSUME ControlInv, Alive
  PROVE  sup \in {"watch", "stopping"}
BY Facts DEF Lives

LEMMA KeepsWaits ==
  ASSUME ControlInv, SupCheck \/ SpawnFails \/ SupDone \/ SupStopped \/ SupDelayOver
  PROVE  ControlInv'
<1>1. UNCHANGED <<sent, spawns, childVars, restartVars, configVars, observers>>
  BY DEF SupCheck, SpawnFails, SupDone, SupStopped, SupDelayOver
<1>2. signals' \in 0 .. 4
  BY Facts DEF SupCheck, SpawnFails, SupDone, SupStopped, SupDelayOver
<1>3. CASE SupCheck
  BY <1>1, <1>2, <1>3, Facts, SupervisorMoves DEF SupCheck, Sups, Lives, Reserved
<1>4. CASE SpawnFails
  BY <1>1, <1>2, <1>4, Facts, SupervisorMoves DEF SpawnFails, Sups, Lives
<1>5. CASE SupDone
  BY <1>1, <1>2, <1>5, Facts, SupervisorMoves DEF SupDone, Sups
<1>6. CASE SupStopped
  BY <1>1, <1>2, <1>6, Facts, SupervisorMoves DEF SupStopped, Sups
<1>7. CASE SupDelayOver
  BY <1>1, <1>2, <1>7, Facts, SupervisorMoves DEF SupDelayOver, Sups, Lives, Reserved
<1> QED
  BY <1>3, <1>4, <1>5, <1>6, <1>7

LEMMA KeepsSupSpawn ==
  ASSUME ControlInv, SupSpawn
  PROVE  ControlInv'
<1> USE DEF SupSpawn
<1>1. DataOK'
  <2>1. spawns' \in Nat /\ sent' \in Nat /\ timers' \in Nat /\ signals' \in 0 .. 4
    BY Facts
  <2>2. {cancelled, drained, pending, edited, accepted, tampered}' \subseteq BOOLEAN
    BY Facts DEF DataOK
  <2>3. requests' \subseteq Requests /\ told' \subseteq Cold
    OBVIOUS
  <2> QED
    BY <2>1, <2>2, <2>3, Facts DEF DataOK, ControlTypeOK
<1>2. Lives'
  BY Facts DEF Lives, Alive, Up
<1>3. Reserved'
  BY Facts DEF Reserved, Alive, Ready, RestartCode
<1>4. Truthful'
  BY Facts DEF Truthful, Lives, Up, Alive
<1> QED
  BY <1>1, <1>2, <1>3, <1>4 DEF ControlInv

\* A stop that is passed on to the service, or reaches it by itself.
LEMMA ServiceIsTold ==
  ASSUME ControlInv, Alive, sup' \in {"watch", "stopping"}, signals' \in 0 .. 4, sent' \in Nat,
         cancelled' \in BOOLEAN,
         UNCHANGED <<spawns, child, code, drained, restartVars, file, save, staged, running,
                     refreshing, told, observers>>
  PROVE  ControlInv'
<1> USE DEF restartVars, observers
<1>1. DataOK'
  BY Facts DEF DataOK, ControlTypeOK
<1>2. Lives'
  BY Facts DEF Lives, Alive, Up
<1>3. Reserved'
  BY Facts DEF Reserved, Alive, Ready
<1>4. Truthful'
  BY Facts DEF Truthful, Accounted, Unsaid, Up
<1> QED
  BY <1>1, <1>2, <1>3, <1>4 DEF ControlInv

LEMMA KeepsSupSignal ==
  ASSUME ControlInv, SupSignal
  PROVE  ControlInv'
<1>1. signals' \in 0 .. 4 /\ sup' = "stopping" /\ sent' \in Nat
      /\ UNCHANGED <<sent, spawns, pending, file, staged, saves, edits, running, refreshing,
                     told, observers>>
  BY Facts DEF SupSignal
<1>2. CASE child = "dead" /\ UNCHANGED <<childVars, requests, timers, save>>
  BY <1>1, <1>2, SupervisorMoves DEF Sups, restartVars, configVars
<1>3. CASE child \in {"boot", "serving", "draining"} /\ Die(1) /\ UNCHANGED <<cancelled, drained>>
  BY <1>1, <1>3, Facts, ServiceDies DEF observers, DataOK
<1>4. CASE /\ child \in {"serving", "draining"} /\ cancelled' = TRUE
           /\ UNCHANGED <<child, code, drained, requests, timers, save>>
  BY <1>1, <1>4, Facts, ServiceIsTold DEF restartVars
<1> QED
  BY <1>2, <1>3, <1>4 DEF SupSignal

LEMMA KeepsSupKill ==
  ASSUME ControlInv, SupKill
  PROVE  ControlInv'
<1>1. signals' \in 0 .. 4 /\ Alive /\ Die(1) /\ sup' = "stopping" /\ sent' \in Nat
      /\ UNCHANGED <<spawns, cancelled, drained, pending, file, staged, running, refreshing,
                     told, observers>>
  BY Facts DEF SupKill
<1> QED
  BY <1>1, Facts, ServiceDies DEF observers, DataOK

LEMMA KeepsSend ==
  ASSUME ControlInv, Send
  PROVE  ControlInv'
<1>1. PICK target \in {"group", "supervisor", "service"} :
       /\ signals' = IF target = "service" \/ sup = "exited" \/ signals = 4 THEN signals ELSE signals + 1
       /\ \/ /\ target # "supervisor" /\ (child = "boot" \/ Deaf)
             /\ Die(1) /\ UNCHANGED cancelled
          \/ /\ target = "supervisor" \/ child # "boot"
             /\ cancelled' = (cancelled \/ (target # "supervisor" /\ Alive))
             /\ UNCHANGED <<child, code, save, requests, timers>>
  BY DEF Send
<1>2. signals' \in 0 .. 4 /\ sent' \in Nat
  BY <1>1, Facts DEF Send
<1>3. UNCHANGED <<sup, spawns, drained, pending, file, staged, saves, edits, running,
                  refreshing, told, observers>>
  BY DEF Send
<1>4. CASE (child = "boot" \/ Deaf) /\ Die(1) /\ UNCHANGED cancelled
  <2>1. Alive
    BY <1>4 DEF Alive, Deaf
  <2> QED
    BY <1>2, <1>3, <1>4, <2>1, Facts, AliveIsWatched, ServiceDies DEF observers, DataOK
<1>5. CASE /\ cancelled' = (cancelled \/ (target # "supervisor" /\ Alive)) /\ Alive
           /\ UNCHANGED <<child, code, save, requests, timers>>
  <2>1. cancelled' \in BOOLEAN
    BY <1>5
  <2> QED
    BY <1>2, <1>3, <1>5, <2>1, AliveIsWatched, ServiceIsTold DEF restartVars
<1>6. CASE /\ cancelled' = (cancelled \/ (target # "supervisor" /\ Alive)) /\ ~Alive
           /\ UNCHANGED <<child, code, save, requests, timers>>
  <2>1. UNCHANGED cancelled
    BY <1>6, Facts DEF DataOK
  <2>2. sup' = sup /\ UNCHANGED <<spawns, childVars, restartVars, file, save, staged, running,
                                  refreshing, told, observers>>
    BY <1>3, <1>6, <2>1 DEF childVars, restartVars
  <2> USE DEF childVars, restartVars, observers
  <2>3. DataOK'
    BY <1>2, <2>2, Facts DEF DataOK, ControlTypeOK
  <2>4. Lives'
    BY <2>2, Facts DEF Lives, Alive, Up
  <2>5. Reserved'
    BY <2>2, Facts DEF Reserved, Alive, Ready
  <2>6. Truthful'
    BY <2>2, Facts DEF Truthful, Accounted, Unsaid, Up
  <2> QED
    BY <2>3, <2>4, <2>5, <2>6 DEF ControlInv
<1> QED
  BY <1>1, <1>4, <1>5, <1>6


-----------------------------------------------------------------------------
(* The service's steps.                                                      *)

LEMMA KeepsBoot ==
  ASSUME ControlInv, Boot
  PROVE  ControlInv'
<1>1. child = "boot" /\ Alive /\ sup' = sup /\ sup \in {"watch", "stopping"}
  BY AliveIsWatched DEF Boot, Alive, supVars
<1>2. /\ UNCHANGED <<supVars, cancelled, drained, pending, staged, saves, edits, told, accepted, reason,
                     tampered>>
      /\ edited' = (file'.kind = "missing")
      /\ file' \in IF file.kind = "missing" THEN {file, Json(Normalize(Default))} ELSE {file}
  BY DEF Boot
<1>3. /\ ~pending /\ ~accepted /\ told = {} /\ requests = {} /\ timers = 0 /\ save = "idle"
      /\ code = 0
  BY <1>1, Facts DEF Lives, Up
<1>4. file' \in [kind : {"json", "broken", "missing"}, keys : Keys] /\ file'.keys \in Keys
  BY <1>2, DefaultLoads, Facts DEF Json, DataOK
<1>5. Loads(file) => file' = file
  BY <1>2 DEF Loads
<1>6. CASE Die(1) /\ UNCHANGED <<running, refreshing>>
  <2>1. signals' \in 0 .. 4 /\ sent' \in Nat /\ edited' \in BOOLEAN
    BY <1>2, Facts DEF supVars
  <2> QED
    BY <1>1, <1>2, <1>3, <1>4, <1>6, <2>1, ServiceDies DEF supVars
<1>7. CASE /\ file'.kind # "broken" /\ LoadsKeys(file'.keys)
           /\ running' = Effective(file'.keys) /\ refreshing' = (running'.balance > 0)
           /\ child' = "serving" /\ UNCHANGED <<code, save, requests, timers>>
  <2>1. running' \in Settings /\ running'["balance"] \in 0 .. 2 /\ running'.balance = running'["balance"]
    BY <1>4, <1>7, EffectiveInRange DEF Settings, Field
  <2>2. DataOK'
    BY <1>2, <1>4, <1>7, <2>1, Facts DEF DataOK, ControlTypeOK, supVars
  <2>3. Lives'
    BY <1>1, <1>2, <1>7, Facts DEF Lives, Alive, Up, supVars
  <2>4. Reserved'
    BY <1>1, <1>2, <1>3, <1>5, <1>7, Facts DEF Reserved, Alive, Ready, RestartCode, supVars
  <2>5. ~edited' => Loads(file')
    BY <1>2, <1>4, <1>7 DEF Loads
  <2>6. ~refreshing' => running'["balance"] = 0
    <3>1. refreshing' <=> running'["balance"] > 0
      BY <1>7, <2>1
    <3> QED
      BY <2>1, <3>1
  <2>7. {f \in Field : Effective(file'.keys)[f] # running'[f]} = {} /\ Unsaid' = {}
    BY <1>7 DEF Unsaid
  <2>8. Truthful'
    BY <1>2, <1>3, <1>7, <2>5, <2>6, <2>7 DEF Truthful, Accounted, Unsaid
  <2> QED
    BY <2>2, <2>3, <2>4, <2>8 DEF ControlInv
<1> QED
  BY <1>6, <1>7 DEF Boot

LEMMA KeepsListenFails ==
  ASSUME ControlInv, ListenFails
  PROVE  ControlInv'
<1>1. Alive /\ Die(1) /\ signals' \in 0 .. 4 /\ sent' \in Nat
      /\ UNCHANGED <<sup, spawns, cancelled, drained, pending, file, staged, running,
                     refreshing, told, observers>>
  BY Facts DEF ListenFails, Alive, supVars
<1> QED
  BY <1>1, Facts, AliveIsWatched, ServiceDies DEF observers, DataOK

LEMMA KeepsDrain ==
  ASSUME ControlInv, Drain \/ Shut
  PROVE  ControlInv'
<1>1. Up /\ Up' /\ Alive /\ Alive' /\ child' \in {"serving", "draining"} /\ drained' \in BOOLEAN
      /\ UNCHANGED <<supVars, code, cancelled, restartVars, configVars, observers>>
  BY Facts DEF Drain, Shut, Up, Alive, DataOK
<1> USE DEF supVars, restartVars, configVars, observers
<1>2. DataOK'
  BY <1>1, Facts DEF DataOK, ControlTypeOK
<1>3. Lives'
  BY <1>1, Facts DEF Lives, Up
<1>4. Reserved'
  BY <1>1, Facts DEF Reserved, Ready
<1>5. Truthful'
  BY <1>1, Facts DEF Truthful, Accounted, Unsaid
<1> QED
  BY <1>2, <1>3, <1>4, <1>5 DEF ControlInv

\* The drained service ends, with the restart code if one is reserved.
LEMMA KeepsExit ==
  ASSUME ControlInv, Exit
  PROVE  ControlInv'
<1>1. child = "draining" /\ Alive /\ sup \in {"watch", "stopping"}
  BY AliveIsWatched DEF Exit, Alive
<1>2. /\ child' = "dead" /\ code' = (IF pending THEN RestartCode ELSE 0)
      /\ save' = "idle" /\ requests' = {} /\ timers' = 0
      /\ reason' = IF accepted THEN "accepted" ELSE IF requests # {} THEN "unsettled" ELSE "none"
      /\ UNCHANGED <<supVars, cancelled, drained, pending, file, staged, saves, edits,
                     running, refreshing, told, edited, accepted, tampered>>
  BY DEF Exit, Die
<1> USE DEF supVars
<1>3. DataOK'
  BY <1>2, Facts DEF DataOK, ControlTypeOK
<1>4. Lives'
  BY <1>1, <1>2, Facts DEF Lives, Alive, Up
<1>5. Reserved'
  BY <1>1, <1>2, Facts DEF Reserved, Alive, Ready, RestartCode
<1>6. Truthful'
  BY <1>2, Facts DEF Truthful, Up
<1> QED
  BY <1>3, <1>4, <1>5, <1>6 DEF ControlInv

LEMMA KeepsRequest ==
  ASSUME ControlInv, NEW r \in Requests, Request(r)
  PROVE  ControlInv'
<1>1. Up /\ Alive /\ ~pending /\ pending' = TRUE /\ requests' = requests \cup {r}
      /\ UNCHANGED <<supVars, childVars, timers, configVars, observers>>
  BY DEF Request, Up, Alive
<1>2. requests = {} /\ ~accepted /\ timers = 0
  BY <1>1, Facts DEF Reserved
<1> USE DEF supVars, childVars, configVars, observers
<1>3. DataOK'
  BY <1>1, Facts DEF DataOK, ControlTypeOK
<1>4. Lives'
  BY <1>1, Facts DEF Lives, Alive, Up
<1>5. Reserved'
  BY <1>1, <1>2, Facts DEF Reserved, Alive, Ready
<1>6. Truthful'
  BY <1>1, Facts DEF Truthful, Accounted, Unsaid, Up
<1> QED
  BY <1>3, <1>4, <1>5, <1>6 DEF ControlInv

LEMMA KeepsValidate ==
  ASSUME ControlInv, NEW r \in Requests, Validate(r)
  PROVE  ControlInv'
<1>1. r \in requests /\ requests' = requests \ {r}
      /\ UNCHANGED <<supVars, childVars, configVars, edited, reason>>
  BY DEF Validate
<1>2. IF Loads(file)
      THEN timers' = timers + 1 /\ accepted' = TRUE /\ tampered' = FALSE /\ pending' = TRUE
      ELSE pending' = FALSE /\ UNCHANGED <<timers, accepted, tampered>>
  BY DEF Validate
<1>3. Up /\ Alive /\ code = 0 /\ sup \in {"watch", "stopping"}
  BY <1>1, Facts, AliveIsWatched DEF Lives, Up, Alive
<1>4. requests' = {} /\ ~accepted /\ timers = 0
  BY <1>1, Facts DEF Reserved
<1>5. tampered \in BOOLEAN /\ accepted = FALSE
  BY <1>4, Facts DEF DataOK
<1>6. \/ Loads(file) /\ timers' = 1 /\ pending' = TRUE /\ accepted' = TRUE /\ tampered' = FALSE
      \/ ~Loads(file) /\ timers' = 0 /\ pending' = FALSE /\ accepted' = FALSE /\ tampered' = tampered
  BY <1>2, <1>4, <1>5
<1> USE DEF supVars, childVars, configVars
<1>7. DataOK'
  <2>1. pending' \in BOOLEAN /\ accepted' \in BOOLEAN /\ tampered' \in BOOLEAN
    BY <1>5, <1>6
  <2>2. timers' \in Nat
    BY <1>6
  <2> QED
    BY <1>1, <1>4, <2>1, <2>2, Facts DEF DataOK, ControlTypeOK
<1>8. Lives'
  BY <1>1, <1>3, Facts DEF Lives, Alive, Up
<1>9. Reserved'
  BY <1>1, <1>3, <1>4, <1>6, Facts DEF Reserved, Alive, Ready, RestartCode, Up
<1>10. Truthful'
  BY <1>1, Facts DEF Truthful, Accounted, Unsaid, Up
<1> QED
  BY <1>7, <1>8, <1>9, <1>10 DEF ControlInv

LEMMA KeepsTimerFires ==
  ASSUME ControlInv, TimerFires
  PROVE  ControlInv'
<1>1. timers > 0 /\ Alive /\ timers' = timers - 1 /\ cancelled' = TRUE
      /\ UNCHANGED <<supVars, child, code, drained, pending, requests, configVars, observers>>
  BY DEF TimerFires
<1>2. timers' = 0 /\ timers = 1
  BY <1>1, Facts DEF Reserved
<1> USE DEF supVars, configVars, observers
<1>3. DataOK'
  BY <1>1, <1>2, Facts DEF DataOK, ControlTypeOK
<1>4. Lives'
  BY <1>1, <1>2, Facts DEF Lives, Alive, Up
<1>5. Reserved'
  BY <1>1, <1>2, Facts DEF Reserved, Alive, Ready
<1>6. Truthful'
  BY <1>1, Facts DEF Truthful, Accounted, Unsaid, Up
<1> QED
  BY <1>3, <1>4, <1>5, <1>6 DEF ControlInv


-----------------------------------------------------------------------------
(* The configuration.                                                        *)

\* A step of a transaction that leaves the file, or puts one that loads in place.
LEMMA SaveMoves ==
  ASSUME ControlInv, Alive, Up, UNCHANGED <<supVars, childVars, restartVars, accepted, reason, tampered>>,
         file' \in [kind : {"json", "broken", "missing"}, keys : Keys],
         save' \in {"idle", "staged", "apply"}, staged' \in Keys,
         running' \in Settings, refreshing' \in BOOLEAN, told' \subseteq Cold, edited' \in BOOLEAN,
         Loads(file) => Loads(file'),
         Truthful'
  PROVE  ControlInv'
<1> USE DEF supVars, childVars, restartVars
<1>1. DataOK'
  BY Facts DEF DataOK, ControlTypeOK
<1>2. Lives'
  BY Facts DEF Lives, Alive, Up
<1>3. Reserved'
  BY Facts DEF Reserved, Alive, Ready
<1> QED
  BY <1>1, <1>2, <1>3 DEF ControlInv

LEMMA SavingIsUp ==
  ASSUME ControlInv, save # "idle"
  PROVE  Up /\ Alive
BY Facts DEF Lives, Up, Alive

LEMMA KeepsSaveStage ==
  ASSUME ControlInv, SaveStage
  PROVE  ControlInv'
<1>1. Up /\ Alive /\ save = "idle" /\ save' = "staged"
      /\ UNCHANGED <<supVars, childVars, restartVars, file, running, refreshing, told,
                     observers>>
  BY DEF SaveStage, Up, Alive
<1>2. staged' \in Keys
  <2>1. PICK form \in Forms : staged' = Merge(file.keys, form)
    BY DEF SaveStage
  <2>2. form \in Keys /\ file.keys \in Keys
    BY ControlAssumption, Facts DEF Keys
  <2> QED
    BY <2>1, <2>2 DEF Merge, Keys
<1>3. Truthful'
  BY <1>1, Facts DEF Truthful, Accounted, Unsaid, Up, observers, childVars
<1>4. file' \in [kind : {"json", "broken", "missing"}, keys : Keys] /\ edited' \in BOOLEAN
  BY <1>1, Facts DEF DataOK, observers
<1> QED
  BY <1>1, <1>2, <1>3, <1>4, Facts, SaveMoves DEF observers

LEMMA KeepsSaveRename ==
  ASSUME ControlInv, SaveRename
  PROVE  ControlInv'
<1>1. save = "staged" /\ Up /\ Alive
      /\ UNCHANGED <<supVars, childVars, restartVars, staged, running, refreshing, told,
                     accepted, reason, tampered>>
  BY SavingIsUp DEF SaveRename
<1>2. file \in [kind : {"json", "broken", "missing"}, keys : Keys] /\ edited \in BOOLEAN
  BY Facts DEF DataOK
<1>3. CASE LoadsKeys(staged) /\ file' = Json(staged) /\ save' = "apply" /\ edited' = FALSE
  <2>1. file'.kind = "json" /\ file'.keys = staged
        /\ file' \in [kind : {"json", "broken", "missing"}, keys : Keys]
    BY <1>3, Facts DEF Json
  <2>2. Loads(file') /\ LoadsKeys(staged')
    BY <1>1, <1>3, <2>1 DEF Loads
  <2>3. Truthful'
    BY <1>1, <1>3, <2>1, <2>2, Facts DEF Truthful
  <2> QED
    BY <1>1, <1>3, <2>1, <2>2, <2>3, Facts, SaveMoves
<1>4. CASE save' = "idle" /\ UNCHANGED <<file, edited>>
  <2>1. Truthful'
    BY <1>1, <1>4, Facts DEF Truthful, Accounted, Unsaid, Up, childVars
  <2> QED
    BY <1>1, <1>2, <1>4, <2>1, Facts, SaveMoves
<1> QED
  BY <1>3, <1>4 DEF SaveRename

LEMMA KeepsReload ==
  ASSUME ControlInv, Reload
  PROVE  ControlInv'
<1>1. Up /\ Alive /\ Loads(file) /\ staged' = file.keys /\ save' = "apply" /\ edited' = FALSE
      /\ UNCHANGED <<supVars, childVars, restartVars, file, running, refreshing, told,
                     accepted, reason, tampered>>
  BY DEF Reload, Up, Alive
<1>2. file.kind = "json" /\ LoadsKeys(staged')
  BY <1>1 DEF Loads
<1>3. Truthful'
  BY <1>1, <1>2, Facts DEF Truthful
<1>4. file' \in [kind : {"json", "broken", "missing"}, keys : Keys]
  BY <1>1, Facts DEF DataOK
<1> QED
  BY <1>1, <1>3, <1>4, Facts, SaveMoves

\* The hot fields take the new values; those that differ now are the cold ones told,
\* and the interval that reaches no loop.
LEMMA KeepsApply ==
  ASSUME ControlInv, Apply
  PROVE  ControlInv'
<1> DEFINE c == Effective(staged)
<1>1. save = "apply" /\ Up /\ Alive /\ save' = "idle"
      /\ UNCHANGED <<supVars, childVars, restartVars, file, staged, refreshing, observers>>
  BY SavingIsUp DEF Apply
<1>2. running' = [f \in Field |-> IF TakesEffect(f) THEN c[f] ELSE running[f]]
      /\ told' = {f \in Cold : c[f] # running[f]}
  BY DEF Apply, NeedRestart
<1>3. LoadsKeys(staged) /\ c \in Settings /\ running \in Settings
  BY <1>1, Facts, EffectiveInRange DEF Truthful
<1>4. ~refreshing => running["balance"] = 0
  BY <1>1, Facts DEF Truthful
<1> DEFINE unsaid == IF ~refreshing /\ c["balance"] > 0 THEN {"balance"} ELSE {}
<1> HIDE DEF c
<1>5. running' \in Settings /\ told' \subseteq Cold
  BY <1>2, <1>3 DEF Settings
<1>6. \A f \in Field : c[f] # running'[f] <=> f \in told' \cup unsaid
  <2> SUFFICES ASSUME NEW f \in Field PROVE c[f] # running'[f] <=> f \in told' \cup unsaid
    OBVIOUS
  <2>1. CASE f = "balance"
    <3>1. c[f] \in 0 .. 2 /\ f \in Hot /\ f \notin Cold
      BY <1>3, <2>1 DEF Settings, Hot, Cold
    <3>2. CASE refreshing
      BY <1>2, <2>1, <3>1, <3>2 DEF TakesEffect
    <3>3. CASE ~refreshing
      BY <1>2, <1>4, <2>1, <3>1, <3>3 DEF TakesEffect
    <3> QED
      BY <3>2, <3>3
  <2>2. CASE f # "balance"
    BY <1>2, <2>2 DEF TakesEffect, Cold, Hot
  <2> QED
    BY <2>1, <2>2
<1>7. {f \in Field : c[f] # running'[f]} = told' \cup unsaid
  <2>1. told' \subseteq Field /\ unsaid \subseteq Field
    BY <1>5 DEF Cold, Field
  <2> QED
    BY <1>6, <2>1
<1>8. ASSUME ~edited PROVE Loads(file) /\ Effective(file.keys) = c
  BY <1>1, <1>3, <1>8, Facts DEF Truthful, Loads, c
<1>9. Truthful'
  <2>1. ~edited' => Loads(file') /\ Effective(file'.keys) = c
    BY <1>1, <1>8 DEF observers
  <2>2. c.balance = c["balance"] /\ refreshing' = refreshing
    BY <1>1
  <2>3. ~edited' => Unsaid' = unsaid
    BY <2>1, <2>2 DEF Unsaid
  <2>4. ~refreshing' => running'["balance"] = 0
    BY <1>2, <1>4, <2>2 DEF TakesEffect, Field
  <2>5. ~edited' => Accounted'
    BY <1>7, <2>1, <2>3 DEF Accounted
  <2> HIDE DEF unsaid
  <2> QED
    BY <1>1, <2>4, <2>5 DEF Truthful
<1>10. file' \in [kind : {"json", "broken", "missing"}, keys : Keys] /\ edited' \in BOOLEAN
       /\ refreshing' \in BOOLEAN
  BY <1>1, Facts DEF DataOK, observers
<1> QED
  BY <1>1, <1>5, <1>9, <1>10, Facts, SaveMoves DEF observers

LEMMA KeepsOutsideEdit ==
  ASSUME ControlInv, OutsideEdit
  PROVE  ControlInv'
<1>1. edited' = TRUE /\ tampered' = TRUE
      /\ UNCHANGED <<supVars, childVars, restartVars, save, staged, saves, running,
                     refreshing, told, accepted, reason>>
  BY DEF OutsideEdit
<1>2. file' \in [kind : {"json", "broken", "missing"}, keys : Keys]
  <2>1. NoKeys \in Keys /\ Forms \subseteq Keys
    BY DefaultLoads, ControlAssumption DEF Keys
  <2> QED
    BY <2>1 DEF OutsideEdit, Json, Broken
<1> USE DEF supVars, childVars, restartVars
<1>3. DataOK'
  BY <1>1, <1>2, Facts DEF DataOK, ControlTypeOK
<1>4. Lives'
  BY <1>1, Facts DEF Lives, Alive, Up
<1>5. Reserved'
  BY <1>1, Facts DEF Reserved, Alive, Ready
<1>6. Truthful'
  BY <1>1, Facts DEF Truthful, Up
<1> QED
  BY <1>3, <1>4, <1>5, <1>6 DEF ControlInv

-----------------------------------------------------------------------------
(* The theorems.                                                             *)

LEMMA ControlInitInv == ControlInit => ControlInv
<1> SUFFICES ASSUME ControlInit PROVE ControlInv
  OBVIOUS
<1> USE DEF ControlInit
<1>1. NoKeys \in Keys /\ Normalize(Default) \in Settings /\ Forms \subseteq Keys
  BY DefaultLoads, ControlAssumption DEF Keys
<1>2. file \in [kind : {"json", "broken", "missing"}, keys : Keys]
  BY <1>1 DEF Json, Broken, Missing
<1>3. DataOK
  <2>1. {cancelled, drained, pending, edited, accepted, tampered} \subseteq BOOLEAN
    OBVIOUS
  <2>2. signals \in 0 .. 4 /\ timers \in Nat /\ sent \in Nat /\ spawns \in Nat
    OBVIOUS
  <2>3. staged \in Keys /\ running \in Settings /\ refreshing \in BOOLEAN
        /\ told \subseteq Cold /\ requests \subseteq Requests
    BY <1>1
  <2> QED
    BY <1>2, <2>1, <2>2, <2>3 DEF DataOK, ControlTypeOK
<1>4. Lives
  BY DEF Lives, Alive, Up
<1>5. Reserved
  BY DEF Reserved, Alive, Ready, RestartCode
<1>6. Truthful
  BY DEF Truthful, Up
<1> QED
  BY <1>3, <1>4, <1>5, <1>6 DEF ControlInv

LEMMA ControlStepInv == ControlInv /\ [ControlNext]_vars => ControlInv'
<1> SUFFICES ASSUME ControlInv, [ControlNext]_vars PROVE ControlInv'
  OBVIOUS
<1>1. CASE Supervisor
  BY <1>1, KeepsWaits, KeepsSupSpawn, KeepsSupSignal, KeepsSupKill DEF Supervisor
<1>2. CASE Service
  BY <1>2, KeepsBoot, KeepsListenFails, KeepsDrain, KeepsExit, KeepsTimerFires, KeepsRequest,
     KeepsValidate, KeepsSaveStage, KeepsSaveRename, KeepsReload, KeepsApply DEF Service
<1>3. CASE UNCHANGED vars
  <2> USE DEF vars, supVars, childVars, restartVars, configVars, observers
  <2>1. DataOK'
    BY <1>3, Facts DEF DataOK, ControlTypeOK
  <2>2. Lives'
    BY <1>3, Facts DEF Lives, Alive, Up
  <2>3. Reserved'
    BY <1>3, Facts DEF Reserved, Alive, Ready
  <2>4. Truthful'
    BY <1>3, Facts DEF Truthful, Accounted, Unsaid, Up
  <2> QED
    BY <2>1, <2>2, <2>3, <2>4 DEF ControlInv
<1> QED
  BY <1>1, <1>2, <1>3, KeepsSend, KeepsOutsideEdit DEF ControlNext

LEMMA ControlInvariance == ControlSpec => []ControlInv
BY ControlInitInv, ControlStepInv, PTL DEF ControlSpec

\* A restart happens on purpose and once, for any number of requests, signals
\* and saves: one shutdown is armed at most, the restart code is only left behind
\* by a service that had reserved a restart, the next child meets a configuration
\* that loads unless it changed or was not waited for, and a supervisor that has
\* left has left no child behind.
THEOREM RestartsStaySound == ControlSpec => []RestartsAreSound
<1>1. ControlInv => RestartsAreSound
  BY Facts DEF RestartsAreSound, DataOK, Reserved, Lives, Ready
<1> QED
  BY <1>1, ControlInvariance, PTL

\* What the panel answered about pending restarts stays true, for any file, any
\* environment and any sequence of saves and reloads: unless the file was edited
\* from outside, the file loads, and the values in effect differ from those a start
\* would take from it in exactly the fields last named, and in the one the answer
\* leaves out, a balance refresh that no loop was started for.
THEOREM AnswersStayTrue == ControlSpec => []AnswerIsTrue
<1>1. ControlInv => AnswerIsTrue
  BY Facts DEF AnswerIsTrue, Truthful, Accounted, Unsaid, Up
<1> QED
  BY <1>1, ControlInvariance, PTL

-----------------------------------------------------------------------------
(* The state file and its mirror. *)

Held == [v : Version, site : Site \cup {NoSite}]
VersionIn(m, u) == IF u \in DOMAIN m THEN m[u].v ELSE 0

\* Memory and file say the same of every account, held or not.
Agree == \A u \in Uid : VersionOn(disk, u) = VersionIn(mem, u)
Blank == \A u \in Uid : VersionIn(mem, u) = 0

\* Beside a file that could not be read, memory is as the start left it.
InStep == IF unread THEN Blank ELSE Agree

Synced ==
  /\ Running /\ ~dirty /\ ~failing => InStep
  /\ phase = "loaded" => ~dirty /\ IF unread THEN mem = Empty ELSE Versions(mem) = disk.accounts

NoneNewer ==
  /\ disk.at <= clock
  /\ \A s \in mirrors \cup {redis} :
       /\ s.at <= clock
       /\ disk # NoFile => s.at <= disk.at

PersistInv == PersistTypeOK /\ Synced /\ NoneNewer /\ NoPlaceholderServes


-----------------------------------------------------------------------------
(* Functions on part of a set, and what is saved of the accounts held.       *)

LEMMA PartialIntro ==
  ASSUME NEW S, NEW T, NEW D \in SUBSET S, NEW f \in [D -> T]
  PROVE  f \in Partial(S, T)
BY DEF Partial

LEMMA PartialElim ==
  ASSUME NEW S, NEW T, NEW f \in Partial(S, T)
  PROVE  DOMAIN f \subseteq S /\ f \in [DOMAIN f -> T]
BY DEF Partial

LEMMA PersistFacts ==
  ASSUME PersistInv
  PROVE  /\ PersistTypeOK /\ Synced /\ NoneNewer /\ NoPlaceholderServes
         /\ mem \in Partial(Uid, Held) /\ DOMAIN mem \subseteq Uid
         /\ \A u \in DOMAIN mem : mem[u] \in Held /\ mem[u].v \in Version
         /\ MaxChange \in Nat /\ MaxClock \in Nat \ {0} /\ 0 \in Version
         /\ clock \in 1 .. MaxClock /\ changes \in Version
         /\ disk \in Saved \cup {NoFile} /\ redis \in Saved \cup {NoFile} /\ mirrors \subseteq Saved
         /\ scanned \subseteq Credential /\ files \subseteq Credential
         /\ dirty \in BOOLEAN /\ failing \in BOOLEAN /\ unread \in BOOLEAN
         /\ phase \in {"down", "loaded", "restored", "up"}
<1>1. PersistTypeOK
  BY DEF PersistInv
<1>2. MaxChange \in Nat /\ MaxClock \in Nat \ {0} /\ 0 \in Version
  BY PersistAssumption DEF Version
<1>3. mem \in Partial(Uid, Held)
  BY <1>1 DEF PersistTypeOK, Held
<1>4. DOMAIN mem \subseteq Uid /\ mem \in [DOMAIN mem -> Held]
  BY <1>3, PartialElim
<1>5. \A u \in DOMAIN mem : mem[u] \in Held /\ mem[u].v \in Version
  BY <1>4 DEF Held
<1> QED
  BY <1>1, <1>2, <1>3, <1>4, <1>5 DEF PersistTypeOK, PersistInv

LEMMA SnapshotFacts ==
  ASSUME NEW s \in Saved \cup {NoFile}
  PROVE  /\ s.at \in Nat /\ s.accounts \in Partial(Uid, Version)
         /\ DOMAIN s.accounts \subseteq Uid /\ s.accounts \in [DOMAIN s.accounts -> Version]
<1>1. CASE s \in Saved
  <2>1. s.at \in Nat /\ s.accounts \in Partial(Uid, Version)
    BY <1>1, PersistAssumption DEF Saved
  <2> QED
    BY <2>1, PartialElim
<1>2. CASE s = NoFile
  <2>1. s.at = 0 /\ s.accounts = [u \in {} |-> 0]
    BY <1>2 DEF NoFile
  <2>2. s.accounts \in [{} -> Version] /\ DOMAIN s.accounts = {}
    BY <2>1
  <2>3. s.accounts \in Partial(Uid, Version)
    BY <2>2, PartialIntro
  <2> QED
    BY <2>1, <2>2, <2>3
<1> QED
  BY <1>1, <1>2

LEMMA SavedVersions ==
  ASSUME NEW m \in Partial(Uid, Held), NEW t \in 1 .. MaxClock
  PROVE  /\ [at |-> t, accounts |-> Versions(m)] \in Saved
         /\ \A u : VersionOn([at |-> t, accounts |-> Versions(m)], u) = VersionIn(m, u)
<1>1. DOMAIN m \subseteq Uid /\ m \in [DOMAIN m -> Held]
  BY PartialElim
<1>2. \A u \in DOMAIN m : m[u].v \in Version
  BY <1>1 DEF Held
<1>3. Versions(m) \in [DOMAIN m -> Version]
  BY <1>2 DEF Versions
<1>4. Versions(m) \in Partial(Uid, Version)
  BY <1>1, <1>3, PartialIntro
<1>5. \A u \in DOMAIN m : Versions(m)[u] = m[u].v
  BY DEF Versions
<1> QED
  BY <1>3, <1>4, <1>5 DEF Saved, VersionOn, VersionIn

\* A save, whether it succeeds or not.
LEMMA SaveKeeps ==
  ASSUME PersistInv, NEW m \in Partial(Uid, Held), NEW ok \in BOOLEAN, Save(m, ok),
         UNCHANGED <<redis, clock>>
  PROVE  /\ disk' \in Saved \cup {NoFile} /\ mirrors' \subseteq Saved
         /\ failing' \in BOOLEAN /\ unread' \in BOOLEAN
         /\ NoneNewer'
         /\ ~failing' => ~unread' /\ \A u \in Uid : VersionOn(disk', u) = VersionIn(m, u)
<1> DEFINE snap == [at |-> clock, accounts |-> Versions(m)]
<1>1. snap \in Saved /\ snap.at = clock /\ \A u : VersionOn(snap, u) = VersionIn(m, u)
  BY PersistFacts, SavedVersions
<1>2. /\ disk' = IF ok THEN snap ELSE disk
      /\ mirrors' = IF ok THEN mirrors \cup {snap} ELSE mirrors
      /\ failing' = ~ok /\ unread' = (unread /\ ~ok)
  BY DEF Save
<1> HIDE DEF snap
<1>3. clock \in Nat
  BY PersistFacts
<1>4. NoneNewer'
  BY <1>1, <1>2, <1>3, PersistFacts DEF NoneNewer
<1> QED
  BY <1>1, <1>2, <1>4, PersistFacts

\* The accounts in state.json or in the snapshot, as they are held after a load.
LEMMA PlaceholderFacts ==
  ASSUME NEW s \in Saved \cup {NoFile}
  PROVE  /\ Placeholders(s.accounts) \in Partial(Uid, Held)
         /\ Versions(Placeholders(s.accounts)) = s.accounts
<1> DEFINE a == s.accounts  p == Placeholders(a)
<1>1. DOMAIN a \subseteq Uid /\ a \in [DOMAIN a -> Version]
  BY SnapshotFacts
<1> HIDE DEF a
<1>2. p \in [DOMAIN a -> Held] /\ DOMAIN p = DOMAIN a
  BY <1>1 DEF Placeholders, Held
<1>3. \A u \in DOMAIN a : p[u].v = a[u]
  BY DEF Placeholders
<1>4. Versions(p) = a
  BY <1>1, <1>2, <1>3 DEF Versions
<1>5. p \in Partial(Uid, Held)
  BY <1>1, <1>2, PartialIntro
<1> QED
  BY <1>4, <1>5 DEF a

-----------------------------------------------------------------------------
(* Each action keeps the invariant.                                          *)

LEMMA KeepsFlusher ==
  ASSUME PersistInv, NEW ok \in BOOLEAN, Flusher(ok)
  PROVE  PersistInv'
<1>1. dirty' = FALSE /\ Save(mem, ok) /\ dirty
      /\ UNCHANGED <<phase, mem, scanned, files, redis, clock, changes>>
  BY DEF Flusher, FlushLocked
<1>2. /\ disk' \in Saved \cup {NoFile} /\ mirrors' \subseteq Saved
      /\ failing' \in BOOLEAN /\ unread' \in BOOLEAN
      /\ NoneNewer'
      /\ ~failing' => ~unread' /\ \A u \in Uid : VersionOn(disk', u) = VersionIn(mem, u)
  BY <1>1, PersistFacts, SaveKeeps
<1>3. PersistTypeOK'
  BY <1>1, <1>2, PersistFacts DEF PersistTypeOK
<1>4. Synced'
  <2>1. ~failing' => InStep'
    BY <1>1, <1>2 DEF InStep, Agree
  <2> QED
    BY <1>1, <2>1, PersistFacts DEF Synced
<1>5. NoPlaceholderServes'
  BY <1>1, PersistFacts DEF NoPlaceholderServes
<1> QED
  BY <1>2, <1>3, <1>4, <1>5 DEF PersistInv

LEMMA EmptyHeld == Empty \in Partial(Uid, Held) /\ \A u : VersionIn(Empty, u) = 0
<1>1. Empty \in [{} -> Held] /\ DOMAIN Empty = {}
  BY DEF Empty
<1> QED
  BY <1>1, PartialIntro DEF VersionIn

LEMMA KeepsLoad ==
  ASSUME PersistInv, NEW read \in BOOLEAN, Load(read)
  PROVE  PersistInv'
<1>1. /\ phase' = "loaded" /\ scanned' \in SUBSET files
      /\ mem' = IF read THEN Placeholders(disk.accounts) ELSE Empty
      /\ unread' = (~read /\ disk # NoFile)
      /\ dirty' = FALSE /\ failing' = FALSE
      /\ UNCHANGED <<files, redis, mirrors, clock, disk, changes>>
  BY DEF Load, ReadState, world
<1>2. mem' \in Partial(Uid, Held)
  BY <1>1, EmptyHeld, PersistFacts, PlaceholderFacts
<1>3. PersistTypeOK'
  BY <1>1, <1>2, PersistFacts DEF PersistTypeOK, Held
<1>4. ASSUME ~unread' PROVE Versions(mem') = disk'.accounts /\ Agree'
  <2>1. CASE read
    <3>1. Versions(mem') = disk.accounts
      BY <1>1, <2>1, PersistFacts, PlaceholderFacts
    <3>2. DOMAIN mem' = DOMAIN disk.accounts
          /\ \A u \in DOMAIN mem' : mem'[u].v = disk.accounts[u]
      BY <1>1, <2>1 DEF Placeholders
    <3> QED
      BY <1>1, <3>1, <3>2 DEF Agree, VersionOn, VersionIn
  <2>2. CASE ~read
    <3>1. mem' = Empty /\ disk' = NoFile
      BY <1>1, <1>4, <2>2
    <3>2. NoFile.accounts = [u \in {} |-> 0] /\ Versions(Empty) = [u \in {} |-> 0]
      BY DEF NoFile, Versions, Empty
    <3>3. Versions(mem') = disk'.accounts /\ \A u : VersionOn(disk', u) = 0
      BY <3>1, <3>2 DEF VersionOn
    <3>4. \A u : VersionIn(mem', u) = 0
      BY <3>1, EmptyHeld
    <3> QED
      BY <3>3, <3>4 DEF Agree
  <2> QED
    BY <2>1, <2>2
<1>5. ASSUME unread' PROVE mem' = Empty /\ Blank'
  <2>1. mem' = Empty
    BY <1>1, <1>5
  <2>2. \A u : VersionIn(mem', u) = 0
    BY <2>1, EmptyHeld
  <2> QED
    BY <2>1, <2>2 DEF Blank
<1>6. InStep' /\ IF unread' THEN mem' = Empty ELSE Versions(mem') = disk'.accounts
  BY <1>4, <1>5 DEF InStep
<1>7. NoneNewer'
  BY <1>1, PersistFacts DEF NoneNewer
<1>8. NoPlaceholderServes'
  BY <1>1 DEF NoPlaceholderServes
<1>9. Synced'
  BY <1>1, <1>6 DEF Synced
<1> QED
  BY <1>3, <1>7, <1>8, <1>9 DEF PersistInv

\* What the restore puts in memory: the snapshot of the mirror, or what was there.
LEMMA RestoreCases ==
  ASSUME NEW answered \in BOOLEAN, RestoreFromSnapshot(answered)
  PROVE  \/ /\ disk # NoFile /\ disk.at <= redis.at
            /\ mem' = Placeholders(redis.accounts) /\ dirty' = TRUE
         \/ UNCHANGED <<mem, dirty>>
BY DEF RestoreFromSnapshot

LEMMA KeepsRestore ==
  ASSUME PersistInv, NEW answered \in BOOLEAN, RestoreFromSnapshot(answered)
  PROVE  PersistInv'
<1>1. phase = "loaded" /\ phase' = "restored"
      /\ UNCHANGED <<failing, unread, scanned, files, redis, mirrors, clock, disk, changes>>
  BY DEF RestoreFromSnapshot, world
<1>2. \/ mem' \in Partial(Uid, Held) /\ dirty' = TRUE
      \/ UNCHANGED <<mem, dirty>>
  BY RestoreCases, PersistFacts, PlaceholderFacts
<1>3. PersistTypeOK'
  BY <1>1, <1>2, PersistFacts DEF PersistTypeOK, Held
<1>4. Synced'
  BY <1>1, <1>2, PersistFacts DEF Synced, InStep, Blank, Agree, Running
<1>5. NoneNewer'
  BY <1>1, PersistFacts DEF NoneNewer
<1>6. NoPlaceholderServes'
  BY <1>1 DEF NoPlaceholderServes
<1> QED
  BY <1>3, <1>4, <1>5, <1>6 DEF PersistInv

\* Accounts with a file are kept or made, the others dropped; if none is dropped,
\* nothing changes that is saved.
LEMMA KeepsSyncToDir ==
  ASSUME PersistInv, NEW ok \in BOOLEAN, SyncToDir(ok)
  PROVE  PersistInv'
<1> DEFINE found == Uids(scanned)
<1>1. phase = "restored" /\ phase' = "up" /\ scanned' = {}
      /\ UNCHANGED <<dirty, files, redis, clock, changes>>
  BY DEF SyncToDir
<1>2. IF DOMAIN mem \subseteq found THEN NoSave ELSE Save(mem', ok)
  BY DEF SyncToDir
<1>3. PICK siteOf \in [found -> Site] : mem' = Aligned(mem, scanned, siteOf)
  BY DEF SyncToDir
<1>4. found \subseteq Uid
  BY PersistFacts DEF Uids, Credential
<1> HIDE DEF found
<1>5. mem' = [u \in found |-> [v |-> VersionIn(mem, u), site |-> siteOf[u]]]
  BY <1>3 DEF Aligned, VersionIn, found
<1>6. \A u \in found : VersionIn(mem, u) \in Version /\ siteOf[u] \in Site
  BY PersistFacts DEF VersionIn
<1>7. mem' \in [found -> Held]
  BY <1>5, <1>6 DEF Held
<1>8. mem' \in Partial(Uid, Held) /\ DOMAIN mem' = found
  BY <1>4, <1>7, PartialIntro
<1>9. \A u \in found : VersionIn(mem', u) = VersionIn(mem, u)
  BY <1>5, <1>8 DEF VersionIn
<1>10. NoPlaceholderServes'
  BY <1>5, <1>6, <1>8 DEF NoPlaceholderServes
<1>11. /\ disk' \in Saved \cup {NoFile} /\ mirrors' \subseteq Saved
       /\ failing' \in BOOLEAN /\ unread' \in BOOLEAN
       /\ NoneNewer'
       /\ ~dirty /\ ~failing' => InStep'
  <2>1. CASE DOMAIN mem \subseteq found
    <3>1. UNCHANGED <<disk, mirrors, failing, unread>>
      BY <1>2, <2>1 DEF NoSave
    <3>2. \A u \in Uid : VersionIn(mem', u) = VersionIn(mem, u)
      BY <1>8, <1>9, <2>1 DEF VersionIn
    <3>3. ~dirty /\ ~failing => InStep
      BY <1>1, PersistFacts DEF Synced, Running
    <3>4. ~dirty /\ ~failing => InStep'
      BY <3>1, <3>2, <3>3 DEF InStep, Agree, Blank
    <3> QED
      BY <1>1, <3>1, <3>4, PersistFacts DEF NoneNewer
  <2>2. CASE ~(DOMAIN mem \subseteq found)
    <3>1. Save(mem', ok)
      BY <1>2, <2>2
    <3> QED
      BY <1>1, <1>8, <3>1, SaveKeeps DEF InStep, Agree
  <2> QED
    BY <2>1, <2>2
<1>12. PersistTypeOK'
  BY <1>1, <1>8, <1>11, PersistFacts DEF PersistTypeOK, Held
<1>13. Synced'
  BY <1>1, <1>11 DEF Synced
<1> QED
  BY <1>10, <1>11, <1>12, <1>13 DEF PersistInv

LEMMA KeepsChange ==
  ASSUME PersistInv, NEW u \in Uid, Change(u)
  PROVE  PersistInv'
<1>1. /\ phase = "up" /\ u \in DOMAIN mem /\ changes < MaxChange /\ changes' = changes + 1
      /\ mem' = [mem EXCEPT ![u].v = changes + 1] /\ dirty' = TRUE
      /\ UNCHANGED <<phase, failing, unread, scanned, files, redis, mirrors, clock, disk>>
  BY DEF Change, world
<1>2. changes + 1 \in Version
  BY <1>1, PersistFacts DEF Version
<1> DEFINE x == [mem[u] EXCEPT !.v = changes + 1]
<1>3. mem[u] \in Held
  BY <1>1, PersistFacts
<1>4. x \in Held /\ x.site = mem[u].site
  BY <1>2, <1>3 DEF Held
<1>5. mem' = [mem EXCEPT ![u] = x]
  BY <1>1
<1> HIDE DEF x
<1>6. DOMAIN mem' = DOMAIN mem /\ \A w \in DOMAIN mem : mem'[w] = IF w = u THEN x ELSE mem[w]
  BY <1>5
<1>7. mem' \in [DOMAIN mem -> Held]
  BY <1>4, <1>5, PersistFacts, PartialElim
<1>8. mem' \in Partial(Uid, Held)
  BY <1>7, PersistFacts, PartialIntro
<1>9. PersistTypeOK'
  BY <1>1, <1>2, <1>8, PersistFacts DEF PersistTypeOK, Held
<1>10. Synced'
  BY <1>1 DEF Synced
<1>11. NoneNewer'
  BY <1>1, PersistFacts DEF NoneNewer
<1>12. NoPlaceholderServes'
  BY <1>1, <1>4, <1>6, PersistFacts DEF NoPlaceholderServes
<1> QED
  BY <1>9, <1>10, <1>11, <1>12 DEF PersistInv

\* A new account is fresh, and the file says nothing of it.
LEMMA KeepsAdd ==
  ASSUME PersistInv, NEW u \in Uid, NEW s \in Site, Add(u, s)
  PROVE  PersistInv'
<1>1. phase = "up" /\ UNCHANGED <<phase, dirty, failing, unread, scanned, files, redis, mirrors,
                                  clock, disk, changes>>
  BY DEF Add, world
<1>2. CASE mem' = mem
  <2>1. PersistTypeOK' /\ Synced'
    BY <1>1, <1>2, PersistFacts DEF PersistTypeOK, Synced, Running, InStep, Blank, Agree
  <2>2. NoneNewer' /\ NoPlaceholderServes'
    BY <1>1, <1>2, PersistFacts DEF NoneNewer, NoPlaceholderServes
  <2> QED
    BY <2>1, <2>2 DEF PersistInv
<1>3. CASE /\ u \notin DOMAIN mem
           /\ mem' = [w \in DOMAIN mem \cup {u} |-> IF w = u THEN [v |-> 0, site |-> s] ELSE mem[w]]
  <2>1. [v |-> 0, site |-> s] \in Held
    BY PersistFacts DEF Held
  <2>2. DOMAIN mem' = DOMAIN mem \cup {u} /\ mem'[u] = [v |-> 0, site |-> s]
        /\ \A w \in DOMAIN mem : mem'[w] = mem[w]
    BY <1>3
  <2>3. mem' \in [DOMAIN mem \cup {u} -> Held]
    BY <1>3, <2>1, PersistFacts
  <2>4. mem' \in Partial(Uid, Held)
    BY <2>3, PersistFacts, PartialIntro
  <2>5. \A w \in Uid : VersionIn(mem', w) = VersionIn(mem, w)
    BY <1>3, <2>2 DEF VersionIn
  <2>6. PersistTypeOK'
    BY <1>1, <2>4, PersistFacts DEF PersistTypeOK, Held
  <2>7. Synced'
    BY <1>1, <2>5, PersistFacts DEF Synced, Running, InStep, Blank, Agree
  <2>8. NoneNewer'
    BY <1>1, PersistFacts DEF NoneNewer
  <2>9. NoPlaceholderServes'
    BY <1>1, <2>2, PersistFacts DEF NoPlaceholderServes
  <2> QED
    BY <2>6, <2>7, <2>8, <2>9 DEF PersistInv
<1> QED
  BY <1>2, <1>3 DEF Add

LEMMA KeepsRemove ==
  ASSUME PersistInv, NEW u \in Uid, NEW ok \in BOOLEAN, Remove(u, ok)
  PROVE  PersistInv'
<1>1. /\ phase = "up" /\ mem' = Restrict(mem, DOMAIN mem \ {u}) /\ dirty' = TRUE /\ Save(mem', ok)
      /\ UNCHANGED <<phase, scanned, files, redis, clock, changes>>
  BY DEF Remove
<1>2. mem' = [w \in DOMAIN mem \ {u} |-> mem[w]]
  BY <1>1 DEF Restrict
<1>3. mem' \in [DOMAIN mem \ {u} -> Held]
  BY <1>2, PersistFacts
<1>4. mem' \in Partial(Uid, Held)
  BY <1>3, PersistFacts, PartialIntro
<1>5. /\ disk' \in Saved \cup {NoFile} /\ mirrors' \subseteq Saved
      /\ failing' \in BOOLEAN /\ unread' \in BOOLEAN /\ NoneNewer'
  BY <1>1, <1>4, SaveKeeps
<1>6. PersistTypeOK'
  BY <1>1, <1>4, <1>5, PersistFacts DEF PersistTypeOK, Held
<1>7. Synced'
  BY <1>1 DEF Synced
<1>8. NoPlaceholderServes'
  BY <1>1, <1>2, PersistFacts DEF NoPlaceholderServes
<1> QED
  BY <1>5, <1>6, <1>7, <1>8 DEF PersistInv

\* However the process ends, nothing is in memory; the file is as the last save
\* left it.
LEMMA KeepsStop ==
  ASSUME PersistInv, Stop, dirty' = FALSE,
         disk' \in Saved \cup {NoFile}, mirrors' \subseteq Saved,
         failing' \in BOOLEAN, unread' \in BOOLEAN, NoneNewer'
  PROVE  PersistInv'
<1>1. phase' = "down" /\ mem' = Empty /\ scanned' = {} /\ UNCHANGED <<files, redis, clock, changes>>
  BY DEF Stop
<1>2. PersistTypeOK'
  BY <1>1, EmptyHeld, PersistFacts DEF PersistTypeOK, Held
<1>3. Synced' /\ NoPlaceholderServes'
  BY <1>1 DEF Synced, Running, NoPlaceholderServes
<1> QED
  BY <1>2, <1>3 DEF PersistInv

LEMMA KeepsEnds ==
  ASSUME PersistInv, Crash \/ \E ok \in BOOLEAN : ShutDown(ok)
  PROVE  PersistInv'
<1>1. CASE Crash
  <2>1. Stop /\ dirty' = FALSE /\ UNCHANGED <<disk, mirrors, failing, unread, redis, clock>>
    BY <1>1 DEF Crash, NoSave, Stop
  <2>2. NoneNewer'
    BY <2>1, PersistFacts DEF NoneNewer
  <2> QED
    BY <2>1, <2>2, PersistFacts, KeepsStop
<1>2. ASSUME NEW ok \in BOOLEAN, ShutDown(ok)
      PROVE  PersistInv'
  <2>1. Stop /\ dirty' = FALSE /\ UNCHANGED <<redis, clock>>
        /\ IF dirty THEN Save(mem, ok) ELSE NoSave
    BY <1>2 DEF ShutDown, FlushLocked, Stop
  <2>2. CASE dirty
    BY <2>1, <2>2, PersistFacts, SaveKeeps, KeepsStop
  <2>3. CASE ~dirty
    <3>1. UNCHANGED <<disk, mirrors, failing, unread>>
      BY <2>1, <2>3 DEF NoSave
    <3>2. NoneNewer'
      BY <2>1, <3>1, PersistFacts DEF NoneNewer
    <3> QED
      BY <2>1, <3>1, <3>2, PersistFacts, KeepsStop
  <2> QED
    BY <2>2, <2>3
<1> QED
  BY <1>1, <1>2

\* Files of credentials, the snapshots on their way, the clock.
LEMMA KeepsWorld ==
  ASSUME PersistInv, UNCHANGED <<phase, mem, dirty, failing, unread, scanned, changes>>,
         files' \subseteq Credential, disk' \in Saved \cup {NoFile}, redis' \in Saved \cup {NoFile},
         mirrors' \subseteq Saved, clock' \in 1 .. MaxClock, NoneNewer',
         phase = "down" \/ disk' = disk
  PROVE  PersistInv'
<1>1. PersistTypeOK'
  BY PersistFacts DEF PersistTypeOK
<1>2. Synced'
  BY PersistFacts DEF Synced, Running, InStep, Blank, Agree
<1>3. NoPlaceholderServes'
  BY PersistFacts DEF NoPlaceholderServes
<1> QED
  BY <1>1, <1>2, <1>3 DEF PersistInv

LEMMA KeepsEnvironment ==
  ASSUME PersistInv, Environment
  PROVE  PersistInv'
<1>1. ASSUME NEW c \in Credential, PutFile(c) \/ DropFile(c) PROVE PersistInv'
  BY <1>1, PersistFacts, KeepsWorld DEF PutFile, DropFile, NoneNewer
<1>2. ASSUME NEW s \in mirrors, Arrive(s) \/ Fail(s) PROVE PersistInv'
  <2>1. s \in Saved
    BY PersistFacts
  <2>2. redis' \in {redis, s} /\ mirrors' \subseteq mirrors
        /\ UNCHANGED <<phase, mem, dirty, failing, unread, scanned, files, disk, clock, changes>>
    BY <1>2 DEF Arrive, Fail
  <2>3. NoneNewer'
    BY <2>2, PersistFacts DEF NoneNewer
  <2> QED
    BY <2>1, <2>2, <2>3, PersistFacts, KeepsWorld
<1>3. CASE LoseStateFile \/ Expire
  <2>1. disk' \in {disk, NoFile} /\ redis' \in {redis, NoFile} /\ (phase = "down" \/ disk' = disk)
        /\ UNCHANGED <<phase, mem, dirty, failing, unread, scanned, files, mirrors, clock, changes>>
    BY <1>3 DEF LoseStateFile, Expire
  <2>2. NoFile.at = 0 /\ clock \in Nat /\ disk.at \in Nat
    BY PersistFacts, SnapshotFacts DEF NoFile
  <2>3. NoneNewer'
    BY <2>1, <2>2, PersistFacts DEF NoneNewer
  <2> QED
    BY <2>1, <2>3, PersistFacts, KeepsWorld
<1>4. CASE Tick
  <2>1. clock' = clock + 1 /\ clock' \in 1 .. MaxClock
        /\ UNCHANGED <<phase, mem, dirty, failing, unread, scanned, files, disk, redis, mirrors, changes>>
    BY <1>4, PersistFacts DEF Tick
  <2>2. \A s \in mirrors \cup {redis, disk} : s.at \in Nat
    BY PersistFacts, SnapshotFacts
  <2>3. NoneNewer'
    BY <2>1, <2>2, PersistFacts DEF NoneNewer
  <2> QED
    BY <2>1, <2>3, PersistFacts, KeepsWorld
<1> QED
  BY <1>1, <1>2, <1>3, <1>4, KeepsEnds DEF Environment

LEMMA PersistInitInv == PersistInit => PersistInv
<1> SUFFICES ASSUME PersistInit PROVE PersistInv
  OBVIOUS
<1> USE DEF PersistInit
<1>1. 1 \in 1 .. MaxClock /\ 0 \in Version
  BY PersistAssumption DEF Version
<1>2. PersistTypeOK
  BY <1>1, EmptyHeld DEF PersistTypeOK, Held
<1>3. Synced /\ NoPlaceholderServes
  BY DEF Synced, Running, NoPlaceholderServes
<1>4. NoneNewer
  BY DEF NoneNewer, NoFile
<1> QED
  BY <1>2, <1>3, <1>4 DEF PersistInv

LEMMA PersistStepInv == PersistInv /\ [PersistNext]_persistVars => PersistInv'
<1> SUFFICES ASSUME PersistInv, [PersistNext]_persistVars PROVE PersistInv'
  OBVIOUS
<1>1. CASE UNCHANGED persistVars
  BY <1>1, PersistFacts, KeepsWorld DEF persistVars, NoneNewer
<1>2. CASE Main
  BY <1>2, KeepsLoad, KeepsRestore, KeepsSyncToDir, KeepsEnds DEF Main
<1>3. CASE Serving
  BY <1>3, KeepsChange, KeepsAdd, KeepsRemove DEF Serving
<1> QED
  BY <1>1, <1>2, <1>3, KeepsEnvironment, KeepsFlusher DEF PersistNext

LEMMA PersistInvariance == PersistSpec => []PersistInv
BY PersistInitInv, PersistStepInv, PTL DEF PersistSpec

-----------------------------------------------------------------------------
(* The theorems.                                                             *)

\* For any accounts and any interleaving of changes, saves and restarts: while
\* the flag is down and the last save did not fail, state.json has what memory
\* has.  A change that raises no flag (Add) is one the file cannot contradict.
THEOREM CleanFlagMeansSaved == PersistSpec => []CleanMeansSaved
<1>1. PersistInv => CleanMeansSaved
  <2> SUFFICES ASSUME PersistInv, Running, ~dirty, ~failing, NEW u \in DOMAIN mem
               PROVE  mem[u].v = IF unread THEN 0 ELSE VersionOn(disk, u)
    BY PersistFacts DEF CleanMeansSaved, Settled, Fresh, OnDisk
  <2> QED
    BY PersistFacts DEF Synced, InStep, Blank, Agree, VersionIn
<1> QED
  BY <1>1, PersistInvariance, PTL

\* No account is served with the placeholder that New or RestoreFromSnapshot
\* made of it: SyncToDir gives it a credential of one site, or drops it.
THEOREM PlaceholdersNeverServe == PersistSpec => []NoPlaceholderServes
<1>1. PersistInv => NoPlaceholderServes
  BY DEF PersistInv
<1> QED
  BY <1>1, PersistInvariance, PTL

\* A restore never goes back behind state.json, whatever the order in which the
\* mirror's writes arrive and whichever process sent them: no snapshot is newer
\* than the file, so the one that wins is of the same clock tick.  A file that
\* could not be read gives way to such a snapshot or to an empty pool, never to
\* an older history.
THEOREM RestoresKeepLocal == PersistSpec => RestoreKeepsLocal
<1>1. PersistInv /\ [PersistNext]_persistVars =>
        [phase = "loaded" /\ phase' = "restored"
           => \/ Versions(mem') = disk.accounts
              \/ redis.at = disk.at /\ Versions(mem') = redis.accounts
              \/ unread /\ mem' = Empty]_persistVars
  <2> SUFFICES ASSUME PersistInv, PersistNext, phase = "loaded", phase' = "restored"
               PROVE  \/ Versions(mem') = disk.accounts
                      \/ redis.at = disk.at /\ Versions(mem') = redis.accounts
                      \/ unread /\ mem' = Empty
    BY DEF persistVars
  <2>1. PICK answered \in BOOLEAN : RestoreFromSnapshot(answered)
    BY DEF PersistNext, Main, Serving, Environment, Load, SyncToDir, ShutDown, Stop, Change, Add,
       Remove, PutFile, DropFile, Arrive, Fail, Crash, LoseStateFile, Expire, Tick, Flusher
  <2>2. IF unread THEN mem = Empty ELSE Versions(mem) = disk.accounts
    BY PersistFacts DEF Synced
  <2>3. CASE UNCHANGED mem
    BY <2>2, <2>3
  <2>4. CASE disk # NoFile /\ disk.at <= redis.at /\ mem' = Placeholders(redis.accounts)
    <3>1. redis.at <= disk.at
      BY <2>4, PersistFacts DEF NoneNewer
    <3>2. redis.at \in Nat /\ disk.at \in Nat
      BY PersistFacts, SnapshotFacts
    <3> QED
      BY <2>4, <3>1, <3>2, PersistFacts, PlaceholderFacts
  <2> QED
    BY <2>1, <2>3, <2>4, RestoreCases
<1> QED
  BY <1>1, PersistInvariance, PTL DEF PersistSpec, RestoreKeepsLocal

=============================================================================
