------------------------------- MODULE Control -------------------------------
(***************************************************************************)
(* The life of the process: the supervisor (cmd/server/supervisor.go) that  *)
(* starts the service and starts it again after a restart asked for in the  *)
(* panel; the service from its start to its drain (main.go); the            *)
(* reservation of a restart (control_lifecycle.go); and the configuration,  *)
(* its file, the transaction that saves or reloads it while the service     *)
(* runs (config_runtime.go) and the values the service runs with.           *)
(*                                                                          *)
(* Four settings stand for all: soft_rate takes effect at once; timeout and *)
(* header only at a start, and header falls back to timeout; balance, the   *)
(* interval of the balance refresh (0: switched off), takes effect at once  *)
(* in the loop of a service that has started one.                           *)
(***************************************************************************)
EXTENDS Integers, FiniteSets

CONSTANTS
  Env,          \* the environment's overrides: [Field -> Value \cup {Absent}]
  Forms,        \* what the panel may save, what an editor may leave: sets of keys
  Requests,     \* concurrent calls of POST /panel/api/restart
  MaxSignals,   \* bound: stop signals sent
  MaxSpawns,    \* bound: children started
  MaxSaves,     \* bound: configuration transactions per child
  MaxEdits      \* bound: edits of the file from outside

Field == {"soft_rate", "timeout", "header", "balance"}
Hot == {"soft_rate", "balance"}
Cold == Field \ Hot
Absent == -2    \* the key is not in the JSON object
Bad == -1       \* a value the validation refuses (soft_rate) or takes for unset (the others)
Value == {Bad, 0, 1, 2}
RestartCode == 75

ASSUME ControlAssumption ==
  /\ Env \in [Field -> Value \cup {Absent}]
  /\ Forms \subseteq [Field -> Value \cup {Absent}]
  /\ {MaxSignals, MaxSpawns, MaxSaves, MaxEdits} \subseteq Nat

VARIABLES
  sup, signals, sent, spawns,       \* the supervisor's place; its channel; the signals sent so far
  child, code, cancelled, drained,  \* the service's place, its exit code, its context, HTTP shut
  pending, requests, timers,        \* the reservation; requests still validating; AfterFuncs armed
  file, save, staged, saves, edits, \* config.json; the transaction's step and its content
  running, refreshing, told,        \* the values in effect; the balance loop; the fields last named
  edited, accepted, reason, tampered  \* observers: see the properties
supVars == <<sup, signals, sent, spawns>>
childVars == <<child, code, cancelled, drained>>
restartVars == <<pending, requests, timers>>
configVars == <<file, save, staged, saves, edits, running, refreshing, told>>
observers == <<edited, accepted, reason, tampered>>
vars == <<supVars, childVars, restartVars, configVars, observers>>

-----------------------------------------------------------------------------
(* Load: defaults, the file's keys, a first normalisation, the environment, *)
(* a second one.                                                            *)

Default == [soft_rate |-> 1, timeout |-> 1, header |-> 0, balance |-> 1]
Overlay(c, keys) == [f \in Field |-> IF keys[f] # Absent THEN keys[f] ELSE c[f]]
WithEnv(c) == Overlay(c, Env)
Valid(c) == c.soft_rate > 0
Normalize(c) ==
  LET timeout == IF c.timeout <= 0 THEN Default.timeout ELSE c.timeout
  IN  [c EXCEPT !.timeout = timeout, !.header = IF @ <= 0 THEN timeout ELSE @,
                !.balance = IF @ < 0 THEN Default.balance ELSE @]
Parsed(keys) == Overlay(Default, keys)
LoadsKeys(keys) == Valid(Parsed(keys)) /\ Valid(WithEnv(Parsed(keys)))
Effective(keys) == Normalize(WithEnv(Normalize(Parsed(keys))))
NoKeys == [f \in Field |-> Absent]

\* A file is a set of keys, not an object (or a directory), or missing.
Json(keys) == [kind |-> "json", keys |-> keys]
Broken == [kind |-> "broken", keys |-> NoKeys]
Missing == [kind |-> "missing", keys |-> NoKeys]
Loads(f) == f.kind = "json" /\ LoadsKeys(f.keys)

Alive == child \in {"boot", "serving", "draining"}
Die(c) == child' = "dead" /\ code' = c /\ save' = "idle" /\ requests' = {} /\ timers' = 0

-----------------------------------------------------------------------------
(* runSupervisor. *)

SupCheck ==
  /\ sup = "check"
  /\ IF signals > 0 THEN sup' = "exited" /\ signals' = signals - 1
                    ELSE sup' = "spawn" /\ UNCHANGED signals
  /\ UNCHANGED <<sent, spawns, childVars, restartVars, configVars, observers>>

SupSpawn ==
  /\ sup = "spawn" /\ spawns < MaxSpawns
  /\ sup' = "watch" /\ spawns' = spawns + 1
  /\ child' = "boot" /\ code' = 0 /\ cancelled' = FALSE /\ drained' = FALSE
  /\ pending' = FALSE /\ requests' = {} /\ timers' = 0
  /\ saves' = 0 /\ told' = {} /\ accepted' = FALSE
  /\ UNCHANGED <<signals, sent, file, save, staged, edits, running, refreshing, edited, reason,
                 tampered>>

SpawnFails ==
  /\ sup = "spawn"
  /\ sup' = "exited"
  /\ UNCHANGED <<signals, sent, spawns, childVars, restartVars, configVars, observers>>

\* The child has ended: a stop that is already there goes first, then the code decides.
SupDone ==
  /\ sup = "watch" /\ child = "dead"
  /\ IF signals > 0
     THEN sup' = "exited" /\ signals' = signals - 1
     ELSE sup' = (IF code = RestartCode THEN "delay" ELSE "exited") /\ UNCHANGED signals
  /\ UNCHANGED <<sent, spawns, childVars, restartVars, configVars, observers>>

\* The signal is passed on: to a service that has not installed its handler yet, or has taken it
\* down again, and where it cannot be passed on (then the child is killed), it is the end.
SupSignal ==
  /\ sup = "watch" /\ signals > 0
  /\ signals' = signals - 1 /\ sup' = "stopping"
  /\ \/ child = "dead" /\ UNCHANGED <<childVars, requests, timers, save>>
     \/ child = "boot" /\ Die(1) /\ UNCHANGED <<cancelled, drained>>
     \/ child \in {"serving", "draining"} /\ cancelled' = TRUE
        /\ UNCHANGED <<child, code, drained, requests, timers, save>>
     \/ child \in {"serving", "draining"} /\ Die(1) /\ UNCHANGED <<cancelled, drained>>
  /\ UNCHANGED <<sent, spawns, pending, file, staged, saves, edits, running, refreshing, told,
                 observers>>

SupStopped ==
  /\ sup = "stopping" /\ child = "dead"
  /\ sup' = "exited"
  /\ UNCHANGED <<signals, sent, spawns, childVars, restartVars, configVars, observers>>

SupKillOnSignal ==   \* a mutant: no time limit, only a second signal ends the wait
  /\ sup = "stopping" /\ Alive /\ signals > 0
  /\ Die(1) /\ signals' = signals - 1
  /\ UNCHANGED <<sup, sent, spawns, cancelled, drained, pending, file, staged, saves, edits,
                 running, refreshing, told, observers>>

\* The time limit is over, or a second signal came: the child is killed, then waited for.
SupKill ==
  /\ sup = "stopping" /\ Alive
  /\ Die(1)
  /\ \/ UNCHANGED signals
     \/ signals > 0 /\ signals' = signals - 1
  /\ UNCHANGED <<sup, sent, spawns, cancelled, drained, pending, file, staged, saves, edits,
                 running, refreshing, told, observers>>

SupDelayOver ==
  /\ sup = "delay"
  /\ \/ sup' = "check" /\ UNCHANGED signals
     \/ signals > 0 /\ sup' = "exited" /\ signals' = signals - 1
  /\ UNCHANGED <<sent, spawns, childVars, restartVars, configVars, observers>>

-----------------------------------------------------------------------------
(* Signals from outside: to the process group, to the supervisor alone or   *)
(* to the service alone.  The channel holds four.                           *)

\* stop() takes the handler down: when the restart's timer fires, and once the server is shut.
Deaf == child = "draining" \/ (child = "serving" /\ accepted /\ timers = 0)

Send ==
  /\ sent < MaxSignals /\ sent' = sent + 1
  /\ \E target \in {"group", "supervisor", "service"} :
       /\ signals' = IF target = "service" \/ sup = "exited" \/ signals = 4 THEN signals ELSE signals + 1
       /\ \/ /\ target # "supervisor" /\ (child = "boot" \/ Deaf)
             /\ Die(1) /\ UNCHANGED cancelled
          \/ /\ target = "supervisor" \/ child # "boot"
             /\ cancelled' = (cancelled \/ (target # "supervisor" /\ Alive))
             /\ UNCHANGED <<child, code, save, requests, timers>>
  /\ UNCHANGED <<sup, spawns, drained, pending, file, staged, saves, edits, running, refreshing,
                 told, observers>>

-----------------------------------------------------------------------------
(* runService. *)

\* A missing file is written with the defaults, or, where that fails, done without; a configuration
\* that cannot be loaded is the end.  The balance loop is started only with an interval.
Boot ==
  /\ child = "boot"
  /\ file' \in IF file.kind = "missing" THEN {file, Json(Normalize(Default))} ELSE {file}
  /\ IF file'.kind # "broken" /\ LoadsKeys(file'.keys)
     THEN /\ running' = Effective(file'.keys) /\ refreshing' = (running'.balance > 0)
          /\ child' = "serving" /\ UNCHANGED <<code, save, requests, timers>>
     ELSE Die(1) /\ UNCHANGED <<running, refreshing>>
  /\ edited' = (file'.kind = "missing")
  /\ UNCHANGED <<supVars, cancelled, drained, pending, staged, saves, edits, told, accepted,
                 reason, tampered>>

\* The listener fails: the same drain, but the end is an error.
ListenFails ==
  /\ child = "serving" /\ ~cancelled
  /\ Die(1)
  /\ UNCHANGED <<supVars, cancelled, drained, pending, file, staged, saves, edits, running,
                 refreshing, told, observers>>

Drain ==
  /\ child = "serving" /\ cancelled
  /\ child' = "draining"
  /\ UNCHANGED <<supVars, code, cancelled, drained, restartVars, configVars, observers>>

\* The server is shut down (five seconds at most; handlers may outlive it) and the pool flushed.
Shut ==
  /\ child = "draining" /\ ~drained /\ drained' = TRUE
  /\ UNCHANGED <<supVars, child, code, cancelled, restartVars, configVars, observers>>

Exit ==
  /\ child = "draining" /\ drained
  /\ Die(IF pending THEN RestartCode ELSE 0)
  /\ reason' = IF accepted THEN "accepted" ELSE IF requests # {} THEN "unsettled" ELSE "none"
  /\ UNCHANGED <<supVars, cancelled, drained, pending, file, staged, saves, edits, running,
                 refreshing, told, edited, accepted, tampered>>

-----------------------------------------------------------------------------
(* The restart: reserve, validate, and after a quarter of a second stop.    *)
(* Request(r) is refused while one is pending.                              *)

Request(r) ==
  /\ child \in {"serving", "draining"} /\ r \notin requests /\ ~pending
  /\ pending' = TRUE /\ requests' = requests \cup {r}
  /\ UNCHANGED <<supVars, childVars, timers, configVars, observers>>

RequestKept(r) ==   \* a mutant: a refused configuration leaves the reservation behind
  /\ r \in requests /\ requests' = requests \ {r}
  /\ IF Loads(file)
     THEN timers' = timers + 1 /\ accepted' = TRUE /\ tampered' = FALSE /\ UNCHANGED pending
     ELSE UNCHANGED <<pending, timers, accepted, tampered>>
  /\ UNCHANGED <<supVars, childVars, configVars, edited, reason>>

Validate(r) ==
  /\ r \in requests /\ requests' = requests \ {r}
  /\ IF Loads(file)
     THEN timers' = timers + 1 /\ accepted' = TRUE /\ tampered' = FALSE /\ pending' = TRUE
     ELSE pending' = FALSE /\ UNCHANGED <<timers, accepted, tampered>>
  /\ UNCHANGED <<supVars, childVars, configVars, edited, reason>>

TimerFires ==
  /\ timers > 0 /\ Alive
  /\ timers' = timers - 1 /\ cancelled' = TRUE
  /\ UNCHANGED <<supVars, child, code, drained, pending, requests, configVars, observers>>

-----------------------------------------------------------------------------
(* The configuration transaction.  One at a time; the file may be edited    *)
(* from outside at any moment, and the process may end between two steps.   *)

Merge(cur, incoming) == [f \in Field |-> IF incoming[f] # Absent THEN incoming[f] ELSE cur[f]]
NeedRestart(c) == {f \in Cold : c[f] # running[f]}

\* Save: read, merge, write and sync a temporary file; any of it may fail and leaves nothing.
SaveStage ==
  /\ child \in {"serving", "draining"} /\ save = "idle" /\ saves < MaxSaves
  /\ file.kind = "json"
  /\ saves' = saves + 1 /\ save' = "staged"
  /\ \E form \in Forms : staged' = Merge(file.keys, form)
  /\ UNCHANGED <<supVars, childVars, restartVars, file, edits, running, refreshing, told,
                 observers>>

\* Load the staged content as a start would, and put it in place; a refusal ends the transaction.
SaveRename ==
  /\ save = "staged" /\ Alive
  /\ \/ /\ LoadsKeys(staged)
        /\ file' = Json(staged) /\ save' = "apply" /\ edited' = FALSE
     \/ save' = "idle" /\ UNCHANGED <<file, edited>>
  /\ UNCHANGED <<supVars, childVars, restartVars, staged, saves, edits, running, refreshing, told,
                 accepted, reason, tampered>>

Reload ==
  /\ child \in {"serving", "draining"} /\ save = "idle" /\ saves < MaxSaves /\ Loads(file)
  /\ saves' = saves + 1 /\ staged' = file.keys /\ save' = "apply" /\ edited' = FALSE
  /\ UNCHANGED <<supVars, childVars, restartVars, file, edits, running, refreshing, told,
                 accepted, reason, tampered>>

ApplyRebased ==   \* a mutant: the baseline of the next answer is the file just saved
  /\ save = "apply" /\ Alive
  /\ running' = Effective(staged) /\ told' = NeedRestart(Effective(staged)) /\ save' = "idle"
  /\ UNCHANGED <<supVars, childVars, restartVars, file, staged, saves, edits, refreshing,
                 observers>>

\* applyManagedRuntimeConfig, and the answer: the cold fields in which the start differs.  A new
\* interval of the balance refresh reaches no one where no loop was started.
TakesEffect(f) == f \in Hot /\ (f = "balance" => refreshing)
Apply ==
  /\ save = "apply" /\ Alive
  /\ LET c == Effective(staged) IN
       /\ running' = [f \in Field |-> IF TakesEffect(f) THEN c[f] ELSE running[f]]
       /\ told' = NeedRestart(c)
  /\ save' = "idle"
  /\ UNCHANGED <<supVars, childVars, restartVars, file, staged, saves, edits, refreshing,
                 observers>>

OutsideEdit ==
  /\ edits < MaxEdits /\ edits' = edits + 1
  /\ \E f \in {Json(k) : k \in Forms} \cup {Broken} : file' = f
  /\ edited' = TRUE /\ tampered' = TRUE
  /\ UNCHANGED <<supVars, childVars, restartVars, save, staged, saves, running, refreshing, told,
                 accepted, reason>>

-----------------------------------------------------------------------------
ControlInit ==
  /\ sup = "check" /\ signals = 0 /\ sent = 0 /\ spawns = 0
  /\ child = "none" /\ code = 0 /\ cancelled = FALSE /\ drained = FALSE
  /\ pending = FALSE /\ requests = {} /\ timers = 0
  /\ file \in {Json(k) : k \in Forms} \cup {Broken, Missing}
  /\ save = "idle" /\ staged = NoKeys /\ saves = 0 /\ edits = 0
  /\ running = Normalize(Default) /\ refreshing = TRUE /\ told = {}
  /\ edited = FALSE /\ accepted = FALSE /\ reason = "none" /\ tampered = FALSE

Supervisor == SupCheck \/ SupSpawn \/ SpawnFails \/ SupDone \/ SupSignal \/ SupStopped \/ SupKill
              \/ SupDelayOver
Service == Boot \/ ListenFails \/ Drain \/ Shut \/ Exit \/ TimerFires
           \/ (\E r \in Requests : Request(r) \/ Validate(r))
           \/ SaveStage \/ SaveRename \/ Reload \/ Apply
ControlNext == Supervisor \/ Send \/ Service \/ OutsideEdit

\* The supervisor takes every step it can: its timers run out and a killed child ends.  Nothing
\* is assumed of the service.  A stop that comes while a child is being started waits for it.
ControlSpec == ControlInit /\ [][ControlNext]_vars /\ WF_vars(Supervisor)

-----------------------------------------------------------------------------
\* The values a service may run with: only the balance refresh can be switched off.
Settings == {c \in [Field -> 0 .. 2] : \A f \in Field \ {"balance"} : c[f] > 0}

ControlTypeOK ==
  /\ sup \in {"check", "spawn", "watch", "stopping", "delay", "exited"} /\ signals \in 0 .. 4
  /\ child \in {"none", "boot", "serving", "draining", "dead"} /\ code \in {0, 1, RestartCode}
  /\ save \in {"idle", "staged", "apply"} /\ requests \subseteq Requests /\ timers \in Nat
  /\ told \subseteq Cold /\ running \in Settings /\ refreshing \in BOOLEAN

\* A restart happens on purpose and once: at most one shutdown is armed; a child that asks to be
\* started again was asked by a request whose configuration had been loaded, or was told to stop
\* while one was still being checked; only then, or when the file was edited afterwards, does the
\* next child meet a configuration it cannot load.  And when the supervisor has left, no child of
\* it is alive.
RestartsAreSound ==
  /\ ControlTypeOK
  /\ timers <= 1 /\ (requests # {} => timers = 0 /\ ~accepted)
  /\ sup = "delay" => code = RestartCode /\ reason # "none"
  /\ child = "boot" /\ spawns > 1 => Loads(file) \/ tampered \/ reason = "unsettled"
  /\ sup = "exited" => ~Alive

\* What the administrator was told is true: unless the file has been edited since, the file can be
\* loaded, and the values in effect are those a start would take from it, except in exactly the
\* fields the last answer named, and one it never names: a balance refresh that was off at the
\* start and has been switched on since runs only after a restart (the disagreement that
\* Scheduler's BalanceTakenUp shows; changedRestartFields leaves the schedule out).
Unsaid == IF ~refreshing /\ Effective(file.keys).balance > 0 THEN {"balance"} ELSE {}
AnswerIsTrue ==
  child \in {"serving", "draining"} /\ save = "idle" /\ ~edited =>
    /\ Loads(file)
    /\ {f \in Field : Effective(file.keys)[f] # running[f]} = told \cup Unsaid

\* A stop that reached the supervisor ends it and its child, whatever the service does meanwhile
\* and whatever restart was under way.
StopEnds == (signals > 0) ~> (sup = "exited" /\ ~Alive)
=============================================================================
