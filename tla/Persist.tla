------------------------------ MODULE Persist ------------------------------
(***************************************************************************)
(* What survives a restart: the pool's state in memory, its dirty flag and *)
(* flusher, state.json, the Redis mirror of it, and the credential files,  *)
(* from start-up (LoadDir, New, RestoreFromSnapshot, SyncToDir) over the   *)
(* running service to a clean exit or a crash.                             *)
(*                                                                         *)
(* The persisted fields of an account are one version number: every change *)
(* makes a new one, 0 is a fresh account.  Fields that are not persisted   *)
(* (breaker, in-flight count, last use, the model of a 6004) are absent.   *)
(***************************************************************************)
EXTENDS Integers, FiniteSets, Functions

CONSTANTS
  Uid,
  Site,
  NoSite,      \* credentials still unknown: the placeholder of a restored account
  MaxChange,   \* bound: changes of account state
  MaxClock,    \* bound: ticks of the clock behind mtime and saved_at
  MaxMirror    \* bound: SaveState goroutines in flight

ASSUME PersistAssumption ==
  NoSite \notin Site /\ MaxChange \in Nat /\ MaxClock \in Nat \ {0} /\ MaxMirror \in Nat

VARIABLES
  phase,    \* how far main has come; "down" before it starts and after it ends
  mem,      \* byUID: the version and the credentials' site of each account held
  dirty,    \* pool.dirty
  failing,  \* persistFails > 0
  unread,   \* state.json was there, load() could not read it, and no save has replaced it
  scanned,  \* what LoadDir read, until SyncToDir has used it
  files,    \* credential files: uid and site of each
  disk,     \* state.json: accounts and mtime; NoFile if there is none
  redis,    \* the snapshot in Redis: accounts and saved_at; NoFile if there is none
  mirrors,  \* snapshots on their way to Redis, in no order
  clock,
  changes   \* versions given out

persistVars == <<phase, mem, dirty, failing, unread, scanned, files, disk, redis, mirrors, clock,
                 changes>>
world == <<files, redis, mirrors, clock>>

Version  == 0 .. MaxChange
Partial(S, T) == UNION {[D -> T] : D \in SUBSET S}
Saved    == [at : 1 .. MaxClock, accounts : Partial(Uid, Version)]
NoFile   == [at |-> 0, accounts |-> [u \in {} |-> 0]]
Credential == Uid \X Site
Empty    == [u \in {} |-> 0]

Running == phase # "down"

PersistTypeOK ==
  /\ phase \in {"down", "loaded", "restored", "up"}
  /\ mem \in Partial(Uid, [v : Version, site : Site \cup {NoSite}])
  /\ dirty \in BOOLEAN /\ failing \in BOOLEAN /\ unread \in BOOLEAN
  /\ scanned \subseteq Credential /\ files \subseteq Credential
  /\ disk \in Saved \cup {NoFile} /\ redis \in Saved \cup {NoFile}
  /\ mirrors \subseteq Saved
  /\ clock \in 1 .. MaxClock /\ changes \in Version

PersistInit ==
  /\ phase = "down" /\ mem = Empty
  /\ dirty = FALSE /\ failing = FALSE /\ unread = FALSE
  /\ scanned = {} /\ files \in SUBSET Credential
  /\ disk = NoFile /\ redis = NoFile /\ mirrors = {}
  /\ clock = 1 /\ changes = 0

-----------------------------------------------------------------------------
(* Saving *)

Versions(m) == [u \in DOMAIN m |-> m[u].v]

\* saveLocked: the file is replaced whole or not at all; only a save that
\* succeeded is mirrored.
Save(m, ok) ==
  LET snap == [at |-> clock, accounts |-> Versions(m)]
  IN  /\ disk' = IF ok THEN snap ELSE disk
      /\ mirrors' = IF ok THEN mirrors \cup {snap} ELSE mirrors
      /\ failing' = ~ok
      /\ unread' = (unread /\ ~ok)

NoSave == UNCHANGED <<disk, mirrors, failing, unread>>
Room == Cardinality(mirrors) < MaxMirror

\* Flush and the flusher's tick: the flag is taken down before the save.
FlushLocked(ok) ==
  /\ dirty' = FALSE
  /\ IF dirty THEN Save(mem, ok) ELSE NoSave

\* startFlusher: runs from New on, also before the accounts are aligned.
FlushClearsOnly(ok) ==
  /\ Running /\ Room
  /\ dirty' = FALSE /\ NoSave
  /\ UNCHANGED <<phase, mem, scanned, files, redis, clock, changes>>

Flusher(ok) ==
  /\ Running /\ dirty /\ Room
  /\ FlushLocked(ok)
  /\ UNCHANGED <<phase, mem, scanned, files, redis, clock, changes>>

-----------------------------------------------------------------------------
(* Start-up *)

Placeholders(accounts) == [u \in DOMAIN accounts |-> [v |-> accounts[u], site |-> NoSite]]

\* load(): a state.json that cannot be read or parsed is passed over without a
\* word, and the pool starts empty beside it.
ReadState(read) ==
  /\ mem' = IF read THEN Placeholders(disk.accounts) ELSE Empty
  /\ unread' = (~read /\ disk # NoFile)

\* LoadDir, which passes over files it cannot read or parse, and New.
Load(read) ==
  /\ phase = "down" /\ phase' = "loaded"
  /\ scanned' \in SUBSET files
  /\ ReadState(read)
  /\ dirty' = FALSE /\ failing' = FALSE
  /\ UNCHANGED <<world, disk, changes>>

RestoreAnySnapshot(answered) ==
  /\ phase = "loaded" /\ phase' = "restored"
  /\ IF answered /\ redis # NoFile
     THEN mem' = Placeholders(redis.accounts) /\ dirty' = TRUE
     ELSE UNCHANGED <<mem, dirty>>
  /\ UNCHANGED <<failing, unread, scanned, world, disk, changes>>

\* RestoreFromSnapshot: Redis wins unless state.json is newer, or is missing.
RestoreFromSnapshot(answered) ==
  /\ phase = "loaded" /\ phase' = "restored"
  /\ IF answered /\ redis # NoFile /\ disk # NoFile /\ disk.at <= redis.at
     THEN mem' = Placeholders(redis.accounts) /\ dirty' = TRUE
     ELSE UNCHANGED <<mem, dirty>>
  /\ UNCHANGED <<failing, unread, scanned, world, disk, changes>>

Uids(creds) == {c[1] : c \in creds}

\* upsertLocked on what is still a placeholder, or not there.  With a file of
\* either site for one uid, the one LoadDir lists first is kept.
Aligned(m, creds, siteOf) ==
  [u \in Uids(creds) |->
     [v |-> IF u \in DOMAIN m THEN m[u].v ELSE 0, site |-> siteOf[u]]]

SyncKeepsVanished(ok) ==
  /\ phase = "restored" /\ phase' = "up"
  /\ \E siteOf \in [Uids(scanned) -> Site] :
       /\ \A u \in DOMAIN siteOf : <<u, siteOf[u]>> \in scanned
       /\ mem' = [u \in DOMAIN mem \cup Uids(scanned) |->
                    IF u \in Uids(scanned) THEN Aligned(mem, scanned, siteOf)[u] ELSE mem[u]]
  /\ NoSave
  /\ scanned' = {}
  /\ UNCHANGED <<dirty, files, redis, clock, changes>>

\* Accounts without a file are dropped, and that alone is saved at once.
SyncToDir(ok) ==
  /\ phase = "restored" /\ phase' = "up"
  /\ \E siteOf \in [Uids(scanned) -> Site] :
       /\ \A u \in DOMAIN siteOf : <<u, siteOf[u]>> \in scanned
       /\ mem' = Aligned(mem, scanned, siteOf)
  /\ IF DOMAIN mem \subseteq Uids(scanned) THEN NoSave ELSE Room /\ Save(mem', ok)
  /\ scanned' = {}
  /\ UNCHANGED <<dirty, files, redis, clock, changes>>

-----------------------------------------------------------------------------
(* The service *)

\* Any operation of Pool that sets a persisted field.
Change(u) ==
  /\ phase = "up" /\ u \in DOMAIN mem /\ changes < MaxChange
  /\ changes' = changes + 1
  /\ mem' = [mem EXCEPT ![u].v = changes + 1]
  /\ dirty' = TRUE
  /\ UNCHANGED <<phase, failing, unread, scanned, world, disk>>

\* A login: its file is on disk by now (loginPoll writes it first, and asks
\* whether the other site holds the uid).  Adding alone does not set dirty.
Add(u, s) ==
  /\ phase = "up" /\ <<u, s>> \in files
  /\ u \in DOMAIN mem => mem[u].site = s
  /\ mem' = IF u \in DOMAIN mem THEN mem
            ELSE [w \in DOMAIN mem \cup {u} |->
                    IF w = u THEN [v |-> 0, site |-> s] ELSE mem[w]]
  /\ UNCHANGED <<phase, dirty, failing, unread, scanned, world, disk, changes>>

RemoveUnsaved(u, ok) ==
  /\ phase = "up" /\ u \in DOMAIN mem /\ Room
  /\ mem' = Restrict(mem, DOMAIN mem \ {u})
  /\ NoSave
  /\ UNCHANGED <<phase, dirty, scanned, files, redis, clock, changes>>

\* Saved at once, and again by the next flush.
Remove(u, ok) ==
  /\ phase = "up" /\ u \in DOMAIN mem /\ Room
  /\ mem' = Restrict(mem, DOMAIN mem \ {u})
  /\ dirty' = TRUE
  /\ Save(mem', ok)
  /\ UNCHANGED <<phase, scanned, files, redis, clock, changes>>

Stop == /\ phase' = "down" /\ mem' = Empty /\ scanned' = {}
        /\ UNCHANGED <<files, redis, clock, changes>>

\* The signal's way out, and the deferred Flush.
ShutDown(ok) ==
  /\ phase = "up" /\ Room
  /\ FlushLocked(ok)
  /\ Stop

Crash ==
  /\ Running /\ dirty' = FALSE /\ NoSave
  /\ Stop

-----------------------------------------------------------------------------
(* Around the process *)

PutFile(c) ==   \* a login or the operator
  /\ files' = files \cup {c}
  /\ UNCHANGED <<phase, mem, dirty, failing, unread, scanned, disk, redis, mirrors, clock, changes>>
DropFile(c) ==  \* accountRemove after Pool.Remove, when it gets there, or the operator
  /\ files' = files \ {c}
  /\ UNCHANGED <<phase, mem, dirty, failing, unread, scanned, disk, redis, mirrors, clock, changes>>
LoseStateFile ==
  /\ phase = "down" /\ disk' = NoFile
  /\ UNCHANGED <<phase, mem, dirty, failing, unread, scanned, files, redis, mirrors, clock, changes>>
Arrive(s) ==    \* Set; may outlive the process that sent it
  /\ redis' = s /\ mirrors' = mirrors \ {s}
  /\ UNCHANGED <<phase, mem, dirty, failing, unread, scanned, files, disk, clock, changes>>
Fail(s) ==      \* an error or the 5s timeout; logged only
  /\ mirrors' = mirrors \ {s}
  /\ UNCHANGED <<phase, mem, dirty, failing, unread, scanned, files, disk, redis, clock, changes>>
Expire ==       \* keyTTL
  /\ redis' = NoFile
  /\ UNCHANGED <<phase, mem, dirty, failing, unread, scanned, files, disk, mirrors, clock, changes>>
Tick ==
  /\ clock < MaxClock /\ clock' = clock + 1
  /\ UNCHANGED <<phase, mem, dirty, failing, unread, scanned, files, disk, redis, mirrors, changes>>

-----------------------------------------------------------------------------
Main == \E b \in BOOLEAN : Load(b) \/ RestoreFromSnapshot(b) \/ SyncToDir(b) \/ ShutDown(b)
Serving == \E u \in Uid : \/ Change(u)
                          \/ \E s \in Site : Add(u, s)
                          \/ \E ok \in BOOLEAN : Remove(u, ok)
Environment == \/ \E c \in Credential : PutFile(c) \/ DropFile(c)
               \/ \E s \in mirrors : Arrive(s) \/ Fail(s)
               \/ Crash \/ LoseStateFile \/ Expire \/ Tick

PersistNext ==
  \/ Main \/ Serving \/ Environment
  \/ \E ok \in BOOLEAN : Flusher(ok)

\* The flusher ticks as long as the process lives, and a write to Redis ends
\* within its timeout.
PersistSpec ==
  /\ PersistInit /\ [][PersistNext]_persistVars
  /\ WF_persistVars(\E ok \in BOOLEAN : Flusher(ok))
  /\ WF_persistVars(\E s \in mirrors : Arrive(s) \/ Fail(s))

-----------------------------------------------------------------------------
(* Properties *)

VersionOn(file, u) == IF u \in DOMAIN file.accounts THEN file.accounts[u] ELSE 0
OnDisk == \A u \in DOMAIN mem : VersionOn(disk, u) = mem[u].v
Fresh == \A u \in DOMAIN mem : mem[u].v = 0

\* Nothing in memory waits to be saved.  Over a state.json that could not be read
\* that is so as long as nothing has changed since the start: the file still says
\* what memory never knew.
Settled == IF unread THEN Fresh ELSE OnDisk

\* A clear dirty flag means there is nothing to save, unless the last save
\* failed: no operation changes persisted state behind the flag's back, and a
\* start does not leave memory and file apart, but for a file load() cannot read.
CleanMeansSaved == PersistTypeOK /\ (Running /\ ~dirty /\ ~failing => Settled)

\* A restart goes back to nothing older than state.json: what RestoreFromSnapshot
\* leaves in memory is the file's content, or a snapshot of another save in the
\* very same clock tick.  Only a file that load() cannot read is not restored:
\* with no such snapshot the pool then starts with no history at all, never with
\* an older one.
RestoreKeepsLocal ==
  [][phase = "loaded" /\ phase' = "restored"
       => \/ Versions(mem') = disk.accounts
          \/ redis.at = disk.at /\ Versions(mem') = redis.accounts
          \/ unread /\ mem' = Empty]_persistVars

\* Requests are served with real credentials only: once SyncToDir is through, no
\* account restored from state.json or Redis is left without a token and a site.
NoPlaceholderServes == phase = "up" => \A u \in DOMAIN mem : mem[u].site \in Site

\* Every change reaches state.json or the failure counter, or the process ends
\* first: none is forgotten without a sign.
ChangesReachDisk == []<>(Running => Settled \/ failing)

=============================================================================
