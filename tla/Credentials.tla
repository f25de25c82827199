---------------------------- MODULE Credentials ----------------------------
(***************************************************************************)
(* The credentials of one account: the Auth object the pool points to, its *)
(* file, and those who change them.  Chat requests and the keep-alive      *)
(* refresh the tokens (auth.Auth, Client.RefreshToken) and save the file;  *)
(* panel logins make a new Auth and put it in the pool in place of the old *)
(* one (loginPoll); the panel removes the account and deletes its file     *)
(* (accountRemove); the process restarts from the files alone.             *)
(*                                                                         *)
(* Whoever holds an Auth goes on with it although the pool has moved on to *)
(* another.  One uid, two sites.  What an answer does to the account's     *)
(* standing (Disable, NoteSessionDead, Revive) is in Pool.                 *)
(***************************************************************************)
EXTENDS Integers, Sequences, FiniteSets

CONSTANTS
  Refresher,  \* chat requests and rounds of the keep-alive
  FirstFiles, \* the file the account starts with: one of these, or no file
  Poll,       \* polls of a login under way in the panel
  Logins,     \* bound: logins of the account after the first
  OldLast,    \* the uid sorts after "cn-": its login.sh file is read last
  MaxAuths,   \* bound: Auth objects of one process
  MaxIssue,   \* bound: refreshes the upstream grants one session
  MaxBoots    \* bound: restarts

ASSUME CredAssumption ==
  /\ "none" \notin Refresher /\ FirstFiles \subseteq {"cn", "intl", "old"}
  /\ Logins \in Nat /\ OldLast \in BOOLEAN
  /\ MaxAuths \in Nat /\ MaxIssue \in Nat /\ MaxBoots \in Nat

VARIABLES
  auths,    \* the Auth objects of this process, in the order they were made
  pool,     \* which of them is the pool's, 0: the account is not in the pool
  lock,     \* refreshMu of each Auth: who holds it
  disk,     \* the account's files under auth_dir
  logins,   \* p.logins: the site of each login state
  issued,   \* upstream: the tokens last issued in each session, by number
  rf,       \* the refreshers
  pl,       \* the polls
  rm,       \* the file accountRemove is about to delete
  boots,
  gone,     \* history: the file last removed, until a login writes one
  calm      \* history: no change of the account overlapped other work on
            \* it, no write or deletion failed

core == <<auths, pool, lock>>
vars == <<core, disk, logins, issued, rf, pl, rm, boots, gone, calm>>

Site == {"cn", "intl"}
\* login.sh writes workbuddy-<uid>.json, the panel workbuddy-<site>-<uid>.json.
File == Site \cup {"old"}
SiteOf(f) == IF f = "intl" THEN "intl" ELSE "cn"
None == "none"
NoFile == [session |-> -1, token |-> 0]

\* Session 0 is the one the files start with, session s that of login s.
Session == 0 .. Logins
Token   == 0 .. MaxIssue
\* An access token and its refresh token count as one.
Auth    == [file : File, session : Session, token : Token, gen : Token]
Stored  == [session : Session, token : Token]

Ptr   == 0 .. Len(auths)
Idle  == [pc |-> "idle", auth |-> 0, gen |-> 0, reply |-> 0]
Quiet == [pc |-> "idle", state |-> 0, site |-> None, auth |-> 0]

CredTypeOK ==
  /\ auths \in Seq(Auth) /\ pool \in Ptr
  /\ lock \in Seq(Refresher \cup {None}) /\ Len(lock) = Len(auths)
  /\ disk \in [File -> Stored \cup {NoFile}]
  /\ logins \in [1 .. Logins -> Site \cup {None, "gone"}]
  /\ issued \in [Session -> Token]
  /\ rf \in [Refresher -> [pc : {"idle", "enter", "lock", "net", "answer", "save"},
                           auth : Ptr, gen : Token,
                           reply : Token]]
  /\ pl \in [Poll -> [pc : {"idle", "check", "save", "add", "finish"},
                      state : Session, site : Site \cup {None}, auth : Ptr]]
  /\ rm \in File \cup {None} /\ gone \in File \cup {None}
  /\ boots \in 0 .. MaxBoots /\ calm \in BOOLEAN

-----------------------------------------------------------------------------
(* Files *)

\* What SaveAtomic writes of an Auth.  Its site and uid are its file's.
Content(a) == [session |-> a.session, token |-> a.token]

\* Parse, either shape of the file; site key or domain tell the site.
Parsed(f) == [file |-> f, session |-> disk[f].session,
              token |-> disk[f].token, gen |-> 0]

\* LoadDir reads the files in the order of their names.
LoadDir  == {f \in File : disk[f] # NoFile}
Position == IF OldLast THEN [cn |-> 1, old |-> 2, intl |-> 3]
                       ELSE [old |-> 1, cn |-> 2, intl |-> 3]

\* SyncToDir: of one uid the first site wins, and of that site's files the last.
SyncToDir(files) ==
  LET first  == CHOOSE f \in files : \A g \in files : Position[f] <= Position[g]
      ofSite == {f \in files : SiteOf(f) = SiteOf(first)}
  IN  {f \in ofSite : \A g \in ofSite : Position[g] <= Position[f]}

\* tmp and rename: the file is the old one or the new one.
Write(f, content) == disk' = [disk EXCEPT ![f] = content]

-----------------------------------------------------------------------------
(* Overlaps *)

Working   == \E r \in Refresher : rf[r].pc # "idle"
LoggingIn == \E p \in Poll : pl[p].pc # "idle"
Changing  == rm # None \/ LoggingIn
-----------------------------------------------------------------------------
(* Start and restart *)

\* Whatever ran is gone with the process.
Boot ==
  LET files == LoadDir
  IN  IF files = {}
      THEN auths' = <<>> /\ lock' = <<>> /\ pool' = 0
      ELSE \E f \in SyncToDir(files) :
             auths' = <<Parsed(f)>> /\ lock' = <<None>> /\ pool' = 1

Restart ==
  /\ boots < MaxBoots /\ boots' = boots + 1
  /\ Boot
  /\ rf' = [r \in Refresher |-> Idle] /\ pl' = [p \in Poll |-> Quiet] /\ rm' = None
  /\ logins' = [s \in 1 .. Logins |-> IF logins[s] = None THEN None ELSE "gone"]
  /\ calm' = (calm /\ ~Changing)
  /\ UNCHANGED <<disk, issued, gone>>

First == [session |-> 0, token |-> 0]

CredInit ==
  /\ \/ \E f \in FirstFiles :
          /\ disk = [g \in File |-> IF g = f THEN First ELSE NoFile]
          /\ auths = <<Parsed(f)>> /\ lock = <<None>> /\ pool = 1
     \/ /\ disk = [g \in File |-> NoFile]
        /\ auths = <<>> /\ lock = <<>> /\ pool = 0
  /\ logins = [s \in 1 .. Logins |-> None]
  /\ issued = [s \in Session |-> 0]
  /\ rf = [r \in Refresher |-> Idle] /\ pl = [p \in Poll |-> Quiet] /\ rm = None
  /\ boots = 0 /\ gone = None /\ calm = TRUE

-----------------------------------------------------------------------------
(* Refreshing *)

\* A chat request has picked the account and NeedsRefresh says yes (lifetimes and
\* clock are free: it may at any time), or the keep-alive has come to it.
Begin(r) ==
  /\ rf[r].pc = "idle" /\ pool # 0
  /\ rf' = [rf EXCEPT ![r] = [Idle EXCEPT !.pc = "enter", !.auth = pool]]
  /\ calm' = (calm /\ ~LoggingIn)
  /\ UNCHANGED <<core, disk, logins, issued, pl, rm, boots, gone>>

\* RefreshToken's first snapshot, before the lock.
Enter(r) ==
  /\ rf[r].pc = "enter"
  /\ rf' = [rf EXCEPT ![r].pc = "lock", ![r].gen = auths[rf[r].auth].gen]
  /\ UNCHANGED <<core, disk, logins, issued, pl, rm, boots, gone, calm>>

LockUnchecked(r) ==
  /\ rf[r].pc = "lock" /\ lock[rf[r].auth] = None
  /\ lock' = [lock EXCEPT ![rf[r].auth] = r]
  /\ rf' = [rf EXCEPT ![r].pc = "net"]
  /\ UNCHANGED <<auths, pool, disk, logins, issued, pl, rm, boots, gone, calm>>

\* Under refreshMu: if another refresh has been through, nothing is left to do.
\* Site, uid and file of an Auth never change, its tokens only with Generation.
Lock(r) ==
  /\ rf[r].pc = "lock" /\ lock[rf[r].auth] = None
  /\ IF auths[rf[r].auth].gen # rf[r].gen
     THEN rf' = [rf EXCEPT ![r].pc = "save"] /\ UNCHANGED lock
     ELSE /\ rf' = [rf EXCEPT ![r].pc = "net"]
          /\ lock' = [lock EXCEPT ![rf[r].auth] = r]
  /\ UNCHANGED <<auths, pool, disk, logins, issued, pl, rm, boots, gone, calm>>

\* The upstream issues new tokens and answers, or the call fails, before or after
\* it took effect: the reply is then 0.
Upstream(r) ==
  /\ rf[r].pc = "net"
  /\ LET s == auths[rf[r].auth].session
         reply(n) == rf' = [rf EXCEPT ![r].pc = "answer", ![r].reply = n]
     IN  \/ reply(0) /\ UNCHANGED issued
         \/ /\ issued[s] < MaxIssue /\ issued' = [issued EXCEPT ![s] = @ + 1]
            /\ reply(0) \/ reply(issued'[s])
  /\ UNCHANGED <<core, disk, logins, pl, rm, boots, gone, calm>>

\* The new tokens are committed under mu; the lock goes.
Commit(r) ==
  /\ rf[r].pc = "answer" /\ rf[r].reply # 0
  /\ LET i == rf[r].auth
     IN  /\ auths' = [auths EXCEPT ![i].token = rf[r].reply, ![i].gen = @ + 1]
         /\ lock' = [lock EXCEPT ![i] = None]
  /\ rf' = [rf EXCEPT ![r].pc = "save", ![r].reply = 0]
  /\ UNCHANGED <<pool, disk, logins, issued, pl, rm, boots, gone, calm>>

\* refreshResult: the error goes up, unless the Auth has changed; the lock goes.
Fail(r) ==
  /\ rf[r].pc = "answer" /\ rf[r].reply = 0
  /\ lock' = [lock EXCEPT ![rf[r].auth] = None]
  /\ rf' = [rf EXCEPT ![r] = IF auths[rf[r].auth].gen # rf[r].gen
                             THEN [@ EXCEPT !.pc = "save"] ELSE Idle]
  /\ UNCHANGED <<auths, pool, disk, logins, issued, pl, rm, boots, gone, calm>>

SaveSkipped(r) ==
  /\ rf[r].pc = "save"
  /\ rf' = [rf EXCEPT ![r] = Idle]
  /\ UNCHANGED <<core, disk, logins, issued, pl, rm, boots, gone, calm>>

\* Writes what the Auth is by now, under mu, to its file, wherever the account
\* has gone meanwhile.  A failed write is logged.
Save(r) ==
  /\ rf[r].pc = "save"
  /\ LET a == auths[rf[r].auth]
     IN  \/ Write(a.file, Content(a)) /\ UNCHANGED calm
         \/ UNCHANGED disk /\ calm' = FALSE
  /\ rf' = [rf EXCEPT ![r] = Idle]
  /\ UNCHANGED <<core, logins, issued, pl, rm, boots, gone>>

-----------------------------------------------------------------------------
(* Logging in through the panel *)

\* loginStart: states past their time are dropped on the way.
LoginStart(s, site) ==
  /\ logins[s] = None /\ \A t \in 1 .. s - 1 : logins[t] # None
  /\ \E late \in SUBSET {t \in 1 .. Logins : logins[t] \in Site} :
       logins' = [t \in 1 .. Logins |->
                    IF t = s THEN site ELSE IF t \in late THEN "gone" ELSE logins[t]]
  /\ UNCHANGED <<core, disk, issued, rf, pl, rm, boots, gone, calm>>

\* loginPoll: the state is known, the user has logged in, the account answers.
\* Every poll until the state is deleted gets here.
PollDone(p, s) ==
  /\ pl[p].pc = "idle" /\ logins[s] \in Site
  /\ Len(auths) + Cardinality({q \in Poll : pl[q].pc = "check"}) < MaxAuths
  /\ pl' = [pl EXCEPT ![p] = [Quiet EXCEPT !.pc = "check", !.state = s, !.site = logins[s]]]
  /\ calm' = (calm /\ ~Working /\ ~Changing)
  /\ UNCHANGED <<core, disk, logins, issued, rf, rm, boots, gone>>

\* Another site's account of this uid is not to be overwritten.
PollCheck(p) ==
  /\ pl[p].pc = "check"
  /\ IF pool # 0 /\ SiteOf(auths[pool].file) # pl[p].site
     THEN pl' = [pl EXCEPT ![p] = Quiet] /\ UNCHANGED <<auths, lock>>
     ELSE /\ auths' = Append(auths, [file |-> pl[p].site, session |-> pl[p].state,
                                     token |-> 0, gen |-> 0])
          /\ lock' = Append(lock, None)
          /\ pl' = [pl EXCEPT ![p].pc = "save", ![p].auth = Len(auths) + 1]
  /\ UNCHANGED <<pool, disk, logins, issued, rf, rm, boots, gone, calm>>

\* SaveAtomic before Pool.Add; without the file the login has failed.
PollSave(p) ==
  /\ pl[p].pc = "save"
  /\ LET a == auths[pl[p].auth]
     IN  \/ /\ Write(a.file, Content(a))
            /\ gone' = None
            /\ pl' = [pl EXCEPT ![p].pc = "add"] /\ UNCHANGED calm
         \/ pl' = [pl EXCEPT ![p] = Quiet] /\ calm' = FALSE /\ UNCHANGED <<disk, gone>>
  /\ UNCHANGED <<core, logins, issued, rf, rm, boots>>

UpsertAnySite(i) == pool' = i

\* upsertLocked: a new entry, or new credentials for one of the same site.
Upsert(i) ==
  pool' = IF pool = 0 \/ SiteOf(auths[pool].file) = SiteOf(auths[i].file) THEN i ELSE pool

\* Pool.Add; then Revive, check-in and ReenableIfCredits, which are in Pool.
PollAdd(p) ==
  /\ pl[p].pc = "add"
  /\ Upsert(pl[p].auth)
  /\ pl' = [pl EXCEPT ![p].pc = "finish"]
  /\ UNCHANGED <<auths, lock, disk, logins, issued, rf, rm, boots, gone, calm>>

PollFinish(p) ==
  /\ pl[p].pc = "finish"
  /\ logins' = [logins EXCEPT ![pl[p].state] = "gone"]
  /\ pl' = [pl EXCEPT ![p] = Quiet]
  /\ UNCHANGED <<core, disk, issued, rf, rm, boots, gone, calm>>

-----------------------------------------------------------------------------
(* Removing *)

PoolRemove ==
  /\ pool # 0 /\ pool' = 0
  /\ UNCHANGED <<auths, lock, disk>>

Unlink(f) ==
  \/ disk' = [disk EXCEPT ![f] = NoFile] /\ gone' = f /\ UNCHANGED calm
  \/ UNCHANGED <<disk, gone>> /\ calm' = FALSE

RemoveFileFirst(step) ==
  \/ /\ step = 1 /\ rm = None /\ pool # 0 /\ rm' = auths[pool].file
     /\ disk' = [disk EXCEPT ![rm'] = NoFile] /\ gone' = rm'
     /\ calm' = (calm /\ ~Working /\ ~Changing)
     /\ UNCHANGED core
  \/ /\ step = 2 /\ rm # None /\ rm' = None
     /\ PoolRemove /\ UNCHANGED <<gone, calm>>

\* accountRemove: out of the pool first, then the file of the Auth it had.
RemovalStep(step) ==
  \/ /\ step = 1 /\ rm = None
     /\ PoolRemove /\ rm' = auths[pool].file
     /\ calm' = (calm /\ ~Working /\ ~Changing)
     /\ UNCHANGED gone
  \/ /\ step = 2 /\ rm # None /\ rm' = None
     /\ Unlink(rm) /\ UNCHANGED core

AccountRemove ==
  /\ \E step \in 1 .. 2 : RemovalStep(step)
  /\ UNCHANGED <<logins, issued, rf, pl, boots>>

-----------------------------------------------------------------------------
PollStep(p) == PollCheck(p) \/ PollSave(p) \/ PollAdd(p) \/ PollFinish(p)

CredNext ==
  \/ \E r \in Refresher :
       Begin(r) \/ Enter(r) \/ Lock(r) \/ Upstream(r) \/ Commit(r) \/ Fail(r) \/ Save(r)
  \/ \E s \in 1 .. Logins, site \in Site : LoginStart(s, site)
  \/ \E p \in Poll, s \in 1 .. Logins : PollDone(p, s)
  \/ \E p \in Poll : PollStep(p)
  \/ AccountRemove \/ Restart

CredSpec == CredInit /\ [][CredNext]_vars

-----------------------------------------------------------------------------
(* Properties *)

\* One refresh of an Auth at a time is out, and it carries the refresh token the
\* Auth has: a token that an earlier refresh has replaced is never sent.  Whoever
\* has come back has left the lock free; and RefreshToken's nil means that the
\* Auth's tokens are newer than those its caller found due, whoever fetched them.
OneCurrentRefresh ==
  /\ CredTypeOK
  /\ \A i \in 1 .. Len(auths) : lock[i] # None => rf[lock[i]].pc \in {"net", "answer"}
  /\ \A r \in Refresher : rf[r].pc \in {"net", "answer"} =>
       lock[rf[r].auth] = r /\ rf[r].gen = auths[rf[r].auth].gen
  /\ \A r \in Refresher : rf[r].pc = "save" => auths[rf[r].auth].gen > rf[r].gen

\* As long as no change of the account overlaps other work on it and no write
\* fails, the file has what the pool has whenever nobody is at work: the
\* restart finds the last tokens.
FileIsCurrent ==
  calm /\ ~Working /\ ~Changing /\ pool # 0 =>
    disk[auths[pool].file] = Content(auths[pool])

\* Under the same condition a removed account's file stays away until somebody
\* logs in.
FileStaysGone == calm /\ gone # None => disk[gone] = NoFile

\* What the pool has never passes from one site to the other but by a removal,
\* although a login checks the site long before it is added.
SiteKept ==
  [][pool # 0 /\ pool' # 0 /\ boots' = boots =>
       SiteOf(auths[pool].file) = SiteOf(auths'[pool'].file)]_vars
=============================================================================
