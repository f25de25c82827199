-------------------------- MODULE CredentialsProofs --------------------------
(***************************************************************************)
(* Theorems about Credentials for any number of refreshers, polls and      *)
(* logins and any bounds.                                                  *)
(*                                                                         *)
(* CredInv is inductive.  RefreshInv ties each refresher to its Auth, the  *)
(* lock and what the upstream has issued; it holds whatever overlaps.      *)
(* CalmInv says how far the file may be from the pool at each place, as    *)
(* long as the changes of the account do not overlap.                      *)
(***************************************************************************)
EXTENDS Credentials, SequenceTheorems, TLAPS

AuthIds == 1 .. Len(auths)

\* Where a refresher stands to its Auth.  An answer with tokens is one that the
\* upstream has issued and the Auth has not taken yet.
RefreshFits(r) ==
  LET a == auths[rf[r].auth]
  IN  rf[r].pc # "idle" =>
        /\ rf[r].auth \in AuthIds
        /\ rf[r].pc = "lock" => rf[r].gen <= a.gen
        /\ rf[r].pc \in {"net", "answer"} => lock[rf[r].auth] = r /\ rf[r].gen = a.gen
        /\ rf[r].pc = "answer" /\ rf[r].reply # 0 => a.gen < issued[a.session]
        /\ rf[r].pc = "save" => rf[r].gen < a.gen

\* A lock that is held is held by a refresher of this Auth; no Auth has taken
\* more tokens than were issued in its session.
AuthFits(i) ==
  /\ lock[i] # None => rf[lock[i]].auth = i /\ rf[lock[i]].pc \in {"net", "answer"}
  /\ auths[i].gen <= issued[auths[i].session]

PollFits(p) ==
  /\ pl[p].pc \in {"save", "add", "finish"} => pl[p].auth \in AuthIds
  /\ pl[p].pc = "check" => pl[p].site \in Site

RefreshInv ==
  /\ \A r \in Refresher : RefreshFits(r)
  /\ \A i \in AuthIds : AuthFits(i)
  /\ \A p \in Poll : PollFits(p)

\* The file of the Auth has what the Auth has.
Saved(i) == disk[auths[i].file] = Content(auths[i])

\* Work that does not overlap: a removal is alone, a login is alone, refreshes
\* are on the Auth the pool has.
Orderly ==
  /\ rm # None => pool = 0 /\ ~Working /\ ~LoggingIn
  /\ Working => ~LoggingIn
  /\ \A r \in Refresher : rf[r].pc # "idle" => pool # 0 /\ rf[r].auth = pool
  /\ \A p, q \in Poll : pl[p].pc # "idle" /\ pl[q].pc # "idle" => p = q

\* A login that has saved will be added, or leaves the pool's file alone.
FilesFit ==
  /\ \A p \in Poll : pl[p].pc = "add" => Saved(pl[p].auth)
  /\ pool # 0 => disk[auths[pool].file] # NoFile
  /\ \/ pool = 0 \/ Saved(pool)
     \/ \E r \in Refresher : rf[r].pc = "save"
     \/ \E p \in Poll : pl[p].pc = "add" /\ auths[pl[p].auth].file = auths[pool].file
  /\ gone # None => disk[gone] = NoFile

CalmInv == calm => Orderly /\ FilesFit

CredInv == CredTypeOK /\ RefreshInv /\ CalmInv

-----------------------------------------------------------------------------
(* What the types say of sequences and records.                             *)

Refreshing == [pc : {"idle", "enter", "lock", "net", "answer", "save"},
               auth : Ptr, gen : Token, reply : Token]
Polling == [pc : {"idle", "check", "save", "add", "finish"},
            state : Session, site : Site \cup {None}, auth : Ptr]

LEMMA Facts ==
  ASSUME CredInv
  PROVE  /\ CredTypeOK /\ Len(auths) \in Nat /\ Len(lock) = Len(auths)
         /\ \A i \in AuthIds : auths[i] \in Auth /\ lock[i] \in Refresher \cup {None}
         /\ pool \in Ptr /\ (pool # 0 => pool \in AuthIds) /\ Ptr = {0} \cup AuthIds
         /\ rf \in [Refresher -> Refreshing] /\ pl \in [Poll -> Polling]
         /\ disk \in [File -> Stored \cup {NoFile}] /\ issued \in [Session -> Token]
         /\ MaxIssue \in Nat /\ 0 \in Token /\ None \notin Refresher /\ boots \in Nat
<1>1. CredTypeOK
  BY DEF CredInv
<1>2. MaxIssue \in Nat /\ 0 \in Token /\ None \notin Refresher /\ MaxBoots \in Nat
  BY CredAssumption DEF Token, None
<1>3. auths \in Seq(Auth) /\ lock \in Seq(Refresher \cup {None}) /\ Len(lock) = Len(auths)
  BY <1>1 DEF CredTypeOK
<1>4. Len(auths) \in Nat
  BY <1>3
<1>5. \A i \in AuthIds : auths[i] \in Auth /\ lock[i] \in Refresher \cup {None}
  BY <1>3, <1>4, ElementOfSeq DEF AuthIds
<1>6. Ptr = {0} \cup AuthIds
  BY <1>4 DEF Ptr, AuthIds
<1>7. rf \in [Refresher -> Refreshing] /\ pl \in [Poll -> Polling]
  BY <1>1 DEF CredTypeOK, Refreshing, Polling
<1> QED
  BY <1>1, <1>2, <1>3, <1>4, <1>5, <1>6, <1>7 DEF CredTypeOK

LEMMA ContentStored ==
  ASSUME NEW a \in Auth
  PROVE  Content(a) \in Stored /\ Content(a) # NoFile
<1>1. -1 \notin Session
  BY DEF Session
<1>2. a.session \in Session /\ a.token \in Token
  BY DEF Auth
<1>3. Content(a) \in Stored
  BY <1>2 DEF Content, Stored
<1>4. Content(a).session = a.session /\ NoFile.session = -1
  BY DEF Content, NoFile
<1> QED
  BY <1>1, <1>2, <1>3, <1>4

\* A refresher's move that leaves the Auth objects, their locks and the upstream
\* alone.
LEMMA RefresherMoves ==
  ASSUME CredInv, NEW r \in Refresher, NEW x \in Refreshing, rf' = [rf EXCEPT ![r] = x],
         UNCHANGED <<core, logins, issued, pl, rm, boots, gone>>,
         disk' \in [File -> Stored \cup {NoFile}], calm' \in BOOLEAN,
         RefreshFits(r)',
         rf[r].pc \notin {"net", "answer"}
  PROVE  CredTypeOK' /\ RefreshInv'
<1>1. UNCHANGED <<auths, pool, lock>>
  BY DEF core
<1>2. CredTypeOK'
  BY <1>1, Facts DEF CredTypeOK, Ptr, Refreshing
<1>3. \A q \in Refresher : RefreshFits(q)'
  BY <1>1, Facts DEF CredInv, RefreshInv, RefreshFits, AuthIds
<1>4. \A i \in AuthIds' : AuthFits(i)'
  BY <1>1, Facts DEF CredInv, RefreshInv, AuthFits, AuthIds
<1>5. \A p \in Poll : PollFits(p)'
  BY <1>1 DEF CredInv, RefreshInv, PollFits, AuthIds
<1> QED
  BY <1>2, <1>3, <1>4, <1>5 DEF RefreshInv

\* A refresher at work goes on, and does not leave "save".
LEMMA CalmRefreshers ==
  ASSUME CredInv, NEW r \in Refresher, NEW x, rf' = [rf EXCEPT ![r] = x],
         rf[r].pc \notin {"idle", "save"}, x.auth = rf[r].auth \/ x.pc = "idle",
         UNCHANGED <<auths, pool, disk, pl, rm, gone, calm>>
  PROVE  CalmInv'
<1> SUFFICES ASSUME calm PROVE Orderly' /\ FilesFit'
  BY DEF CalmInv
<1>1. Orderly /\ FilesFit
  BY DEF CredInv, CalmInv
<1>2. rf'[r] = x /\ \A q \in Refresher : q # r => rf'[q] = rf[q]
  BY Facts
<1>3. Orderly'
  BY <1>1, <1>2 DEF Orderly, Working, LoggingIn
<1>4. FilesFit'
  BY <1>1, <1>2 DEF FilesFit, Saved, Content
<1> QED
  BY <1>3, <1>4

-----------------------------------------------------------------------------
(* Refreshing, action by action.                                            *)

LEMMA BeginKeeps ==
  ASSUME CredInv, NEW r \in Refresher, Begin(r)
  PROVE  CredInv'
<1> DEFINE x == [Idle EXCEPT !.pc = "enter", !.auth = pool]
<1>1. /\ rf[r].pc = "idle" /\ pool # 0 /\ rf' = [rf EXCEPT ![r] = x]
      /\ calm' = (calm /\ ~LoggingIn)
      /\ UNCHANGED <<core, disk, logins, issued, pl, rm, boots, gone>>
  BY DEF Begin
<1>2. x \in Refreshing /\ x.pc = "enter" /\ x.auth = pool
  BY Facts DEF Idle, Refreshing
<1> HIDE DEF x
<1>3. rf'[r] = x
  BY <1>1, Facts
<1>4. RefreshFits(r)'
  BY <1>1, <1>2, <1>3, Facts DEF RefreshFits, core, AuthIds
<1>5. calm' \in BOOLEAN /\ disk' \in [File -> Stored \cup {NoFile}]
  BY <1>1, Facts DEF CredTypeOK
<1>6. CredTypeOK' /\ RefreshInv'
  BY <1>1, <1>2, <1>4, <1>5, RefresherMoves
<1>7. CalmInv'
  <2> SUFFICES ASSUME calm' PROVE Orderly' /\ FilesFit'
    BY DEF CalmInv
  <2>1. Orderly /\ FilesFit /\ ~LoggingIn /\ calm
    BY <1>1 DEF CredInv, CalmInv
  <2>2. Orderly'
    BY <1>1, <1>2, <1>3, <2>1, Facts DEF Orderly, Working, LoggingIn, core
  <2>3. FilesFit'
    BY <1>1, <1>2, <1>3, <2>1, Facts DEF FilesFit, Saved, Content, core
  <2> QED
    BY <2>2, <2>3
<1> QED
  BY <1>6, <1>7 DEF CredInv

LEMMA EnterKeeps ==
  ASSUME CredInv, NEW r \in Refresher, Enter(r)
  PROVE  CredInv'
<1> DEFINE x == [rf[r] EXCEPT !.pc = "lock", !.gen = auths[rf[r].auth].gen]
<1>1. /\ rf[r].pc = "enter"
      /\ UNCHANGED <<core, disk, logins, issued, pl, rm, boots, gone, calm>>
  BY DEF Enter
<1>2. RefreshFits(r) /\ rf[r] \in Refreshing
  BY Facts DEF CredInv, RefreshInv
<1>3. rf' = [rf EXCEPT ![r] = x]
  BY Facts DEF Enter
<1>4. /\ x \in Refreshing /\ x.pc = "lock" /\ x.auth = rf[r].auth
      /\ x.gen = auths[rf[r].auth].gen /\ rf[r].auth \in AuthIds
      /\ auths[rf[r].auth].gen \in Nat
  <2>1. rf[r].auth \in AuthIds /\ auths[rf[r].auth].gen \in Token
    BY <1>1, <1>2, Facts DEF RefreshFits, Auth
  <2>2. Token \subseteq Nat
    BY Facts DEF Token
  <2> QED
    BY <1>2, <2>1, <2>2 DEF Refreshing
<1> HIDE DEF x
<1>5. rf'[r] = x
  BY <1>3, Facts
<1>6. RefreshFits(r)'
  BY <1>1, <1>4, <1>5, Facts DEF RefreshFits, core, AuthIds
<1>7. CredTypeOK' /\ RefreshInv'
  BY <1>1, <1>3, <1>4, <1>6, RefresherMoves, Facts DEF CredTypeOK
<1>8. CalmInv'
  BY <1>1, <1>3, <1>4, <1>5, CalmRefreshers, Facts DEF core
<1> QED
  BY <1>7, <1>8 DEF CredInv

LEMMA LockKeeps ==
  ASSUME CredInv, NEW r \in Refresher, Lock(r)
  PROVE  CredInv'
<1> DEFINE i == rf[r].auth
<1>1. /\ rf[r].pc = "lock" /\ lock[i] = None
      /\ UNCHANGED <<auths, pool, disk, logins, issued, pl, rm, boots, gone, calm>>
  BY DEF Lock
<1>2. /\ RefreshFits(r) /\ rf[r] \in Refreshing /\ i \in AuthIds /\ rf[r].gen <= auths[i].gen
      /\ auths[i].gen \in Nat /\ rf[r].gen \in Nat
  <2>1. RefreshFits(r) /\ rf[r] \in Refreshing
    BY Facts DEF CredInv, RefreshInv
  <2>2. i \in AuthIds /\ rf[r].gen <= auths[i].gen
    BY <1>1, <2>1 DEF RefreshFits
  <2>3. auths[i].gen \in Token /\ rf[r].gen \in Token /\ Token \subseteq Nat
    BY <2>1, <2>2, Facts DEF Auth, Refreshing, Token
  <2> QED
    BY <2>1, <2>2, <2>3
<1>3. CASE auths[i].gen # rf[r].gen
  <2> DEFINE x == [rf[r] EXCEPT !.pc = "save"]
  <2>1. rf' = [rf EXCEPT ![r] = x] /\ UNCHANGED lock
    BY <1>3, Facts DEF Lock
  <2>2. x \in Refreshing /\ x.pc = "save" /\ x.auth = i /\ x.gen = rf[r].gen
    BY <1>2 DEF Refreshing
  <2> HIDE DEF x, i
  <2>3. rf'[r] = x
    BY <2>1, Facts
  <2>4. RefreshFits(r)'
    BY <1>1, <1>2, <1>3, <2>2, <2>3 DEF RefreshFits, AuthIds
  <2>5. CredTypeOK' /\ RefreshInv'
    BY <1>1, <2>1, <2>2, <2>4, RefresherMoves, Facts DEF CredTypeOK, core
  <2>6. CalmInv'
    BY <1>1, <2>1, <2>2, CalmRefreshers DEF core, i
  <2> QED
    BY <2>5, <2>6 DEF CredInv
<1>4. CASE auths[i].gen = rf[r].gen
  <2> DEFINE x == [rf[r] EXCEPT !.pc = "net"]
  <2>1. rf' = [rf EXCEPT ![r] = x] /\ lock' = [lock EXCEPT ![i] = r]
    BY <1>4, Facts DEF Lock
  <2>2. x \in Refreshing /\ x.pc = "net" /\ x.auth = i /\ x.gen = rf[r].gen
    BY <1>2 DEF Refreshing
  <2> HIDE DEF x, i
  <2>3. rf'[r] = x /\ \A q \in Refresher : q # r => rf'[q] = rf[q]
    BY <2>1, Facts
  <2>4. /\ lock' \in Seq(Refresher \cup {None}) /\ Len(lock') = Len(auths') /\ AuthIds' = AuthIds
        /\ lock'[i] = r /\ \A j \in AuthIds : j # i => lock'[j] = lock[j]
    BY <1>1, <1>2, <2>1, Facts, ExceptSeq DEF CredTypeOK, AuthIds
  <2>5. CredTypeOK'
    BY <1>1, <2>1, <2>2, <2>4, Facts DEF CredTypeOK, Refreshing, Ptr
  <2>6. ASSUME NEW q \in Refresher PROVE RefreshFits(q)'
    <3>1. CASE q = r
      BY <1>1, <1>2, <1>4, <2>2, <2>3, <2>4, <3>1 DEF RefreshFits
    <3>2. CASE q # r
      <4>1. RefreshFits(q) /\ rf'[q] = rf[q]
        BY <2>3, <3>2 DEF CredInv, RefreshInv
      <4>2. rf[q].pc \in {"net", "answer"} => rf[q].auth # i
        BY <1>1, <4>1, Facts DEF RefreshFits
      <4> QED
        BY <1>1, <2>4, <4>1, <4>2 DEF RefreshFits
    <3> QED
      BY <3>1, <3>2
  <2>7. ASSUME NEW j \in AuthIds' PROVE AuthFits(j)'
    <3>1. AuthFits(j) /\ j \in AuthIds
      BY <2>4 DEF CredInv, RefreshInv
    <3>2. CASE j = i
      BY <1>1, <2>2, <2>3, <2>4, <3>1, <3>2 DEF AuthFits
    <3>3. CASE j # i
      <4>1. lock'[j] = lock[j] /\ (lock[j] # None => lock[j] \in Refresher /\ lock[j] # r)
        BY <1>1, <2>4, <3>1, <3>3, Facts DEF AuthFits
      <4> QED
        BY <1>1, <2>3, <3>1, <4>1 DEF AuthFits
    <3> QED
      BY <3>2, <3>3
  <2>8. \A p \in Poll : PollFits(p)'
    BY <1>1, <2>4 DEF CredInv, RefreshInv, PollFits
  <2>9. CalmInv'
    BY <1>1, <2>1, <2>2, CalmRefreshers DEF i
  <2> QED
    BY <2>5, <2>6, <2>7, <2>8, <2>9 DEF CredInv, RefreshInv
<1> QED
  BY <1>3, <1>4

LEMMA UpstreamKeeps ==
  ASSUME CredInv, NEW r \in Refresher, Upstream(r)
  PROVE  CredInv'
<1> DEFINE i == rf[r].auth
           s == auths[i].session
<1>1. /\ rf[r].pc = "net" /\ UNCHANGED <<core, disk, logins, pl, rm, boots, gone, calm>>
  BY DEF Upstream
<1>2. /\ RefreshFits(r) /\ rf[r] \in Refreshing /\ i \in AuthIds /\ s \in Session
      /\ auths[i].gen <= issued[s] /\ issued[s] \in Nat /\ auths[i].gen \in Nat
  <2>1. RefreshFits(r) /\ rf[r] \in Refreshing
    BY Facts DEF CredInv, RefreshInv
  <2>2. i \in AuthIds
    BY <1>1, <2>1 DEF RefreshFits
  <2>3. s \in Session /\ auths[i].gen \in Token /\ Token \subseteq Nat
    BY <2>2, Facts DEF Auth, Token
  <2>4. AuthFits(i)
    BY <2>2 DEF CredInv, RefreshInv
  <2> QED
    BY <2>1, <2>2, <2>3, <2>4, Facts DEF AuthFits
<1>3. PICK n \in Token :
        /\ rf' = [rf EXCEPT ![r].pc = "answer", ![r].reply = n]
        /\ \/ n = 0 /\ UNCHANGED issued
           \/ issued[s] < MaxIssue /\ issued' = [issued EXCEPT ![s] = @ + 1]
  <2>1. CASE issued[s] < MaxIssue /\ issued' = [issued EXCEPT ![s] = @ + 1]
    <3>1. issued'[s] = issued[s] + 1 /\ issued[s] + 1 \in Token
      BY <1>2, <2>1, Facts DEF Token
    <3> QED
      BY <2>1, <3>1, Facts DEF Upstream
  <2> QED
    BY <2>1, Facts DEF Upstream
<1> HIDE DEF i, s
<1> DEFINE x == [rf[r] EXCEPT !.pc = "answer", !.reply = n]
<1>4. rf' = [rf EXCEPT ![r] = x]
  BY <1>3, Facts
<1>5. x \in Refreshing /\ x.pc = "answer" /\ x.auth = i /\ x.gen = rf[r].gen /\ x.reply = n
  BY <1>2 DEF Refreshing, i
<1> HIDE DEF x
<1>6. rf'[r] = x /\ \A q \in Refresher : q # r => rf'[q] = rf[q]
  BY <1>4, Facts
<1>7. /\ UNCHANGED <<auths, lock, pool>> /\ AuthIds' = AuthIds
  BY <1>1 DEF core, AuthIds
<1>8. /\ issued' \in [Session -> Token]
      /\ \A t \in Session : issued'[t] \in Nat /\ issued[t] \in Nat /\ issued'[t] >= issued[t]
      /\ n # 0 => issued'[s] = issued[s] + 1
  <2>1. issued \in [Session -> Token] /\ \A t \in Session : issued[t] \in Nat
    BY Facts DEF Token
  <2>2. CASE UNCHANGED issued /\ n = 0
    BY <2>1, <2>2
  <2>3. CASE issued[s] < MaxIssue /\ issued' = [issued EXCEPT ![s] = @ + 1]
    <3>1. issued[s] + 1 \in Token
      BY <1>2, <2>3, Facts DEF Token
    <3>2. issued' \in [Session -> Token] /\ issued'[s] = issued[s] + 1
      BY <1>2, <2>3, <3>1, Facts
    <3>3. \A t \in Session : t # s => issued'[t] = issued[t]
      BY <2>1, <2>3
    <3> QED
      BY <1>2, <2>1, <3>2, <3>3
  <2> QED
    BY <1>3, <2>2, <2>3
<1>9. CredTypeOK'
  BY <1>1, <1>4, <1>5, <1>7, <1>8, Facts DEF CredTypeOK, Refreshing, Ptr
<1>10. ASSUME NEW q \in Refresher PROVE RefreshFits(q)'
  <2>1. CASE q = r
    BY <1>1, <1>2, <1>5, <1>6, <1>7, <1>8, <2>1 DEF RefreshFits, i, s
  <2>2. CASE q # r
    <3>1. RefreshFits(q) /\ rf'[q] = rf[q]
      BY <1>6, <2>2 DEF CredInv, RefreshInv
    <3>2. rf[q].pc # "idle" =>
            /\ auths[rf[q].auth].session \in Session /\ auths[rf[q].auth].gen \in Nat
      BY <3>1, Facts DEF RefreshFits, Auth, Token
    <3> QED
      BY <1>7, <1>8, <3>1, <3>2 DEF RefreshFits
  <2> QED
    BY <2>1, <2>2
<1>11. ASSUME NEW j \in AuthIds' PROVE AuthFits(j)'
  <2>1. AuthFits(j) /\ j \in AuthIds
    BY <1>7 DEF CredInv, RefreshInv
  <2>2. auths[j].session \in Session /\ auths[j].gen \in Nat
    BY <2>1, Facts DEF Auth, Token
  <2>3. lock[j] # None => /\ rf'[lock[j]].auth = rf[lock[j]].auth
                          /\ rf'[lock[j]].pc \in {"net", "answer"}
    BY <1>5, <1>6, <2>1, Facts DEF AuthFits, i
  <2> QED
    BY <1>7, <1>8, <2>1, <2>2, <2>3 DEF AuthFits
<1>12. \A p \in Poll : PollFits(p)'
  BY <1>1, <1>7 DEF CredInv, RefreshInv, PollFits
<1>13. CalmInv'
  BY <1>1, <1>4, <1>5, <1>7, CalmRefreshers DEF i
<1> QED
  BY <1>9, <1>10, <1>11, <1>12, <1>13 DEF CredInv, RefreshInv

LEMMA CommitKeeps ==
  ASSUME CredInv, NEW r \in Refresher, Commit(r)
  PROVE  CredInv'
<1> DEFINE i == rf[r].auth
           a == [auths[i] EXCEPT !.token = rf[r].reply, !.gen = @ + 1]
           x == [rf[r] EXCEPT !.pc = "save", !.reply = 0]
<1>1. /\ rf[r].pc = "answer" /\ rf[r].reply # 0
      /\ UNCHANGED <<pool, disk, logins, issued, pl, rm, boots, gone, calm>>
  BY DEF Commit
<1>2. /\ rf[r] \in Refreshing /\ i \in AuthIds /\ auths[i] \in Auth /\ lock[i] = r
      /\ rf[r].gen = auths[i].gen /\ auths[i].gen < issued[auths[i].session]
      /\ auths[i].gen \in Nat /\ auths[i].gen + 1 \in Token /\ issued[auths[i].session] \in Nat
  <2>1. RefreshFits(r) /\ rf[r] \in Refreshing
    BY Facts DEF CredInv, RefreshInv
  <2>2. /\ i \in AuthIds /\ auths[i] \in Auth /\ lock[i] = r
        /\ rf[r].gen = auths[i].gen /\ auths[i].gen < issued[auths[i].session]
    BY <1>1, <2>1, Facts DEF RefreshFits
  <2>3. auths[i].gen \in Token /\ issued[auths[i].session] \in Token
    BY <2>2, Facts DEF Auth
  <2> QED
    BY <2>1, <2>2, <2>3, Facts DEF Token
<1>3. auths' = [auths EXCEPT ![i] = a] /\ lock' = [lock EXCEPT ![i] = None]
  <2>1. auths \in Seq(Auth)
    BY Facts DEF CredTypeOK
  <2> QED
    BY <2>1 DEF Commit
<1>4. rf' = [rf EXCEPT ![r] = x]
  BY Facts DEF Commit
<1>5. /\ a \in Auth /\ a.gen = auths[i].gen + 1 /\ a.session = auths[i].session
      /\ a.file = auths[i].file
  BY <1>2 DEF Auth, Refreshing
<1>6. x \in Refreshing /\ x.pc = "save" /\ x.auth = i /\ x.gen = rf[r].gen
  BY <1>2, Facts DEF Refreshing
<1> HIDE DEF a, x, i
<1>7. rf'[r] = x /\ \A q \in Refresher : q # r => rf'[q] = rf[q]
  BY <1>4, Facts
<1>8. /\ auths' \in Seq(Auth) /\ lock' \in Seq(Refresher \cup {None})
      /\ Len(auths') = Len(auths) /\ Len(lock') = Len(lock)
      /\ AuthIds' = AuthIds /\ auths'[i] = a /\ lock'[i] = None
      /\ \A j \in AuthIds : j # i => auths'[j] = auths[j] /\ lock'[j] = lock[j]
  <2>1. /\ auths' \in Seq(Auth) /\ Len(auths') = Len(auths) /\ auths'[i] = a
        /\ \A j \in AuthIds : j # i => auths'[j] = auths[j]
    BY <1>2, <1>3, <1>5, Facts, ExceptSeq DEF CredTypeOK, AuthIds
  <2>2. /\ lock' \in Seq(Refresher \cup {None}) /\ Len(lock') = Len(lock) /\ lock'[i] = None
        /\ \A j \in AuthIds : j # i => lock'[j] = lock[j]
    BY <1>2, <1>3, Facts, ExceptSeq DEF CredTypeOK, AuthIds
  <2> QED
    BY <2>1, <2>2 DEF AuthIds
<1>9. CredTypeOK'
  BY <1>1, <1>4, <1>6, <1>8, Facts DEF CredTypeOK, Refreshing, Ptr
<1>10. ASSUME NEW q \in Refresher PROVE RefreshFits(q)'
  <2>1. CASE q = r
    <3>1. rf'[q] = x /\ x.pc = "save" /\ x.auth = i /\ x.gen = rf[r].gen
      BY <1>6, <1>7, <2>1
    <3>2. i \in AuthIds' /\ auths'[i] = a
      BY <1>2, <1>8
    <3>3. rf[r].gen < a.gen
      BY <1>2, <1>5
    <3> QED
      BY <3>1, <3>2, <3>3 DEF RefreshFits
  <2>2. CASE q # r
    <3>1. RefreshFits(q) /\ rf'[q] = rf[q]
      BY <1>7, <2>2 DEF CredInv, RefreshInv
    <3>2. CASE rf[q].pc # "idle" /\ rf[q].auth = i
      <4>1. rf[q].gen \in Nat /\ rf[q].pc \notin {"net", "answer"}
        BY <1>2, <2>2, <3>1, <3>2, Facts DEF RefreshFits, Refreshing, Token
      <4> QED
        BY <1>2, <1>5, <1>8, <3>1, <3>2, <4>1 DEF RefreshFits
    <3>3. CASE rf[q].pc = "idle" \/ rf[q].auth # i
      BY <1>1, <1>8, <3>1, <3>3 DEF RefreshFits
    <3> QED
      BY <3>2, <3>3
  <2> QED
    BY <2>1, <2>2
<1>11. ASSUME NEW j \in AuthIds' PROVE AuthFits(j)'
  <2>1. AuthFits(j) /\ j \in AuthIds
    BY <1>8 DEF CredInv, RefreshInv
  <2>2. CASE j = i
    BY <1>1, <1>2, <1>5, <1>8, <2>2 DEF AuthFits
  <2>3. CASE j # i
    <3>1. lock[j] # None => lock[j] \in Refresher \ {r}
      BY <2>1, <2>3, Facts DEF AuthFits, i
    <3> QED
      BY <1>1, <1>7, <1>8, <2>1, <2>3, <3>1 DEF AuthFits
  <2> QED
    BY <2>2, <2>3
<1>12. \A p \in Poll : PollFits(p)'
  BY <1>1, <1>8 DEF CredInv, RefreshInv, PollFits
<1>13. CalmInv'
  <2> SUFFICES ASSUME calm PROVE Orderly' /\ FilesFit'
    BY <1>1 DEF CalmInv
  <2>1. Orderly /\ FilesFit
    BY DEF CredInv, CalmInv
  <2>2. Orderly'
    BY <1>1, <1>6, <1>7, <2>1 DEF Orderly, Working, LoggingIn, i
  <2>3. \A p \in Poll : pl[p].pc = "idle"
    BY <1>1, <2>1 DEF Orderly, Working, LoggingIn
  <2>4. pool # 0 => auths'[pool].file = auths[pool].file
    BY <1>5, <1>8, Facts
  <2>5. FilesFit'
    BY <1>1, <1>6, <1>7, <2>1, <2>3, <2>4 DEF FilesFit
  <2> QED
    BY <2>2, <2>5
<1> QED
  BY <1>9, <1>10, <1>11, <1>12, <1>13 DEF CredInv, RefreshInv

LEMMA FailKeeps ==
  ASSUME CredInv, NEW r \in Refresher, Fail(r)
  PROVE  CredInv'
<1> DEFINE i == rf[r].auth
<1>1. /\ rf[r].pc = "answer" /\ lock' = [lock EXCEPT ![i] = None]
      /\ UNCHANGED <<auths, pool, disk, logins, issued, pl, rm, boots, gone, calm>>
  BY DEF Fail
<1>2. /\ RefreshFits(r) /\ rf[r] \in Refreshing /\ i \in AuthIds
      /\ lock[i] = r /\ rf[r].gen = auths[i].gen
  BY <1>1, Facts DEF CredInv, RefreshInv, RefreshFits
<1>3. rf' = [rf EXCEPT ![r] = Idle]
  BY <1>2 DEF Fail
<1>4. Idle \in Refreshing /\ Idle.pc = "idle"
  BY Facts DEF Idle, Refreshing
<1> HIDE DEF i
<1>5. rf'[r] = Idle /\ \A q \in Refresher : q # r => rf'[q] = rf[q]
  BY <1>3, Facts
<1>6. /\ lock' \in Seq(Refresher \cup {None}) /\ Len(lock') = Len(lock) /\ AuthIds' = AuthIds
      /\ lock'[i] = None /\ \A j \in AuthIds : j # i => lock'[j] = lock[j]
  BY <1>1, <1>2, Facts, ExceptSeq DEF CredTypeOK, AuthIds
<1>7. CredTypeOK'
  BY <1>1, <1>3, <1>4, <1>6, Facts DEF CredTypeOK, Refreshing, Ptr
<1>8. ASSUME NEW q \in Refresher PROVE RefreshFits(q)'
  <2>1. CASE q = r
    BY <1>4, <1>5, <2>1 DEF RefreshFits
  <2>2. CASE q # r
    <3>1. RefreshFits(q) /\ rf'[q] = rf[q]
      BY <1>5, <2>2 DEF CredInv, RefreshInv
    <3> QED
      BY <1>1, <1>2, <1>6, <2>2, <3>1 DEF RefreshFits
  <2> QED
    BY <2>1, <2>2
<1>9. ASSUME NEW j \in AuthIds' PROVE AuthFits(j)'
  <2>1. AuthFits(j) /\ j \in AuthIds
    BY <1>6 DEF CredInv, RefreshInv
  <2>2. CASE j = i
    BY <1>1, <1>6, <2>1, <2>2 DEF AuthFits
  <2>3. CASE j # i
    <3>1. lock[j] # None => lock[j] \in Refresher \ {r}
      BY <2>1, <2>3, Facts DEF AuthFits, i
    <3> QED
      BY <1>1, <1>5, <1>6, <2>1, <2>3, <3>1 DEF AuthFits
  <2> QED
    BY <2>2, <2>3
<1>10. \A p \in Poll : PollFits(p)'
  BY <1>1, <1>6 DEF CredInv, RefreshInv, PollFits
<1>11. CalmInv'
  BY <1>1, <1>3, <1>4, CalmRefreshers
<1> QED
  BY <1>7, <1>8, <1>9, <1>10, <1>11 DEF CredInv, RefreshInv

LEMMA SaveKeeps ==
  ASSUME CredInv, NEW r \in Refresher, Save(r)
  PROVE  CredInv'
<1> DEFINE i == rf[r].auth
           c == Content(auths[i])
<1>1. /\ rf[r].pc = "save" /\ rf' = [rf EXCEPT ![r] = Idle]
      /\ UNCHANGED <<core, logins, issued, pl, rm, boots, gone>>
      /\ \/ disk' = [disk EXCEPT ![auths[i].file] = c] /\ UNCHANGED calm
         \/ UNCHANGED disk /\ calm' = FALSE
  BY DEF Save, Write
<1>2. i \in AuthIds /\ auths[i] \in Auth
  BY <1>1, Facts DEF CredInv, RefreshInv, RefreshFits
<1>3. c \in Stored /\ c # NoFile
  BY <1>2, ContentStored
<1>4. Idle \in Refreshing /\ Idle.pc = "idle"
  BY Facts DEF Idle, Refreshing
<1> HIDE DEF i, c
<1>5. rf'[r] = Idle /\ \A q \in Refresher : q # r => rf'[q] = rf[q]
  BY <1>1, Facts
<1>6. RefreshFits(r)'
  BY <1>4, <1>5 DEF RefreshFits
<1>7. disk' \in [File -> Stored \cup {NoFile}] /\ calm' \in BOOLEAN
  <2>1. auths[i].file \in File /\ disk \in [File -> Stored \cup {NoFile}] /\ calm \in BOOLEAN
    BY <1>2, Facts DEF CredTypeOK, Auth
  <2> QED
    BY <1>1, <1>3, <2>1
<1>8. CredTypeOK' /\ RefreshInv'
  BY <1>1, <1>4, <1>6, <1>7, RefresherMoves
<1>9. CalmInv'
  <2> SUFFICES ASSUME calm' PROVE Orderly' /\ FilesFit'
    BY DEF CalmInv
  <2>1. calm /\ disk' = [disk EXCEPT ![auths[i].file] = c]
    BY <1>1
  <2>2. Orderly /\ FilesFit /\ pool = i
    BY <1>1, <2>1 DEF CredInv, CalmInv, Orderly, i
  <2>3. UNCHANGED <<auths, pool, lock>>
    BY <1>1 DEF core
  <2>4. Orderly'
    BY <1>1, <1>4, <1>5, <2>2, <2>3 DEF Orderly, Working, LoggingIn
  <2>5. \A p \in Poll : pl[p].pc = "idle"
    BY <1>1, <2>2 DEF Orderly, Working, LoggingIn
  <2>6. auths[i].file \in File /\ auths[i].file # gone
    BY <1>2, <2>2, Facts DEF FilesFit, Auth, AuthIds, None, File, Site
  <2>7. Saved(pool)' /\ disk'[auths[pool].file] # NoFile
    BY <1>3, <2>1, <2>2, <2>3, <2>6, Facts DEF Saved, c
  <2>8. gone # None => disk'[gone] = NoFile
    BY <2>1, <2>2, <2>6, Facts DEF FilesFit, CredTypeOK
  <2>9. FilesFit'
    BY <1>1, <2>3, <2>5, <2>7, <2>8 DEF FilesFit
  <2> QED
    BY <2>4, <2>9
<1> QED
  BY <1>8, <1>9 DEF CredInv

-----------------------------------------------------------------------------
(* Logging in, action by action.                                            *)

LEMMA LoginStartKeeps ==
  ASSUME CredInv, NEW s \in 1 .. Logins, NEW site \in Site, LoginStart(s, site)
  PROVE  CredInv'
<1>1. UNCHANGED <<core, disk, issued, rf, pl, rm, boots, gone, calm>>
  BY DEF LoginStart
<1>2. UNCHANGED <<auths, pool, lock>>
  BY <1>1 DEF core
<1>3. logins' \in [1 .. Logins -> Site \cup {None, "gone"}]
  BY Facts DEF LoginStart, CredTypeOK
<1>4. CredTypeOK'
  BY <1>1, <1>2, <1>3, Facts DEF CredTypeOK, Ptr
<1>5. RefreshInv' /\ CalmInv'
  BY <1>1, <1>2
     DEF CredInv, RefreshInv, RefreshFits, AuthFits, PollFits, AuthIds,
         CalmInv, Orderly, FilesFit, Saved, Content, Working, LoggingIn
<1> QED
  BY <1>4, <1>5 DEF CredInv

\* A poll's move that leaves the Auth objects and the refreshers alone.
LEMMA PollMoves ==
  ASSUME CredInv, NEW p \in Poll, NEW x \in Polling, pl' = [pl EXCEPT ![p] = x],
         UNCHANGED <<auths, lock, issued, rf, rm, boots>>,
         pool' \in Ptr, disk' \in [File -> Stored \cup {NoFile}], calm' \in BOOLEAN,
         logins' \in [1 .. Logins -> Site \cup {None, "gone"}],
         gone' \in File \cup {None}, PollFits(p)'
  PROVE  /\ CredTypeOK' /\ RefreshInv'
         /\ pl'[p] = x /\ \A q \in Poll : q # p => pl'[q] = pl[q]
<1>1. pl'[p] = x /\ \A q \in Poll : q # p => pl'[q] = pl[q]
  BY Facts
<1>2. CredTypeOK'
  BY Facts DEF CredTypeOK, Ptr, Polling
<1>3. (\A r \in Refresher : RefreshFits(r)') /\ \A i \in AuthIds' : AuthFits(i)'
  BY DEF CredInv, RefreshInv, RefreshFits, AuthFits, AuthIds
<1>4. \A q \in Poll : PollFits(q)'
  BY <1>1 DEF CredInv, RefreshInv, PollFits, AuthIds
<1> QED
  BY <1>1, <1>2, <1>3, <1>4 DEF RefreshInv

LEMMA PollDoneKeeps ==
  ASSUME CredInv, NEW p \in Poll, NEW s \in 1 .. Logins, PollDone(p, s)
  PROVE  CredInv'
<1> DEFINE x == [Quiet EXCEPT !.pc = "check", !.state = s, !.site = logins[s]]
<1>1. /\ pl[p].pc = "idle" /\ logins[s] \in Site /\ pl' = [pl EXCEPT ![p] = x]
      /\ calm' = (calm /\ ~Working /\ ~Changing)
      /\ UNCHANGED <<core, disk, logins, issued, rf, rm, boots, gone>>
  BY DEF PollDone
<1>2. UNCHANGED <<auths, pool, lock>>
  BY <1>1 DEF core
<1>3. s \in Session
  BY CredAssumption DEF Session
<1>4. x \in Polling /\ x.pc = "check" /\ x.site \in Site
  BY <1>1, <1>3, Facts DEF Quiet, Polling
<1> HIDE DEF x
<1>5. PollFits(p)'
  <2>1. pl'[p] = x
    BY <1>1, Facts
  <2> QED
    BY <1>4, <2>1 DEF PollFits
<1>6. /\ CredTypeOK' /\ RefreshInv'
      /\ pl'[p] = x /\ \A q \in Poll : q # p => pl'[q] = pl[q]
  BY <1>1, <1>2, <1>4, <1>5, PollMoves, Facts DEF CredTypeOK
<1>7. CalmInv'
  <2> SUFFICES ASSUME calm' PROVE Orderly' /\ FilesFit'
    BY DEF CalmInv
  <2>1. Orderly /\ FilesFit /\ ~Working /\ ~LoggingIn /\ rm = None
    BY <1>1 DEF CredInv, CalmInv, Changing
  <2>2. Orderly'
    BY <1>1, <1>2, <1>6, <2>1 DEF Orderly, Working, LoggingIn
  <2>3. FilesFit'
    BY <1>1, <1>2, <1>4, <1>6, <2>1 DEF FilesFit, Saved, Content, LoggingIn
  <2> QED
    BY <2>2, <2>3
<1> QED
  BY <1>6, <1>7 DEF CredInv

\* Under calm the login at work is alone.
LEMMA AloneInCalm ==
  ASSUME CredInv, calm, NEW p \in Poll, pl[p].pc # "idle"
  PROVE  /\ Orderly /\ FilesFit /\ rm = None /\ ~Working
         /\ \A q \in Poll : q # p => pl[q].pc = "idle"
  BY DEF CredInv, CalmInv, Orderly, LoggingIn

LEMMA PollCheckKeeps ==
  ASSUME CredInv, NEW p \in Poll, PollCheck(p)
  PROVE  CredInv'
<1>1. pl[p].pc = "check" /\ UNCHANGED <<pool, disk, logins, issued, rf, rm, boots, gone, calm>>
  BY DEF PollCheck
<1>2. pl[p] \in Polling /\ pl[p].site \in Site
  BY <1>1, Facts DEF CredInv, RefreshInv, PollFits
<1>3. CASE pl' = [pl EXCEPT ![p] = Quiet] /\ UNCHANGED <<auths, lock>>
  <2>1. Quiet \in Polling /\ Quiet.pc = "idle"
    BY CredAssumption, Facts DEF Quiet, Polling, Session
  <2>2. PollFits(p)'
    <3>1. pl'[p] = Quiet
      BY <1>3, Facts
    <3> QED
      BY <2>1, <3>1 DEF PollFits
  <2>3. /\ CredTypeOK' /\ RefreshInv'
        /\ pl'[p] = Quiet /\ \A q \in Poll : q # p => pl'[q] = pl[q]
    BY <1>1, <1>3, <2>1, <2>2, PollMoves, Facts DEF CredTypeOK
  <2>4. CalmInv'
    <3> SUFFICES ASSUME calm PROVE Orderly' /\ FilesFit'
      BY <1>1 DEF CalmInv
    <3>1. /\ Orderly /\ FilesFit /\ rm = None /\ ~Working
          /\ \A q \in Poll : q # p => pl[q].pc = "idle"
      BY <1>1, AloneInCalm
    <3>2. Orderly'
      BY <1>1, <1>3, <2>1, <2>3, <3>1 DEF Orderly, Working, LoggingIn
    <3>3. FilesFit'
      BY <1>1, <1>3, <2>1, <2>3, <3>1 DEF FilesFit, Saved, Content
    <3> QED
      BY <3>2, <3>3
  <2> QED
    BY <2>3, <2>4 DEF CredInv
<1>4. ASSUME NEW a, NEW n,
             a = [file |-> pl[p].site, session |-> pl[p].state, token |-> 0, gen |-> 0],
             n = Len(auths) + 1,
             auths' = Append(auths, a), lock' = Append(lock, None),
             pl' = [pl EXCEPT ![p].pc = "save", ![p].auth = n]
      PROVE  CredInv'
  <2> DEFINE x == [pl[p] EXCEPT !.pc = "save", !.auth = n]
  <2>1. a \in Auth /\ a.gen = 0 /\ a.session \in Session
    BY <1>2, <1>4, Facts DEF Auth, File, Polling
  <2>2. /\ auths' \in Seq(Auth) /\ lock' \in Seq(Refresher \cup {None})
        /\ Len(auths') = n /\ Len(lock') = n /\ auths'[n] = a /\ lock'[n] = None
        /\ \A i \in AuthIds : auths'[i] = auths[i] /\ lock'[i] = lock[i]
        /\ AuthIds' = AuthIds \cup {n} /\ Ptr \subseteq Ptr' /\ n \in Ptr' /\ n \notin AuthIds
    BY <1>4, <2>1, Facts DEF CredTypeOK, AuthIds, Ptr
  <2>3. pl' = [pl EXCEPT ![p] = x]
    BY <1>4, Facts
  <2>4. x.pc = "save" /\ x.auth = n /\ x.state = pl[p].state /\ x.site = pl[p].site
    BY <1>2 DEF Polling
  <2>5. x \in [pc : {"idle", "check", "save", "add", "finish"},
               state : Session, site : Site \cup {None}, auth : Ptr']
    BY <1>2, <2>2 DEF Polling
  <2> HIDE DEF x
  <2>6. pl'[p] = x /\ \A q \in Poll : q # p => pl'[q] = pl[q]
    BY <2>3, Facts
  <2>7. CredTypeOK'
    <3>1. pl' \in [Poll -> [pc : {"idle", "check", "save", "add", "finish"},
                            state : Session, site : Site \cup {None}, auth : Ptr']]
      <4>1. ASSUME NEW q \in Poll
            PROVE  pl[q] \in [pc : {"idle", "check", "save", "add", "finish"},
                              state : Session, site : Site \cup {None}, auth : Ptr']
        BY <2>2, Facts DEF Polling
      <4> QED
        BY <2>3, <2>5, <4>1, Facts
    <3>2. rf' \in [Refresher -> [pc : {"idle", "enter", "lock", "net", "answer", "save"},
                                 auth : Ptr', gen : Token, reply : Token]]
      <4>1. ASSUME NEW q \in Refresher
            PROVE  rf[q] \in [pc : {"idle", "enter", "lock", "net", "answer", "save"},
                              auth : Ptr', gen : Token, reply : Token]
        BY <2>2, Facts DEF Refreshing
      <4> QED
        BY <1>1, <4>1, Facts
    <3> QED
      BY <1>1, <2>2, <3>1, <3>2, Facts DEF CredTypeOK
  <2>8. ASSUME NEW r \in Refresher PROVE RefreshFits(r)'
    <3>1. RefreshFits(r) /\ rf'[r] = rf[r]
      BY <1>1 DEF CredInv, RefreshInv
    <3> QED
      BY <1>1, <2>2, <3>1 DEF RefreshFits
  <2>9. ASSUME NEW i \in AuthIds' PROVE AuthFits(i)'
    <3>1. CASE i = n
      <4>1. issued[a.session] \in Nat
        BY <2>1, Facts DEF Token
      <4> QED
        BY <1>1, <2>1, <2>2, <3>1, <4>1 DEF AuthFits
    <3>2. CASE i # n
      <4>1. AuthFits(i) /\ i \in AuthIds
        BY <2>2, <3>2 DEF CredInv, RefreshInv
      <4> QED
        BY <1>1, <2>2, <4>1 DEF AuthFits
    <3> QED
      BY <3>1, <3>2
  <2>10. ASSUME NEW q \in Poll PROVE PollFits(q)'
    <3>1. PollFits(q)
      BY DEF CredInv, RefreshInv
    <3> QED
      BY <2>2, <2>4, <2>6, <3>1 DEF PollFits
  <2>11. CalmInv'
    <3> SUFFICES ASSUME calm PROVE Orderly' /\ FilesFit'
      BY <1>1 DEF CalmInv
    <3>1. /\ Orderly /\ FilesFit /\ rm = None /\ ~Working
          /\ \A q \in Poll : q # p => pl[q].pc = "idle"
      BY <1>1, AloneInCalm
    <3>2. Orderly'
      BY <1>1, <2>4, <2>6, <3>1 DEF Orderly, Working, LoggingIn
    <3>3. pool # 0 => auths'[pool] = auths[pool]
      BY <2>2, Facts
    <3>4. FilesFit'
      BY <1>1, <2>4, <2>6, <3>1, <3>3 DEF FilesFit, Saved
    <3> QED
      BY <3>2, <3>4
  <2> QED
    BY <2>7, <2>8, <2>9, <2>10, <2>11 DEF CredInv, RefreshInv
<1> QED
  BY <1>3, <1>4 DEF PollCheck

LEMMA PollSaveKeeps ==
  ASSUME CredInv, NEW p \in Poll, PollSave(p)
  PROVE  CredInv'
<1>0. PICK i, c : i = pl[p].auth /\ c = Content(auths[i])
  OBVIOUS
<1>1. /\ pl[p].pc = "save" /\ UNCHANGED <<core, logins, issued, rf, rm, boots>>
      /\ \/ /\ disk' = [disk EXCEPT ![auths[i].file] = c]
            /\ gone' = None /\ pl' = [pl EXCEPT ![p].pc = "add"] /\ UNCHANGED calm
         \/ pl' = [pl EXCEPT ![p] = Quiet] /\ calm' = FALSE /\ UNCHANGED <<disk, gone>>
  BY <1>0 DEF PollSave, Write
<1>2. i \in AuthIds /\ auths[i] \in Auth /\ pl[p] \in Polling
  BY <1>0, <1>1, Facts DEF CredInv, RefreshInv, PollFits
<1>3. c \in Stored /\ c # NoFile /\ auths[i].file \in File
  BY <1>0, <1>2, ContentStored DEF Auth
<1>4. UNCHANGED <<auths, pool, lock>>
  BY <1>1 DEF core
<1>5. CASE pl' = [pl EXCEPT ![p] = Quiet] /\ calm' = FALSE /\ UNCHANGED <<disk, gone>>
  <2>1. Quiet \in Polling /\ Quiet.pc = "idle"
    BY CredAssumption, Facts DEF Quiet, Polling, Session
  <2>2. PollFits(p)'
    <3>1. pl'[p] = Quiet
      BY <1>5, Facts
    <3> QED
      BY <2>1, <3>1 DEF PollFits
  <2>3. CredTypeOK' /\ RefreshInv'
    BY <1>1, <1>4, <1>5, <2>1, <2>2, PollMoves, Facts DEF CredTypeOK
  <2> QED
    BY <1>5, <2>3 DEF CredInv, CalmInv
<1>6. CASE /\ disk' = [disk EXCEPT ![auths[i].file] = c]
           /\ gone' = None /\ pl' = [pl EXCEPT ![p].pc = "add"] /\ UNCHANGED calm
  <2> DEFINE x == [pl[p] EXCEPT !.pc = "add"]
  <2>1. x \in Polling /\ x.pc = "add" /\ x.auth = i
    BY <1>0, <1>2 DEF Polling
  <2>2. pl' = [pl EXCEPT ![p] = x]
    BY <1>6, Facts
  <2> HIDE DEF x
  <2>3. PollFits(p)'
    <3>1. pl'[p] = x
      BY <2>2, Facts
    <3> QED
      BY <1>2, <1>4, <2>1, <3>1 DEF PollFits, AuthIds
  <2>4. disk' \in [File -> Stored \cup {NoFile}] /\ gone' \in File \cup {None}
    BY <1>3, <1>6, Facts
  <2>5. /\ CredTypeOK' /\ RefreshInv'
        /\ pl'[p] = x /\ \A q \in Poll : q # p => pl'[q] = pl[q]
    BY <1>1, <1>4, <1>6, <2>1, <2>2, <2>3, <2>4, PollMoves, Facts DEF CredTypeOK
  <2>6. CalmInv'
    <3> SUFFICES ASSUME calm PROVE Orderly' /\ FilesFit'
      BY <1>6 DEF CalmInv
    <3>1. /\ Orderly /\ FilesFit /\ rm = None /\ ~Working
          /\ \A q \in Poll : q # p => pl[q].pc = "idle"
      BY <1>1, AloneInCalm
    <3>2. Orderly'
      BY <1>1, <1>4, <2>1, <2>5, <3>1 DEF Orderly, Working, LoggingIn
    <3>3. Saved(i)'
      BY <1>0, <1>3, <1>4, <1>6, Facts DEF Saved, Content
    <3>4. pool # 0 => disk'[auths[pool].file] # NoFile
      BY <1>3, <1>6, <3>1, Facts DEF FilesFit, CredTypeOK
    <3>5. \/ pool = 0 \/ Saved(pool)'
          \/ auths[i].file = auths[pool].file
      <4>1. (pool = 0 \/ Saved(pool))
        BY <1>1, <3>1 DEF FilesFit, Working
      <4> QED
        BY <1>3, <1>4, <1>6, <4>1, Facts DEF Saved, Content
    <3>6. FilesFit'
      BY <1>1, <1>4, <1>6, <2>1, <2>5, <3>1, <3>3, <3>4, <3>5 DEF FilesFit
    <3> QED
      BY <3>2, <3>6
  <2> QED
    BY <2>5, <2>6 DEF CredInv
<1> QED
  BY <1>1, <1>5, <1>6

LEMMA PollAddKeeps ==
  ASSUME CredInv, NEW p \in Poll, PollAdd(p)
  PROVE  CredInv'
<1> DEFINE i == pl[p].auth
           x == [pl[p] EXCEPT !.pc = "finish"]
<1>1. /\ pl[p].pc = "add" /\ pl' = [pl EXCEPT ![p].pc = "finish"]
      /\ pool' = IF pool = 0 \/ SiteOf(auths[pool].file) = SiteOf(auths[i].file) THEN i ELSE pool
      /\ UNCHANGED <<auths, lock, disk, logins, issued, rf, rm, boots, gone, calm>>
  BY DEF PollAdd, Upsert
<1>2. i \in AuthIds /\ auths[i] \in Auth /\ pl[p] \in Polling
  BY <1>1, Facts DEF CredInv, RefreshInv, PollFits
<1>3. x \in Polling /\ x.pc = "finish" /\ x.auth = i
  BY <1>2 DEF Polling
<1>4. pl' = [pl EXCEPT ![p] = x]
  BY <1>1, Facts
<1> HIDE DEF x, i
<1>5. PollFits(p)'
  <2>1. pl'[p] = x
    BY <1>4, Facts
  <2> QED
    BY <1>1, <1>2, <1>3, <2>1 DEF PollFits, AuthIds
<1>6. pool' \in Ptr
  BY <1>1, <1>2, Facts
<1>7. /\ CredTypeOK' /\ RefreshInv'
      /\ pl'[p] = x /\ \A q \in Poll : q # p => pl'[q] = pl[q]
  BY <1>1, <1>3, <1>4, <1>5, <1>6, PollMoves, Facts DEF CredTypeOK
<1>8. CalmInv'
  <2> SUFFICES ASSUME calm PROVE Orderly' /\ FilesFit'
    BY <1>1 DEF CalmInv
  <2>1. /\ Orderly /\ FilesFit /\ rm = None /\ ~Working
        /\ \A q \in Poll : q # p => pl[q].pc = "idle"
    BY <1>1, AloneInCalm
  <2>2. Orderly'
    BY <1>1, <1>3, <1>7, <2>1 DEF Orderly, Working, LoggingIn
  <2>3. Saved(i) /\ disk[auths[i].file] # NoFile
    BY <1>1, <1>2, <2>1, ContentStored DEF FilesFit, Saved, i
  <2>4. pool' # 0 => Saved(pool') /\ disk[auths[pool'].file] # NoFile
    <3>1. CASE pool' = i
      BY <2>3, <3>1
    <3>2. CASE pool' # i
      <4>1. pool' = pool /\ (pool # 0 => auths[pool].file # auths[i].file)
        BY <1>1, <3>2
      <4>2. pool = 0 \/ Saved(pool)
        BY <1>1, <2>1, <4>1 DEF FilesFit, Working, i
      <4> QED
        BY <2>1, <4>1, <4>2 DEF FilesFit
    <3> QED
      BY <3>1, <3>2
  <2>5. FilesFit'
    BY <1>1, <1>3, <1>7, <2>1, <2>4 DEF FilesFit, Saved, Content
  <2> QED
    BY <2>2, <2>5
<1> QED
  BY <1>7, <1>8 DEF CredInv

LEMMA PollFinishKeeps ==
  ASSUME CredInv, NEW p \in Poll, PollFinish(p)
  PROVE  CredInv'
<1>1. /\ pl[p].pc = "finish" /\ pl' = [pl EXCEPT ![p] = Quiet]
      /\ logins' = [logins EXCEPT ![pl[p].state] = "gone"]
      /\ UNCHANGED <<core, disk, issued, rf, rm, boots, gone, calm>>
  BY DEF PollFinish
<1>2. UNCHANGED <<auths, pool, lock>>
  BY <1>1 DEF core
<1>3. Quiet \in Polling /\ Quiet.pc = "idle"
  BY CredAssumption, Facts DEF Quiet, Polling, Session
<1>4. logins' \in [1 .. Logins -> Site \cup {None, "gone"}]
  BY <1>1, Facts DEF CredTypeOK
<1>5. PollFits(p)'
  <2>1. pl'[p] = Quiet
    BY <1>1, Facts
  <2> QED
    BY <1>3, <2>1 DEF PollFits
<1>6. /\ CredTypeOK' /\ RefreshInv'
      /\ pl'[p] = Quiet /\ \A q \in Poll : q # p => pl'[q] = pl[q]
  BY <1>1, <1>2, <1>3, <1>4, <1>5, PollMoves, Facts DEF CredTypeOK
<1>7. CalmInv'
  <2> SUFFICES ASSUME calm PROVE Orderly' /\ FilesFit'
    BY <1>1 DEF CalmInv
  <2>1. /\ Orderly /\ FilesFit /\ rm = None /\ ~Working
        /\ \A q \in Poll : q # p => pl[q].pc = "idle"
    BY <1>1, AloneInCalm
  <2>2. Orderly'
    BY <1>1, <1>2, <1>3, <1>6, <2>1 DEF Orderly, Working, LoggingIn
  <2>3. FilesFit'
    BY <1>1, <1>2, <1>3, <1>6, <2>1 DEF FilesFit, Saved, Content
  <2> QED
    BY <2>2, <2>3
<1> QED
  BY <1>6, <1>7 DEF CredInv

-----------------------------------------------------------------------------
(* Removal and restart.                                                     *)

LEMMA AccountRemoveKeeps ==
  ASSUME CredInv, AccountRemove
  PROVE  CredInv'
<1>1. /\ UNCHANGED <<auths, lock, logins, issued, rf, pl, boots>>
      /\ \/ /\ rm = None /\ pool # 0 /\ pool' = 0 /\ rm' = auths[pool].file
            /\ calm' = (calm /\ ~Working /\ ~Changing) /\ UNCHANGED <<disk, gone>>
         \/ /\ rm # None /\ rm' = None /\ UNCHANGED pool
            /\ \/ disk' = [disk EXCEPT ![rm] = NoFile] /\ gone' = rm /\ UNCHANGED calm
               \/ UNCHANGED <<disk, gone>> /\ calm' = FALSE
  BY DEF AccountRemove, RemovalStep, PoolRemove, Unlink, core
<1>2. pool # 0 => auths[pool].file \in File
  BY Facts DEF Auth
<1>3. CredTypeOK'
  <2>1. pool' \in Ptr /\ rm' \in File \cup {None} /\ gone' \in File \cup {None}
        /\ calm' \in BOOLEAN /\ disk' \in [File -> Stored \cup {NoFile}]
    BY <1>1, <1>2, Facts DEF CredTypeOK
  <2> QED
    BY <1>1, <2>1, Facts DEF CredTypeOK, Ptr
<1>4. RefreshInv'
  BY <1>1 DEF CredInv, RefreshInv, RefreshFits, AuthFits, PollFits, AuthIds
<1>5. CalmInv'
  <2> SUFFICES ASSUME calm' PROVE Orderly' /\ FilesFit'
    BY DEF CalmInv
  <2>1. calm /\ Orderly /\ FilesFit
    BY <1>1 DEF CredInv, CalmInv
  <2>2. CASE rm = None
    <3>1. ~Working /\ ~LoggingIn /\ pool' = 0 /\ UNCHANGED <<disk, gone>>
      BY <1>1, <2>2 DEF Changing
    <3>2. Orderly'
      BY <1>1, <2>1, <3>1 DEF Orderly, Working, LoggingIn
    <3>3. FilesFit'
      BY <1>1, <2>1, <3>1 DEF FilesFit, Saved, Content
    <3> QED
      BY <3>2, <3>3
  <2>3. CASE rm # None
    <3>1. /\ ~Working /\ ~LoggingIn /\ pool' = 0 /\ pool = 0 /\ rm' = None
          /\ disk' = [disk EXCEPT ![rm] = NoFile] /\ gone' = rm /\ rm \in File
      BY <1>1, <2>1, <2>3, Facts DEF Orderly, CredTypeOK
    <3>2. Orderly'
      BY <1>1, <2>1, <3>1 DEF Orderly, Working, LoggingIn
    <3>3. disk'[gone'] = NoFile
      BY <3>1, Facts
    <3>4. FilesFit'
      BY <1>1, <2>1, <3>1, <3>3 DEF FilesFit, LoggingIn
    <3> QED
      BY <3>2, <3>4
  <2> QED
    BY <2>2, <2>3
<1> QED
  BY <1>3, <1>4, <1>5 DEF CredInv

\* An Auth read from a file that is there.
LEMMA ParsedIsAuth ==
  ASSUME NEW f \in File, disk[f] \in Stored, 0 \in Token
  PROVE  /\ Parsed(f) \in Auth /\ Parsed(f).gen = 0 /\ Parsed(f).file = f
         /\ Content(Parsed(f)) = disk[f]
<1>1. /\ disk[f] = [session |-> disk[f].session, token |-> disk[f].token]
      /\ disk[f].session \in Session /\ disk[f].token \in Token
  BY DEF Stored
<1>2. Parsed(f) \in Auth /\ Parsed(f).gen = 0 /\ Parsed(f).file = f
  BY <1>1 DEF Parsed, Auth
<1>3. Content(Parsed(f)) = [session |-> disk[f].session, token |-> disk[f].token]
  BY DEF Parsed, Content
<1> QED
  BY <1>1, <1>2, <1>3

\* Nothing is under way, and the pool has at most what it has read.
Rested ==
  /\ rf = [r \in Refresher |-> Idle] /\ pl = [p \in Poll |-> Quiet] /\ rm = None
  /\ \/ auths = <<>> /\ lock = <<>> /\ pool = 0
     \/ /\ Len(auths) = 1 /\ lock = <<None>> /\ pool = 1
        /\ auths[1].gen = 0 /\ Saved(1) /\ disk[auths[1].file] # NoFile

LEMMA RestedFits ==
  CredTypeOK /\ Rested =>
    RefreshInv /\ Orderly /\ ((gone # None => disk[gone] = NoFile) => FilesFit)
<1> SUFFICES ASSUME CredTypeOK, Rested
             PROVE  /\ RefreshInv /\ Orderly
                    /\ (gone # None => disk[gone] = NoFile) => FilesFit
  OBVIOUS
<1>1. /\ \A r \in Refresher : rf[r].pc = "idle"
      /\ \A p \in Poll : pl[p].pc = "idle"
  BY DEF Rested, Idle, Quiet
<1>2. \A i \in AuthIds : i = 1 /\ pool = 1
  <2>1. CASE auths = <<>>
    <3>1. Len(auths) = 0
      BY <2>1
    <3> QED
      BY <3>1 DEF AuthIds
  <2>2. CASE Len(auths) = 1 /\ pool = 1
    BY <2>2 DEF AuthIds
  <2> QED
    BY <2>1, <2>2 DEF Rested
<1>3. ASSUME NEW i \in AuthIds PROVE AuthFits(i)
  <2>1. i = 1 /\ auths[1].gen = 0 /\ lock[1] = None
    BY <1>2, <1>3 DEF Rested
  <2>2. auths[1] \in Auth
    BY <1>3, <2>1, ElementOfSeq DEF CredTypeOK, AuthIds
  <2>3. issued[auths[1].session] \in Nat
    BY <2>2 DEF Auth, CredTypeOK, Token
  <2> QED
    BY <2>1, <2>3 DEF AuthFits
<1>4. RefreshInv
  BY <1>1, <1>3 DEF RefreshInv, RefreshFits, PollFits
<1>5. Orderly /\ ((gone # None => disk[gone] = NoFile) => FilesFit)
  BY <1>1 DEF Rested, Orderly, FilesFit, Working, LoggingIn
<1> QED
  BY <1>4, <1>5

LEMMA RestartKeeps ==
  ASSUME CredInv, Restart
  PROVE  CredInv'
<1>1. /\ boots < MaxBoots /\ boots' = boots + 1 /\ Boot
      /\ rf' = [r \in Refresher |-> Idle] /\ pl' = [p \in Poll |-> Quiet] /\ rm' = None
      /\ logins' = [s \in 1 .. Logins |-> IF logins[s] = None THEN None ELSE "gone"]
      /\ calm' = (calm /\ ~Changing)
      /\ UNCHANGED <<disk, issued, gone>>
  BY DEF Restart
<1> DEFINE Read == /\ auths' \in Seq(Auth) /\ lock' \in Seq(Refresher \cup {None})
                   /\ Len(lock') = Len(auths') /\ pool' \in 0 .. Len(auths') /\ Rested'
<1>2. ASSUME auths' = <<>>, lock' = <<>>, pool' = 0 PROVE Read
  BY <1>1, <1>2 DEF Rested
<1>3. ASSUME NEW f \in LoadDir, auths' = <<Parsed(f)>>, lock' = <<None>>, pool' = 1
      PROVE  Read
  <2>1. f \in File /\ disk[f] \in Stored /\ disk[f] # NoFile
    BY <1>3, Facts DEF LoadDir
  <2>2. /\ Parsed(f) \in Auth /\ Parsed(f).gen = 0 /\ Parsed(f).file = f
        /\ Content(Parsed(f)) = disk[f]
    BY <2>1, ParsedIsAuth, Facts
  <2>3. PICK a \in Auth : a = Parsed(f)
    BY <2>2
  <2>4. /\ auths' = <<a>> /\ Len(auths') = 1 /\ auths'[1] = a /\ disk' = disk
        /\ a.gen = 0 /\ a.file = f /\ Content(a) = disk[f]
    BY <1>1, <1>3, <2>2, <2>3
  <2>5. Saved(1)' /\ disk'[auths'[1].file] # NoFile
    BY <2>1, <2>4 DEF Saved, Content
  <2>6. auths' \in Seq(Auth) /\ lock' \in Seq(Refresher \cup {None}) /\ Len(lock') = 1
    BY <1>3, <2>4
  <2> QED
    BY <1>1, <1>3, <2>4, <2>5, <2>6 DEF Rested
<1>4. Read
  <2>1. SyncToDir(LoadDir) \subseteq LoadDir
    BY DEF SyncToDir
  <2> QED
    BY <1>1, <1>2, <1>3, <2>1 DEF Boot
<1>5. CredTypeOK'
  <2>1. 0 \in Session
    BY CredAssumption DEF Session
  <2>2. boots' \in 0 .. MaxBoots
    BY <1>1, CredAssumption, Facts DEF CredTypeOK
  <2>3. logins' \in [1 .. Logins -> Site \cup {None, "gone"}]
    BY <1>1
  <2>4. /\ Idle \in [pc : {"idle", "enter", "lock", "net", "answer", "save"},
                     auth : Ptr', gen : Token, reply : Token]
        /\ Quiet \in [pc : {"idle", "check", "save", "add", "finish"},
                      state : Session, site : Site \cup {None}, auth : Ptr']
    BY <1>4, <2>1, Facts DEF Idle, Quiet, Ptr
  <2>5. calm' \in BOOLEAN /\ disk' \in [File -> Stored \cup {NoFile}] /\ issued' \in [Session -> Token]
        /\ rm' \in File \cup {None} /\ gone' \in File \cup {None} /\ pool' \in Ptr'
    BY <1>1, <1>4, Facts DEF CredTypeOK, Ptr
  <2> HIDE DEF Read
  <2> QED
    BY <1>1, <1>4, <2>2, <2>3, <2>4, <2>5 DEF CredTypeOK, Read
<1>6. /\ RefreshInv' /\ Orderly'
      /\ (gone' # None => disk'[gone'] = NoFile) => FilesFit'
  <2>1. (CredTypeOK /\ Rested)'
    BY <1>4, <1>5
  <2>2. (RefreshInv /\ Orderly /\ ((gone # None => disk[gone] = NoFile) => FilesFit))'
    BY <2>1, RestedFits, PTL
  <2> QED
    BY <2>2
<1>7. CalmInv'
  BY <1>1, <1>6 DEF CredInv, CalmInv, FilesFit
<1> QED
  BY <1>5, <1>6, <1>7 DEF CredInv

LEMMA CredInitInv == CredInit => CredInv
<1> SUFFICES ASSUME CredInit PROVE CredInv
  OBVIOUS
<1>1. /\ rf = [r \in Refresher |-> Idle] /\ pl = [p \in Poll |-> Quiet] /\ rm = None
      /\ gone = None /\ calm = TRUE /\ boots = 0
      /\ logins = [s \in 1 .. Logins |-> None] /\ issued = [s \in Session |-> 0]
  BY DEF CredInit
<1>2. 0 \in Session /\ 0 \in Token /\ boots \in 0 .. MaxBoots /\ First \in Stored
      /\ First # NoFile
  <2>1. First.session = 0 /\ NoFile.session = -1
    BY DEF First, NoFile
  <2> QED
    BY <1>1, <2>1, CredAssumption DEF Session, Token, First, Stored
<1> DEFINE Read == /\ auths \in Seq(Auth) /\ lock \in Seq(Refresher \cup {None})
                   /\ Len(lock) = Len(auths) /\ pool \in 0 .. Len(auths)
                   /\ disk \in [File -> Stored \cup {NoFile}] /\ Rested
<1>3. ASSUME disk = [g \in File |-> NoFile], auths = <<>>, lock = <<>>, pool = 0 PROVE Read
  BY <1>1, <1>3 DEF Rested
<1>4. ASSUME NEW f \in FirstFiles, disk = [g \in File |-> IF g = f THEN First ELSE NoFile],
             auths = <<Parsed(f)>>, lock = <<None>>, pool = 1
      PROVE  Read
  <2>1. f \in File /\ disk[f] = First
    BY <1>4, CredAssumption DEF File, Site
  <2>2. /\ Parsed(f) \in Auth /\ Parsed(f).gen = 0 /\ Parsed(f).file = f
        /\ Content(Parsed(f)) = disk[f]
    BY <1>2, <2>1, ParsedIsAuth
  <2>3. PICK a \in Auth : a = Parsed(f)
    BY <2>2
  <2>4. /\ auths = <<a>> /\ Len(auths) = 1 /\ auths[1] = a
        /\ a.gen = 0 /\ a.file = f /\ Content(a) = disk[f]
    BY <1>4, <2>2, <2>3
  <2>5. Saved(1) /\ disk[auths[1].file] # NoFile
    BY <1>2, <2>1, <2>4 DEF Saved
  <2>6. auths \in Seq(Auth) /\ lock \in Seq(Refresher \cup {None}) /\ Len(lock) = 1
    BY <1>4, <2>4
  <2>7. disk \in [File -> Stored \cup {NoFile}]
    BY <1>2, <1>4
  <2> QED
    BY <1>1, <1>4, <2>4, <2>5, <2>6, <2>7 DEF Rested
<1>5. Read
  BY <1>3, <1>4 DEF CredInit
<1>6. CredTypeOK
  <2>1. /\ Idle \in [pc : {"idle", "enter", "lock", "net", "answer", "save"},
                     auth : Ptr, gen : Token, reply : Token]
        /\ Quiet \in [pc : {"idle", "check", "save", "add", "finish"},
                      state : Session, site : Site \cup {None}, auth : Ptr]
    BY <1>2, <1>5 DEF Idle, Quiet, Ptr
  <2> HIDE DEF Read
  <2> QED
    BY <1>1, <1>2, <1>5, <2>1 DEF CredTypeOK, Read, Ptr
<1>7. RefreshInv /\ Orderly /\ FilesFit
  BY <1>1, <1>5, <1>6, RestedFits
<1> QED
  BY <1>6, <1>7 DEF CredInv, CalmInv

LEMMA CredStepInv == CredInv /\ [CredNext]_vars => CredInv'
<1> SUFFICES ASSUME CredInv, [CredNext]_vars PROVE CredInv'
  OBVIOUS
<1>1. CASE UNCHANGED vars
  BY <1>1
     DEF vars, core, CredInv, CredTypeOK, Ptr, RefreshInv, RefreshFits, AuthFits, PollFits, AuthIds,
         CalmInv, Orderly, FilesFit, Saved, Content, Working, LoggingIn
<1>2. CASE CredNext
  BY <1>2, BeginKeeps, EnterKeeps, LockKeeps, UpstreamKeeps, CommitKeeps, FailKeeps, SaveKeeps,
     LoginStartKeeps, PollDoneKeeps, PollCheckKeeps, PollSaveKeeps, PollAddKeeps,
     PollFinishKeeps, AccountRemoveKeeps, RestartKeeps
     DEF CredNext, PollStep
<1> QED
  BY <1>1, <1>2

LEMMA CredInvariance == CredSpec => []CredInv
<1> QED
  BY CredInitInv, CredStepInv, PTL DEF CredSpec

-----------------------------------------------------------------------------
\* RefreshToken: one refresh of an Auth at a time, with the refresh token it has;
\* nil means newer tokens than those found due.
THEOREM RefreshesAreCurrent == CredSpec => []OneCurrentRefresh
<1>1. ASSUME CredInv PROVE OneCurrentRefresh
  <2>1. \A i \in 1 .. Len(auths) : lock[i] # None => rf[lock[i]].pc \in {"net", "answer"}
    BY <1>1 DEF CredInv, RefreshInv, AuthFits, AuthIds
  <2>2. \A r \in Refresher : rf[r].pc \in {"net", "answer"} =>
          lock[rf[r].auth] = r /\ rf[r].gen = auths[rf[r].auth].gen
    BY <1>1 DEF CredInv, RefreshInv, RefreshFits
  <2>3. ASSUME NEW r \in Refresher, rf[r].pc = "save"
        PROVE  auths[rf[r].auth].gen > rf[r].gen
    <3>1. rf[r].auth \in AuthIds /\ rf[r].gen < auths[rf[r].auth].gen
      BY <1>1, <2>3 DEF CredInv, RefreshInv, RefreshFits
    <3>2. rf[r].gen \in Nat /\ auths[rf[r].auth].gen \in Nat
      BY <1>1, <3>1, Facts DEF Refreshing, Auth, Token
    <3> QED
      BY <3>1, <3>2
  <2> QED
    BY <1>1, <2>1, <2>2, <2>3 DEF CredInv, OneCurrentRefresh
<1> QED
  BY <1>1, CredInvariance, PTL

\* SaveAtomic keeps up: what a restart would read is what the pool has.
THEOREM FilesAreCurrent == CredSpec => []FileIsCurrent
<1>1. CredInv => FileIsCurrent
  BY DEF CredInv, CalmInv, FilesFit, FileIsCurrent, Saved, Working, LoggingIn, Changing
<1> QED
  BY <1>1, CredInvariance, PTL

\* accountRemove: no late save of a refresh brings the removed file back.
THEOREM RemovedFilesStayGone == CredSpec => []FileStaysGone
<1>1. CredInv => FileStaysGone
  BY DEF CredInv, CalmInv, FilesFit, FileStaysGone
<1> QED
  BY <1>1, CredInvariance, PTL

\* Pool.Add: credentials of another site never replace those the pool has.
THEOREM SitesAreKept == CredSpec => SiteKept
<1>1. CredInv /\ [CredNext]_vars =>
        [pool # 0 /\ pool' # 0 /\ boots' = boots =>
           SiteOf(auths[pool].file) = SiteOf(auths'[pool'].file)]_vars
  <2> SUFFICES ASSUME CredInv, CredNext, pool # 0, pool' # 0, boots' = boots
               PROVE  SiteOf(auths[pool].file) = SiteOf(auths'[pool'].file)
    OBVIOUS
  <2>1. pool \in AuthIds
    BY Facts
  <2>2. CASE UNCHANGED <<auths, pool>>
    BY <2>2
  <2>3. ASSUME NEW r \in Refresher, Commit(r)
        PROVE  SiteOf(auths[pool].file) = SiteOf(auths'[pool'].file)
    <3>1. rf[r].auth \in AuthIds
      BY <2>3 DEF Commit, CredInv, RefreshInv, RefreshFits
    <3>2. auths'[pool].file = auths[pool].file
      BY <2>1, <2>3, <3>1, Facts DEF Commit, Auth, CredTypeOK
    <3> QED
      BY <2>3, <3>2 DEF Commit
  <2>4. ASSUME NEW p \in Poll, PollCheck(p)
        PROVE  SiteOf(auths[pool].file) = SiteOf(auths'[pool'].file)
    <3>1. auths'[pool] = auths[pool]
      BY <2>1, <2>4, Facts DEF PollCheck, CredTypeOK, AuthIds
    <3> QED
      BY <2>4, <3>1 DEF PollCheck
  <2>5. ASSUME NEW p \in Poll, PollAdd(p)
        PROVE  SiteOf(auths[pool].file) = SiteOf(auths'[pool'].file)
    BY <2>5 DEF PollAdd, Upsert
  <2>6. CASE AccountRemove
    BY <2>6 DEF AccountRemove, RemovalStep, PoolRemove, core
  <2>7. CASE Restart
    BY <2>7, Facts DEF Restart
  <2> QED
    BY <2>2, <2>3, <2>4, <2>5, <2>6, <2>7
       DEF CredNext, PollStep, core, Begin, Enter, Lock, Upstream, Fail, Save, LoginStart,
           PollDone, PollSave, PollFinish
<1> QED
  BY <1>1, CredInvariance, PTL DEF CredSpec, SiteKept

=============================================================================
