-------------------------------- MODULE Chat --------------------------------
(***************************************************************************)
(* The chat handler of internal/server over the account pool: concurrent   *)
(* requests of one conversation choose accounts, lease them, send, judge   *)
(* the answer, punish the account, release, back off and rotate.  Every    *)
(* call into the pool is a step of its own, so the requests interleave     *)
(* between any two of them.                                                *)
(*                                                                         *)
(* One site and one model: what crosses them is checked in Pool.  The      *)
(* session router is taken at the grain of its calls; Session opens up     *)
(* Resolve.  The clock of Pool does not tick: a request is short against   *)
(* any sentence, and a WAF window or a degraded prompt, once begun,        *)
(* outlasts it.  No account is added or removed meanwhile: Lease has that. *)
(***************************************************************************)
EXTENDS Pool, Classify

CONSTANTS
  Request,
  MaxRotate,    \* max_rotate: rounds of one request
  Passthrough,  \* prompt.mode is passthrough
  WafThreshold, \* wafIPThreshold
  None          \* no account

ASSUME ChatAssumption ==
  /\ IsFiniteSet(Request) /\ Model # {} /\ Site # {}
  /\ None \notin Account /\ MaxRotate \in Nat \ {0}
  /\ Passthrough \in BOOLEAN /\ WafThreshold \in Nat \ {0}

VARIABLES
  req,       \* each request's locals
  bound,     \* the account the conversation is bound to
  degraded,  \* degradeGate: the neutral prompt is in force
  waf,       \* the site's wafIPGate: accounts hit, and whether it is closed
  failedOn,  \* history: accounts on which the request's attempt has failed
  sent,      \* history: attempts the request has sent
  blamed,    \* history: accounts that gave an answer that is held against them
  hitBy      \* history: accounts a WAF block came through

chatVars == <<req, bound, degraded, waf, failedOn, sent, blamed, hitBy>>
history  == <<failedOn, sent, blamed, hitBy>>
vars     == <<poolVars, chatVars>>

Pc == {"start", "sticky", "pick", "acquire", "ready", "sent", "fail", "after",
       "rotate", "bind", "stream", "done"}

\* sticky: stickyUID; acct: the account of this round; held: heldUID;
\* plain: the body still has the client's system prompt (degradedApplied is its
\* negation); verdict: what is left to do about a failed answer.
Locals == [pc : Pc, round : 0 .. MaxRotate, tried : SUBSET Account,
           sticky : Account \cup {None}, acct : Account \cup {None},
           held : Account \cup {None}, plain : BOOLEAN,
           verdict : {"none", "streak", "waf", "refresh"}]

Initial == [pc |-> "start", round |-> 0, tried |-> {}, sticky |-> None, acct |-> None,
            held |-> None, plain |-> TRUE, verdict |-> "none"]

ChatTypeOK ==
  /\ req \in [Request -> Locals]
  /\ bound \in Account \cup {None} /\ degraded \in BOOLEAN
  /\ waf \in [hits : SUBSET Account, closed : BOOLEAN]
  /\ failedOn \in [Request -> SUBSET Account] /\ sent \in [Request -> Nat]
  /\ blamed \subseteq Account /\ hitBy \subseteq Account

ChatInit ==
  /\ PoolInit
  /\ req = [r \in Request |-> Initial]
  /\ bound \in Account \cup {None} /\ degraded \in {FALSE, Passthrough}
  /\ waf = [hits |-> {}, closed |-> FALSE]
  /\ failedOn = [r \in Request |-> {}] /\ sent = [r \in Request |-> 0]
  /\ blamed = {} /\ hitBy = {}

At(r, pc) == req[r].pc = pc
Goto(r, pc) == req' = [req EXCEPT ![r].pc = pc]
TheModel == CHOOSE m \in Model : TRUE
TheSite  == CHOOSE s \in Site : TRUE
Usable   == Available(TheModel, TheSite)

\* unbindSticky: the key is unbound, whatever it is bound to by now.
Unbind == bound' = None

\* End of the request: the leased account, if any, is released on the way out.
Done(r) == req' = [req EXCEPT ![r] = [Initial EXCEPT !.pc = "done"]]

NextRound(r) ==
  req' = [req EXCEPT ![r].round = @ + 1, ![r].acct = None, ![r].verdict = "none",
                     ![r].pc = IF req[r].sticky # None THEN "sticky" ELSE "pick"]

-----------------------------------------------------------------------------
(* Before the loop: the session, the degraded prompt, the site's WAF gate *)

Start(r) ==
  /\ At(r, "start")
  /\ \E u \in IF bound \in Usable THEN {bound}
              ELSE IF Usable = {} THEN {None} ELSE Usable :
       /\ bound' = u
       /\ IF waf.closed THEN Done(r)
          ELSE req' = [req EXCEPT ![r].sticky = u, ![r].plain = ~degraded,
                                  ![r].pc = IF u # None THEN "sticky" ELSE "pick"]
  /\ UNCHANGED <<poolVars, degraded, waf, history>>

-----------------------------------------------------------------------------
(* Choosing and leasing *)

Exhausted(r) == req[r].round >= MaxRotate

GiveUp(r) ==
  /\ At(r, "sticky") \/ At(r, "pick")
  /\ Exhausted(r) /\ Done(r)
  /\ UNCHANGED <<poolVars, bound, degraded, waf, history>>

Chosen(r, u) ==
  req' = [req EXCEPT ![r].acct = u, ![r].tried = @ \cup {u}, ![r].pc = "acquire"]

PickSticky(r) ==
  /\ At(r, "sticky") /\ ~Exhausted(r)
  /\ \/ /\ PickByUID(req[r].sticky, TheModel, TheSite)
        /\ Chosen(r, req[r].sticky)
        /\ UNCHANGED bound
     \/ /\ req[r].sticky \notin Usable
        /\ Unbind
        /\ req' = [req EXCEPT ![r].sticky = None, ![r].pc = "pick"]
        /\ UNCHANGED poolVars
  /\ UNCHANGED <<degraded, waf, history>>

PickFresh(r) ==
  /\ At(r, "pick") /\ ~Exhausted(r)
  /\ \/ \E u \in Account : Pick(u, req[r].tried, TheModel, TheSite) /\ Chosen(r, u)
     \/ Pickable(req[r].tried, TheModel, TheSite) = {} /\ Done(r) /\ UNCHANGED poolVars
  /\ UNCHANGED <<bound, degraded, waf, history>>

\* The last lease may have gone to another request since the choice.
Lease(r) ==
  /\ At(r, "acquire")
  /\ \/ /\ Acquire(req[r].acct)
        /\ req' = [req EXCEPT ![r].held = req[r].acct, ![r].pc = "ready"]
        /\ UNCHANGED bound
     \/ /\ InFlightFull(req[r].acct)
        /\ IF req[r].sticky = req[r].acct
           THEN /\ Unbind
                /\ req' = [req EXCEPT ![r].round = @ + 1, ![r].acct = None,
                                      ![r].sticky = None, ![r].pc = "pick"]
           ELSE NextRound(r) /\ UNCHANGED bound
        /\ UNCHANGED poolVars
  /\ UNCHANGED <<degraded, waf, history>>

-----------------------------------------------------------------------------
(* Sending; judging the answer *)

\* A token close to its end is refreshed first.
Refresh(r) ==
  /\ At(r, "ready")
  /\ LET u == req[r].acct
     IN  \/ /\ sent' = [sent EXCEPT ![r] = @ + 1] /\ Goto(r, "sent")
            /\ UNCHANGED <<poolVars, failedOn, blamed>>
         \/ /\ Disable(u) \/ NoteError(u)
            /\ req' = [req EXCEPT ![r].pc = "fail", ![r].verdict = "refresh"]
            /\ failedOn' = [failedOn EXCEPT ![r] = @ \cup {u}]
            /\ blamed' = blamed \cup {u}
            /\ UNCHANGED sent
  /\ UNCHANGED <<bound, degraded, waf, hitBy>>

Failed(r, verdict) ==
  /\ req' = [req EXCEPT ![r].pc = "fail", ![r].verdict = verdict]
  /\ failedOn' = [failedOn EXCEPT ![r] = @ \cup {req[r].acct}]
  /\ UNCHANGED <<bound, degraded, waf, sent>>

\* What the handler makes of the failures it may be answered with; own: the
\* request is not the only one at fault.
Failures ==
  {[kind |-> Verdict(a), reset |-> ParseSoftRateReset(a), own |-> ~RequestAtFault(a)] :
     a \in {b \in Answers : b.status >= 400}}
FailuresOf(kinds) == {f \in Failures : f.kind \in kinds}
Blame(r, f) == blamed' = IF f.own THEN blamed \cup {req[r].acct} ELSE blamed

\* applyErrorPolicy: what an answer costs the account at once.
Policy(u, f) ==
  \/ f.kind = "hard_credit" /\ CooldownUntilTomorrow4AM(u)
  \/ f.kind = "soft_rate" /\ f.reset /\ (\E t \in Time : CooldownSoftForModel(u, t, TheModel))
  \/ f.kind = "soft_rate" /\ ~f.reset /\ (\E d \in SoftBase : Cooldown(u, d))
  \/ f.kind = "not_found" /\ (\E d \in SoftBase : Cooldown(u, d))
  \/ f.kind = "session_dead" /\ Disable(u)
  \/ f.kind = "server" /\ NoteError(u)

Punished(r) ==
  /\ At(r, "sent") /\ Failed(r, "none")
  /\ \E f \in Failures : Policy(req[r].acct, f) /\ Blame(r, f)
  /\ UNCHANGED hitBy

WafBlocked(r) ==
  /\ At(r, "sent") /\ (\E d \in SoftBase : Cooldown(req[r].acct, d)) /\ Failed(r, "waf")
  /\ \E f \in FailuresOf({"waf_block"}) : Blame(r, f)
  /\ hitBy' = hitBy \cup {req[r].acct}

\* Transport errors and unclassified answers count towards the losing streak.
Streak(r) ==
  /\ At(r, "sent") /\ Failed(r, "streak")
  /\ \/ blamed' = blamed \cup {req[r].acct}
     \/ \E f \in FailuresOf({"client"}) : Blame(r, f)
  /\ UNCHANGED <<poolVars, hitBy>>

\* The content or the body is at fault, not the account; a content block that
\* DegradeRetry takes up does not come here.
Degradable(r) == Passthrough /\ req[r].plain
ContentFault(r) ==
  /\ At(r, "sent") /\ Failed(r, "none")
  /\ \E f \in FailuresOf({"bad_params"} \cup (IF Degradable(r) THEN {} ELSE {"content_blocked"})) : Blame(r, f)
  /\ UNCHANGED <<poolVars, hitBy>>

DegradeKeepsLease(r) ==
  /\ At(r, "sent") /\ Degradable(r)
  /\ degraded' = TRUE
  /\ req' = [req EXCEPT ![r].plain = FALSE, ![r].tried = @ \ {req[r].acct},
                        ![r].held = None, ![r].acct = None, ![r].round = @ + 1,
                        ![r].pc = IF req[r].sticky # None THEN "sticky" ELSE "pick"]
  /\ UNCHANGED <<poolVars, bound, waf, history>>
DegradeUncounted(r) ==
  /\ At(r, "sent") /\ Degradable(r)
  /\ degraded' = TRUE
  /\ Release(req[r].held)
  /\ req' = [req EXCEPT ![r].plain = FALSE, ![r].tried = @ \ {req[r].acct},
                        ![r].held = None, ![r].acct = None,
                        ![r].pc = IF req[r].sticky # None THEN "sticky" ELSE "pick"]
  /\ UNCHANGED <<bound, waf, history>>

\* The first content block of a request that still has the client's system
\* prompt: the neutral prompt is put in force and the account may be tried again.
DegradeRetry(r) ==
  /\ At(r, "sent") /\ Degradable(r)
  /\ degraded' = TRUE
  /\ Release(req[r].held)
  /\ req' = [req EXCEPT ![r].plain = FALSE, ![r].tried = @ \ {req[r].acct},
                        ![r].held = None, ![r].acct = None, ![r].round = @ + 1,
                        ![r].pc = IF req[r].sticky # None THEN "sticky" ELSE "pick"]
  /\ UNCHANGED <<bound, waf, history>>

Succeeded(r) ==
  /\ At(r, "sent") /\ NoteSuccess(req[r].acct) /\ Goto(r, "bind")
  /\ UNCHANGED <<bound, degraded, waf, history>>

\* The conversation follows the account that served it.
BindSession(r) ==
  /\ At(r, "bind") /\ bound' = req[r].acct /\ Goto(r, "stream")
  /\ UNCHANGED <<poolVars, degraded, waf, history>>

\* The answer is passed on; then the deferred release.
Finish(r) ==
  /\ At(r, "stream") /\ Release(req[r].held) /\ Done(r)
  /\ UNCHANGED <<bound, degraded, waf, history>>

-----------------------------------------------------------------------------
(* After a failed attempt *)

FailKeepsSticky(r) ==
  /\ At(r, "fail")
  /\ Release(req[r].held)
  /\ req' = [req EXCEPT ![r].held = None, ![r].pc = "after"]
  /\ UNCHANGED <<bound, degraded, waf, history>>

\* fail: the lease goes back; if the conversation was stuck to the account it is
\* unbound.
Fail(r) ==
  /\ At(r, "fail")
  /\ Release(req[r].held)
  /\ LET stuck == req[r].sticky = req[r].acct
     IN  /\ req' = [req EXCEPT ![r].held = None, ![r].pc = "after",
                               ![r].sticky = IF stuck THEN None ELSE @]
         /\ IF stuck THEN Unbind ELSE UNCHANGED bound
  /\ UNCHANGED <<degraded, waf, history>>

NoteStreak(r) ==
  /\ At(r, "after") /\ req[r].verdict = "streak"
  /\ NoteFailures(req[r].acct) /\ Goto(r, "rotate")
  /\ UNCHANGED <<bound, degraded, waf, history>>

\* wafIPGate.note: enough accounts hit closes the site and ends the rotation.
NoteWaf(r) ==
  /\ At(r, "after") /\ req[r].verdict = "waf"
  /\ LET hits == waf.hits \cup {req[r].acct}
         full == Cardinality(hits) >= WafThreshold
     IN  \/ waf.closed /\ Done(r) /\ UNCHANGED waf
         \/ ~waf.closed /\ full /\ Done(r) /\ waf' = [hits |-> {}, closed |-> TRUE]
         \/ ~waf.closed /\ ~full /\ Goto(r, "rotate") /\ waf' = [waf EXCEPT !.hits = hits]
  /\ UNCHANGED <<poolVars, bound, degraded, history>>

\* The back-off before the next round, which a client that has left cuts short;
\* none after a failed refresh.
Rotate(r) ==
  /\ \/ At(r, "rotate")
     \/ At(r, "after") /\ req[r].verdict \in {"none", "refresh"}
  /\ \/ NextRound(r)
     \/ req[r].verdict # "refresh" /\ Done(r)
  /\ UNCHANGED <<poolVars, bound, degraded, waf, history>>

-----------------------------------------------------------------------------
Answer(r) ==
  \/ Punished(r) \/ WafBlocked(r) \/ Streak(r) \/ ContentFault(r)
  \/ DegradeRetry(r) \/ Succeeded(r)

ChatStep(r) ==
  \/ Start(r) \/ GiveUp(r) \/ PickSticky(r) \/ PickFresh(r) \/ Lease(r) \/ Refresh(r)
  \/ Answer(r) \/ BindSession(r) \/ Finish(r)
  \/ Fail(r) \/ NoteStreak(r) \/ NoteWaf(r) \/ Rotate(r)

ChatNext == \E r \in Request : ChatStep(r)

ChatSpec == ChatInit /\ [][ChatNext]_vars

-----------------------------------------------------------------------------
(* Properties *)

\* The leases counted on an account are those its requests hold: no way through
\* the handler (rotation, degraded retry, cancelled back-off, early return) keeps
\* one or gives one back twice.
LeasesMatch ==
  /\ ChatTypeOK
  /\ \A u \in Account : inFlight[u] = Cardinality({r \in Request : req[r].held = u})

\* One request never sends again on an account on which its attempt has failed,
\* though the bound account is chosen without regard to what was tried.
NoSecondChance ==
  \A r \in Request : At(r, "sent") => req[r].acct \notin failedOn[r]

\* A client's request costs at most max_rotate upstream attempts, the degraded
\* retry included.
AttemptsBounded == \A r \in Request : sent[r] <= MaxRotate

\* Only bad answers of its own bench an account: an answer that complains of the
\* content or the form of the request and of nothing else leaves it unpunished,
\* and so do other accounts' failures.  And only blocks through several accounts
\* close the site: one account's trouble never stops the others.
BlameIsOwn ==
  /\ \A u \in Account \ blamed :
       /\ cool[u] = NoCool /\ breaker[u] = NoBreaker /\ degrade[u] = NoDegrade
       /\ ~disabled[u]
  /\ waf.closed => Cardinality(hitBy) >= WafThreshold

=============================================================================
