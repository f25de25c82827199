------------------------------ MODULE Classify ------------------------------
(***************************************************************************)
(* What an answer of the upstream means (internal/upstream/client.go,      *)
(* Classify): the first rule that matches its status and the words in its  *)
(* body decides whom the failure is held against.  A body is the set of    *)
(* the marker lists that occur in it.                                      *)
(***************************************************************************)
EXTENDS Integers

Marks ==
  {"credit",    \* hardMarkers: credits or quota used up
   "dead",      \* sessionDeadMarkers: offline session, 12153
   "limit",     \* softRateMarkers: rate limit, too many
   "model",     \* code 6004
   "reset",     \* the time a limit ends
   "content",   \* contentBlockedMarkers
   "params",    \* badParamsMarkers
   "envelope"}  \* JSON with a code or msg
Answers == [status : {200, 400, 402, 403, 404, 429, 500}, body : SUBSET Marks]

Verdicts ==
  <<"hard_credit", "session_dead", "soft_rate", "waf_block", "not_found", "server",
    "content_blocked", "bad_params", "client", "none">>

\* 403 with a body that is no envelope of the business interface.
IsWafBlocked(a) == a.status = 403 /\ "envelope" \notin a.body

\* From the strictest rule to the widest; Verdicts names each.
Rules(a) ==
  <<a.status = 402 \/ "credit" \in a.body,
    "dead" \in a.body,
    a.status = 429 \/ "limit" \in a.body,
    IsWafBlocked(a),
    a.status = 404,
    a.status >= 500,
    a.status >= 400 /\ "content" \in a.body,
    a.status >= 400 /\ "params" \in a.body,
    a.status >= 400,
    TRUE>>

VerdictOfNoParams(a) ==  \* a mutant: 11101 is taken for a client error
  Verdicts[CHOOSE i \in DOMAIN Verdicts :
             Rules(a)[i] /\ i # 8 /\ \A j \in 1 .. i - 1 : j = 8 \/ ~Rules(a)[j]]
Verdict(a) ==
  Verdicts[CHOOSE i \in DOMAIN Verdicts : Rules(a)[i] /\ \A j \in 1 .. i - 1 : ~Rules(a)[j]]

\* The end of a model's limit is read from a 6004 body only.
ParseSoftRateReset(a) == {"model", "reset"} \subseteq a.body

-----------------------------------------------------------------------------
\* For the properties, apart from the rules: the request alone is at fault, the
\* answer says nothing else.
RequestAtFault(a) ==
  /\ a.status = 400 \/ (a.status = 403 /\ "envelope" \in a.body)
  /\ a.body \cap {"content", "params"} # {}
  /\ a.body \cap {"credit", "dead", "limit"} = {}
=============================================================================
