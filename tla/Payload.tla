------------------------------ MODULE Payload ------------------------------
(***************************************************************************)
(* internal/upstream/payload.go, tool_pairing.go and thinking.go: what the  *)
(* gateway does to the body of a request before it goes out. A body is a    *)
(* record: its messages, its tool_choice, whether it offers tools, whether  *)
(* it is for a deepseek model, and the thinking and the reasoning effort it *)
(* asks for. A message is a record: its role, the ids of the calls it makes *)
(* (an assistant's) and the id of the call it answers (a tool's). Efforts   *)
(* are ranks; Unknown is a word without a rank, Unset no effort at all.     *)
(***************************************************************************)
EXTENDS Integers, SequencesExt

NoId == "none"
Unknown == -1
Unset == -2
High == 4
Roles == {"system", "developer", "user", "assistant", "tool", "other"}   \* "other": any other word
Message == {m \in [role : Roles, calls : Seq(STRING), id : STRING] : m.role # "assistant" => m.calls = <<>>}
Body == [messages : Seq(Message), choice : [shape : STRING, word : STRING], tools : BOOLEAN,
         deepseek : BOOLEAN, thinking : STRING, effort : Int]

\* Those elements of s that are in K, in their order.
Those(s, K) == FoldLeft(LAMBDA r, x : IF x \in K THEN Append(r, x) ELSE r, <<>>, s)

MakesCalls(m) == m.role = "assistant" /\ m.calls # <<>>
NormalizeRole(m) == IF m.role = "developer" THEN [m EXCEPT !.role = "system"] ELSE m

-----------------------------------------------------------------------------
(* repackToolResultBlocks: a group is a message with calls, the results of  *)
(* its calls, and what stands between them; the latter moves behind.        *)

Outside(s, m) ==
  [s EXCEPT !.out = Append(@, m), !.open = MakesCalls(m), !.want = Range(m.calls) \ {NoId}]

CloseGroup(s) ==
  [s EXCEPT !.out = @ \o s.results \o s.between, !.results = <<>>, !.between = <<>>, !.open = FALSE]

Repack1(s, m) ==
  IF ~s.open THEN Outside(s, m)
  ELSE IF m.role = "tool"
       THEN IF m.id \in s.want THEN [s EXCEPT !.results = Append(@, m)] ELSE Outside(CloseGroup(s), m)
       ELSE IF s.results = <<>> \/ MakesCalls(m) THEN Outside(CloseGroup(s), m)
            ELSE [s EXCEPT !.between = Append(@, m)]

NoGroup == [out |-> <<>>, results |-> <<>>, between |-> <<>>, open |-> FALSE, want |-> {}]
Repack(messages) == CloseGroup(FoldLeft(Repack1, NoGroup, messages)).out

-----------------------------------------------------------------------------
(* cleanupOrphanToolCalls: calls and results whose other side is missing go. *)

CallIds(messages) == (UNION {Range(m.calls) : m \in Range(messages)}) \ {NoId}
ResultIds(messages) == {m.id : m \in {x \in Range(messages) : x.role = "tool"}} \ {NoId}

CleanupByBatch(messages) ==   \* a mutant: an incomplete batch loses all its calls
  LET keep == CallIds(messages) \cap ResultIds(messages)
      trimmed == [i \in DOMAIN messages |->
                    [messages[i] EXCEPT !.calls = IF Range(@) \subseteq keep THEN @ ELSE <<>>]]
  IN  Those(trimmed, {m \in Range(trimmed) : m.role = "tool" => m.id \in keep})

Cleanup(messages) ==
  LET keep == CallIds(messages) \cap ResultIds(messages)
      trimmed == [i \in DOMAIN messages |->
                    [messages[i] EXCEPT !.calls = Those(@, keep)]]
  IN  IF CallIds(messages) \cup ResultIds(messages) = {} THEN messages
      ELSE Those(trimmed, {m \in Range(trimmed) : m.role = "tool" => m.id \in keep})

-----------------------------------------------------------------------------
(* The other fields. A tool_choice is a shape and a word: a "string", an    *)
(* "object" of some type, a "function" of some name ("" without one),       *)
(* "other" or "absent".                                                     *)

Absent == [shape |-> "absent", word |-> ""]
Word(w) == [shape |-> "string", word |-> w]
SuppressesTools(c) == c.shape \in {"string", "object"} /\ c.word = "none"
NormalizeToolChoice(c) ==
  CASE SuppressesTools(c) -> Absent
    [] c.shape = "string" /\ c.word # "none" -> c
    [] c.shape = "object" /\ c.word \in {"auto", "required"} -> Word(c.word)
    [] c.shape = "function" -> Word(IF c.word = "" THEN "auto" ELSE c.word)
    [] OTHER -> Absent

\* A deepseek model thinks unless the client switched it off: it is told so, and an effort goes
\* with it; without thinking no effort does.
InjectThinking(b) ==
  CASE ~b.deepseek -> b
    [] b.deepseek /\ b.thinking = "disabled" -> [b EXCEPT !.effort = Unset]
    [] b.deepseek /\ b.thinking # "disabled" ->
         [b EXCEPT !.thinking = IF @ = "" THEN "enabled" ELSE @, !.effort = IF @ = Unset THEN High ELSE @]

\* The highest supported effort up to the requested one, else the lowest supported.
NormalizeEffort(requested, supported) ==
  LET known == Range(supported) \ {Unknown}
      below == {s \in known : s <= requested}
  IN  CASE requested \in {Unknown, Unset} \/ known = {} -> requested
        [] requested \notin {Unknown, Unset} /\ below # {} -> Max(below)
        [] requested \notin {Unknown, Unset} /\ known # {} /\ below = {} -> Min(known)

\* PrepareBodyOptWithEfforts: the body that goes out for a model with these efforts.
PrepareBody(body, supported) ==
  LET thinks == InjectThinking(body) IN
  [body EXCEPT
     !.messages = Cleanup(Repack([i \in DOMAIN @ |-> NormalizeRole(@[i])])),
     !.choice = NormalizeToolChoice(@),
     !.tools = @ /\ ~SuppressesTools(body.choice),
     !.thinking = thinks.thinking,
     !.effort = NormalizeEffort(thinks.effort, supported)]

-----------------------------------------------------------------------------
(* What it is for. *)

\* Everything but the tool traffic.
Speech(messages) ==
  LET spoken == Those(messages, {m \in Range(messages) : m.role # "tool"})
  IN  [i \in DOMAIN spoken |-> [NormalizeRole(spoken[i]) EXCEPT !.calls = <<>>]]

\* A history that interruptions alone have damaged: each call has an id, no id is used twice; each
\* result that is there comes behind its call, the first directly, and before the next message with
\* calls.
Interrupted(messages) ==
  LET results(i) == {j \in DOMAIN messages : messages[j].role = "tool" /\ messages[j].id \in Range(messages[i].calls)}
  IN  /\ \A i \in DOMAIN messages : IsInjective(messages[i].calls) /\ NoId \notin Range(messages[i].calls)
      /\ \A i, j \in DOMAIN messages : i # j =>
           /\ Range(messages[i].calls) \cap Range(messages[j].calls) = {}
           /\ messages[i].role = "tool" /\ messages[j].role = "tool" => messages[i].id # messages[j].id
      /\ \A i \in DOMAIN messages : results(i) # {} =>
           /\ i + 1 \in results(i)
           /\ \A j \in results(i) : j > i /\ \A k \in i + 1 .. j - 1 :
                /\ ~MakesCalls(messages[k])
                /\ messages[k].role = "tool" => messages[k].id \in CallIds(messages)

\* Calls and results answer each other.
Paired(messages) == CallIds(messages) = ResultIds(messages)
\* Behind a message with n calls stand exactly their n results.
Contiguous(messages) ==
  \A i \in DOMAIN messages : MakesCalls(messages[i]) =>
    LET n == Len(messages[i].calls) IN
      /\ i + n <= Len(messages)
      /\ {messages[j].id : j \in i + 1 .. i + n} = Range(messages[i].calls)
      /\ \A j \in i + 1 .. i + n : messages[j].role = "tool"

\* The body is one the upstream takes, and says what the client's said.  A function that is named
\* none is the exception: its name goes out as the word that forbids tools, and the tools with it.
Acceptable(before, after, supported) ==
  /\ Paired(after.messages)
  /\ Interrupted(before.messages) => Contiguous(after.messages)
  /\ Speech(after.messages) = Speech(before.messages)
  /\ after.choice.shape \in {"absent", "string"}
  /\ after.tools # before.tools => after.choice = Absent
  /\ after.choice.word = "none" <=> before.choice = [shape |-> "function", word |-> "none"]
  /\ after.thinking = IF before.deepseek /\ before.thinking = "" THEN "enabled" ELSE before.thinking
  /\ before.deepseek => (after.thinking = "disabled" <=> after.effort = Unset)
  /\ LET known == Range(supported) \ {Unknown}
         asked == CASE before.deepseek /\ after.thinking = "disabled" -> Unset
                    [] before.deepseek /\ after.thinking # "disabled" /\ before.effort = Unset -> High
                    [] OTHER -> before.effort
     IN  IF asked \in {Unknown, Unset} \/ known = {} THEN after.effort = asked
         ELSE /\ after.effort \in known
              /\ \A s \in known : s <= asked => s <= after.effort /\ after.effort <= asked
              /\ after.effort > asked => \A s \in known : after.effort <= s
=============================================================================
