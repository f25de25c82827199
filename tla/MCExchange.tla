----------------------------- MODULE MCExchange -----------------------------
(***************************************************************************)
(* Exchange for TLC: bodies with every history of up to four messages over  *)
(* the ids a, b and x (a result of no call), or with every tool_choice, or  *)
(* with every effort and thinking, for deepseek and for other models that   *)
(* support three efforts and a word without a rank; two calls in the        *)
(* answer.                                                                  *)
(***************************************************************************)
EXTENDS Exchange

Msg(role, calls, id) == [role |-> role, calls |-> calls, id |-> id]
MCMessages ==
  {Msg("developer", <<>>, NoId)}
    \cup {Msg("assistant", calls, NoId) : calls \in {<<>>, <<"a">>, <<"b">>, <<"a", "b">>}}
    \cup {Msg("tool", <<>>, id) : id \in {"a", "b", "x"}}
MCHistories == UNION {[1 .. n -> MCMessages] : n \in 0 .. 4}
MCChoices ==
  {Absent, [shape |-> "other", word |-> ""]} \cup [shape : {"string"}, word : {"none", "auto", "f"}]
    \cup [shape : {"object"}, word : {"none", "auto", "required", "odd"}]
    \cup [shape : {"function"}, word : {"none", "f", ""}]
Plainly(messages) ==
  [messages |-> messages, choice |-> Absent, tools |-> TRUE, deepseek |-> FALSE, thinking |-> "",
   effort |-> Unset]
MCRequests ==
  {Plainly(h) : h \in MCHistories}
    \cup {[Plainly(<<>>) EXCEPT !.choice = c, !.tools = t] : c \in MCChoices, t \in BOOLEAN}
    \cup {[Plainly(<<>>) EXCEPT !.deepseek = d, !.thinking = t, !.effort = e] :
            d \in BOOLEAN, t \in {"", "enabled", "disabled"}, e \in -2 .. 6}
MCSupported == <<4, Unknown, 2, 5>>
MCCalls == {0, 1}
=============================================================================
