------------------------------ MODULE Exchange ------------------------------
(***************************************************************************)
(* One request to the upstream and its streamed answer: the body is         *)
(* prepared and sent (payload.go, client.go ChatStreamContext), the answer  *)
(* is read as SSE frames and either passed on to the client frame by frame  *)
(* (sse.go Stream) or put together into one answer (sse.go Aggregate),      *)
(* while the idle monitor (idle.go) watches the reading.                    *)
(*                                                                         *)
(* The upstream sends text and tool calls in Parts fragments each, in one   *)
(* of three styles of naming the call of a fragment, or whole messages, and *)
(* may stop at any point. A frame is known to the client by its position.   *)
(* Time passes in ticks; ages are counted up to Idle + 1.                   *)
(***************************************************************************)
EXTENDS Payload, FiniteSets

CONSTANTS
  Requests,     \* the bodies clients send
  Supported,    \* the efforts of the model asked for, a sequence of ranks
  Calls,        \* the calls the upstream may make, 0 .. n - 1
  Parts,        \* fragments per call
  Idle,         \* ticks without reading anything after which the monitor cuts
  MaxFrames     \* frames of an answer

ASSUME ExchangeAssumption ==
  /\ Requests \subseteq Body /\ Supported \in Seq(Nat \cup {Unknown})
  /\ Calls \subseteq Nat /\ IsFiniteSet(Calls) /\ Parts \in Nat \ {0}
  /\ Idle \in Nat \ {0} /\ MaxFrames \in Nat

VARIABLES
  phase,        \* "idle", "prepared", "streaming", "closing" (Stream's final frames), "ended", "failed"
  request, body,\* what the client sent and what goes out, until it is sent
  mode,         \* "stream" or "aggregate"
  style,        \* how the upstream names the call of a fragment: "index", "id", "first"
  frames,       \* what the upstream has sent
  up,           \* the upstream's side: "open", "eof", "reset"
  received,     \* frames the reader has taken off the connection
  fresh,        \* the last of them are not in lastRead yet
  pos,          \* frames it has handled
  out,          \* Stream: what the client got, positions, Fault and Done
  cut,          \* who cancelled the request: "no", "idle", "gone"
  age,          \* ticks since lastRead
  quiet,        \* ticks since the upstream last sent something
  due           \* the monitor has found the reading idle and is about to cut

exchangeVars == <<phase, request, body, mode, style, frames, up, received, fresh, pos, out, cut, age,
                  quiet, due>>
upstreamVars == <<style, frames, up>>
readerVars == <<received, fresh, pos, out>>
timeVars == <<age, quiet, due>>
bodyVars == <<request, body, mode>>

Done == 0
Fault == -1
Glued == -2     \* the end of an unfinished line and the frame written behind it
NoBody == [messages |-> <<>>, choice |-> Absent, tools |-> FALSE, deepseek |-> FALSE, thinking |-> "",
           effort |-> Unset]
NoCall == -1

-----------------------------------------------------------------------------
(* The upstream's frames. *)

Frame(kind, text, calls, finish) == [kind |-> kind, text |-> text, calls |-> calls, finish |-> finish]
Delta(text, calls, finish) == Frame("delta", text, calls, finish)
Plain(kind) == Frame(kind, 0, <<>>, "")
Fragment(c, p) ==
  [call |-> c, args |-> <<<<c, p>>>>, byIndex |-> style = "index", named |-> style = "id" \/ p = 1]
WholeCall(c) ==
  [call |-> c, args |-> [p \in 1 .. Parts |-> <<c, p>>], byIndex |-> FALSE, named |-> TRUE]

Kinds(fs) == {f.kind : f \in Range(fs)}
HasText(fs) == \E f \in Range(fs) : f.text > 0
PartsIn(fs, c) ==     \* of call c's arguments, those in the frames
  (UNION {Range(k.args) : k \in UNION {Range(f.calls) : f \in Range(fs)}}) \cap {<<c, p>> : p \in 1 .. Parts}

Sent(c) == Cardinality(PartsIn(frames, c))
SaidWhole == "message" \in Kinds(frames)
Texts == IF HasText(frames) \/ SaidWhole THEN {} ELSE {Delta(1, <<>>, "")}
NextFragments ==
  {Delta(0, <<Fragment(c, Sent(c) + 1)>>, "") : c \in {x \in Calls :
     /\ ~SaidWhole /\ Sent(x) < Parts
     \* without index and id a fragment belongs to the call before it
     /\ style = "first" => \A y \in Calls \ {x} : Sent(y) \in {0, Parts}}}
Finishes == IF \A f \in Range(frames) : f.finish = "" THEN {Delta(0, <<>>, "length")} ELSE {}
\* A whole message says everything, or again what fragments have said.
Messages ==
  LET made == {c \in Calls : Sent(c) > 0}
      said == IF made = {} /\ ~HasText(frames) THEN Calls ELSE made
  IN  IF SaidWhole \/ \E c \in made : Sent(c) < Parts THEN {}
      ELSE {Frame("message", 1, [i \in DOMAIN SetToSeq(said) |-> WholeCall(SetToSeq(said)[i])], "stop")}

\* What the upstream may send next: lines that carry nothing, the end mark, and, as only the
\* aggregation tells contents apart, contents there; behind the end mark anything.
Empties == {Delta(0, <<>>, ""), Plain("junk")}    \* junk: a comment, or data that does not parse
Offers ==
  IF mode = "stream" THEN Empties \cup {Plain("done")}
  ELSE IF "done" \in Kinds(frames) THEN {Delta(1, <<>>, "")}
  ELSE (IF frames = <<>> THEN Empties ELSE {})
         \cup {Plain("done")} \cup Texts \cup NextFragments \cup Finishes \cup Messages

Emit ==
  /\ phase = "streaming" /\ up = "open" /\ cut = "no" /\ Len(frames) < MaxFrames
  /\ \E f \in Offers : frames' = Append(frames, f)
  /\ quiet' = 0
  /\ UNCHANGED <<phase, bodyVars, style, up, readerVars, cut, age, due>>

\* The upstream closes or breaks off, between two lines or within one: a data line ("torn") or less
\* than its prefix ("stub").
Hangup ==
  /\ phase = "streaming" /\ up = "open" /\ cut = "no"
  /\ up' \in {"eof", "reset"}
  /\ \/ UNCHANGED <<frames, quiet>>
     \/ /\ \E kind \in IF mode = "stream" THEN {"torn", "stub"} ELSE {"torn"} : frames' = Append(frames, Plain(kind))
        /\ quiet' = 0
  /\ UNCHANGED <<phase, bodyVars, style, readerVars, cut, age, due>>

-----------------------------------------------------------------------------
(* The request. *)

Reset ==
  /\ frames' = <<>> /\ up' = "open" /\ received' = 0 /\ fresh' = FALSE /\ pos' = 0
  /\ out' = <<>> /\ cut' = "no" /\ age' = 0 /\ quiet' = 0 /\ due' = FALSE

ExchangeInit ==
  /\ phase = "idle" /\ request = NoBody /\ body = NoBody /\ mode = "stream" /\ style = "index"
  /\ frames = <<>> /\ up = "open" /\ received = 0 /\ fresh = FALSE /\ pos = 0
  /\ out = <<>> /\ cut = "no" /\ age = 0 /\ quiet = 0 /\ due = FALSE

Prepare ==
  /\ phase = "idle" /\ phase' = "prepared"
  /\ request' \in Requests /\ body' = PrepareBody(request', Supported)
  /\ UNCHANGED <<mode, upstreamVars, readerVars, cut, timeVars>>

\* chatStreamContext: the answer begins and the monitor starts, or there is none. The upstream is
\* asked for a stream whatever the client wants.
Open ==
  /\ phase = "prepared" /\ request' = NoBody /\ body' = NoBody
  /\ \/ (phase' = "idle" /\ UNCHANGED <<mode, style>>)
     \/ /\ phase' = "streaming"
        /\ \/ mode' = "stream" /\ style' = "index"
           \/ mode' = "aggregate" /\ style' \in {"index", "id", "first"}
  /\ Reset

-----------------------------------------------------------------------------
(* Aggregate: the answer put together from the lines read. *)

NothingYet ==
  [valid |-> FALSE, latch |-> FALSE, text |-> 0, finish |-> "stop", done |-> FALSE,
   calls |-> <<>>, order |-> <<>>, next |-> 0, at |-> <<>>]

NextToolIndex(s) == CHOOSE i \in s.next .. s.next + Cardinality(DOMAIN s.calls) :
  i \notin DOMAIN s.calls /\ \A j \in s.next .. i - 1 : j \in DOMAIN s.calls

\* Where a fragment belongs: by its index, by its id, or to the call opened last.
PlaceOf(s, k) ==
  CASE k.byIndex -> k.call
    [] ~k.byIndex /\ k.named /\ k.call \in DOMAIN s.at -> s.at[k.call]
    [] ~k.byIndex /\ ~k.named /\ s.order # <<>> -> Last(s.order)
    [] OTHER -> NextToolIndex(s)

\* f, and at the points xs the value v.
Override(f, xs, v) == [x \in xs \cup DOMAIN f |-> IF x \in xs THEN v ELSE f[x]]

MergeToolCall(s, k) ==
  LET i == PlaceOf(s, k)
      opens == i \notin DOMAIN s.calls
      merged == IF opens THEN [id |-> NoCall, args |-> <<>>] ELSE s.calls[i]
      ids == (IF k.named THEN {k.call} ELSE {}) \cup ({merged.id} \ {NoCall})
  IN  [s EXCEPT
         !.calls = Override(@, {i}, [id |-> IF k.named THEN k.call ELSE merged.id, args |-> merged.args \o k.args]),
         !.order = IF opens THEN Append(@, i) ELSE @,
         !.next = IF opens /\ ~k.byIndex THEN i + 1 ELSE @,
         !.at = Override(@, ids, i)]

AppendContentAlways(s, text) == [s EXCEPT !.text = @ + text, !.latch = TRUE]   \* a mutant
AppendContent(s, text) == IF text = 0 THEN s ELSE [s EXCEPT !.text = @ + text, !.latch = TRUE]

\* One line. A whole message counts only while there is no text.
MergeLine(s, f) ==
  CASE s.done \/ f.kind \notin {"delta", "message", "done"} -> s
    [] ~s.done /\ f.kind = "done" -> [s EXCEPT !.done = TRUE]
    [] OTHER ->
       LET t == [s EXCEPT !.valid = TRUE, !.finish = IF f.finish = "" THEN @ ELSE f.finish]
       IN  IF f.kind = "message" /\ s.latch THEN t
           ELSE FoldLeft(MergeToolCall, AppendContent(t, f.text), f.calls)

\* Arguments that are there but do not parse: not all of one call's fragments.
IsTruncated(args) == args # <<>> /\ \A c \in Calls : args # [p \in 1 .. Parts |-> <<c, p>>]

\* The calls come in the order of their places; the truncated ones only with a proper end.
Aggregate(lines) ==
  LET agg == FoldLeft(MergeLine, NothingYet, lines)
      whole == {i \in DOMAIN agg.calls : ~IsTruncated(agg.calls[i].args)}
      given == IF agg.finish = "length" \/ ~agg.done THEN whole ELSE DOMAIN agg.calls
  IN  [ok |-> agg.valid, text |-> agg.text, calls |-> [i \in given |-> agg.calls[i]]]

-----------------------------------------------------------------------------
(* The reader: bufio over idleMonitoringBody. *)

Buffered == pos < received
Waiting == phase = "streaming" /\ ~Buffered /\ received = Len(frames)

\* What has arrived is taken off the connection...
Read ==
  /\ phase = "streaming" /\ ~Buffered /\ received < Len(frames)
  /\ received' = Len(frames) /\ fresh' = TRUE
  /\ UNCHANGED <<phase, bodyVars, upstreamVars, pos, out, cut, timeVars>>

\* Aggregate puts everything read together at once, as nothing can see it do so line by line.
HandleLines ==
  IF mode = "stream" THEN UNCHANGED <<phase, pos>>
  ELSE /\ pos' = received
       /\ phase' = IF "done" \in Kinds(SubSeq(frames, 1, received)) THEN "ended" ELSE phase

NoteUnmarked ==   \* a mutant: progress is not noted
  /\ fresh /\ fresh' = FALSE
  /\ HandleLines
  /\ UNCHANGED <<bodyVars, upstreamVars, received, out, cut, timeVars>>

\* ... then lastRead is set, under the lock.
Note ==
  /\ fresh /\ fresh' = FALSE /\ age' = 0
  /\ HandleLines
  /\ UNCHANGED <<bodyVars, upstreamVars, received, out, cut, quiet, due>>

\* Read returns an error: the connection broke, or the request was cancelled.
ReadFails ==
  /\ phase = "streaming" /\ ~Buffered
  /\ cut # "no" \/ (received = Len(frames) /\ up = "reset")
  /\ phase' = "failed"
  /\ UNCHANGED <<bodyVars, upstreamVars, readerVars, cut, timeVars>>

ReadEof ==
  /\ Waiting /\ up = "eof" /\ phase' = IF mode = "stream" THEN "closing" ELSE "ended"
  /\ UNCHANGED <<bodyVars, upstreamVars, readerVars, cut, timeVars>>

-----------------------------------------------------------------------------
(* Stream. A write succeeds, or fails when the client has gone. *)

Handling == phase = "streaming" /\ mode = "stream" /\ Buffered /\ ~fresh

PassOnDone ==   \* a mutant: the upstream's end mark is passed on like any line
  /\ Handling /\ phase' = phase /\ pos' = pos + 1
  /\ out' = Append(out, IF frames[pos + 1].kind = "done" THEN Done ELSE pos + 1)
  /\ UNCHANGED <<bodyVars, upstreamVars, received, fresh, cut, timeVars>>

PassOn ==
  /\ Handling /\ pos' = pos + 1
  /\ IF frames[pos + 1].kind = "done" THEN phase' = "closing" /\ UNCHANGED out
     ELSE phase' = phase /\ out' = Append(out, pos + 1)
  /\ UNCHANGED <<bodyVars, upstreamVars, received, fresh, cut, timeVars>>

\* An empty answer gets an error frame; then the end mark. Behind a stub the first of them is lost.
Finish ==
  /\ phase = "closing" /\ phase' = "ended"
  /\ LET valid == \E i \in 1 .. pos : frames[i].kind = "delta"
         tail == IF valid THEN <<Done>> ELSE <<Fault, Done>>
         glues == out # <<>> /\ frames[Last(out)].kind = "stub"
     IN  out' = IF glues THEN Front(out) \o <<Glued>> \o Tail(tail) ELSE out \o tail
  /\ UNCHANGED <<bodyVars, upstreamVars, received, fresh, pos, cut, timeVars>>

WriteFails ==
  /\ cut = "gone" /\ mode = "stream" /\ (Handling \/ phase = "closing") /\ phase' = "failed"
  /\ UNCHANGED <<bodyVars, upstreamVars, readerVars, cut, timeVars>>

-----------------------------------------------------------------------------
(* Around it. *)

\* Once the request is cancelled nothing depends on the clocks: to cancel it again changes nothing.
ClocksStop == age' = 0 /\ quiet' = 0 /\ due' = FALSE

ClientGone ==
  /\ phase \in {"streaming", "closing"} /\ cut # "gone" /\ cut' = "gone"
  /\ ClocksStop
  /\ UNCHANGED <<phase, bodyVars, upstreamVars, readerVars>>

MonitorOnce ==    \* a mutant: the monitor looks only before the first read
  /\ phase = "streaming" /\ cut = "no" /\ ~due /\ received = 0 /\ age > Idle
  /\ due' = TRUE
  /\ UNCHANGED <<phase, bodyVars, upstreamVars, readerVars, cut, age, quiet>>

\* The monitor looks at lastRead under the lock, and cancels the request without it.
MonitorLook ==
  /\ phase \notin {"idle", "prepared"} /\ cut = "no" /\ ~due /\ age > Idle
  /\ due' = TRUE
  /\ UNCHANGED <<phase, bodyVars, upstreamVars, readerVars, cut, age, quiet>>

MonitorCut ==
  /\ due /\ cut = "no" /\ cut' = "idle" /\ ClocksStop
  /\ UNCHANGED <<phase, bodyVars, upstreamVars, readerVars>>

\* The body is closed: the monitor stops, the connection goes.
CloseBody ==
  /\ phase \in {"ended", "failed"} /\ phase' = "idle" /\ mode' = "stream" /\ style' = "index"
  /\ UNCHANGED <<request, body>> /\ Reset

Tick ==
  /\ phase = "streaming" /\ cut = "no"
  /\ age' = IF age > Idle THEN age ELSE age + 1
  /\ quiet' = IF quiet > Idle THEN quiet ELSE quiet + 1
  /\ <<age, quiet>> # <<age', quiet'>>
  /\ UNCHANGED <<phase, bodyVars, upstreamVars, readerVars, cut, due>>

Reader ==
  \/ Read \/ Note \/ ReadFails \/ ReadEof
  \/ PassOn \/ Finish \/ WriteFails
  \/ CloseBody

ExchangeNext == Prepare \/ Open \/ Emit \/ Hangup \/ Reader \/ ClientGone \/ MonitorLook \/ MonitorCut \/ Tick

\* Goroutines are scheduled, time passes, and a write returns in the end.
ExchangeFairness ==
  /\ WF_exchangeVars(Open \/ Reader) /\ WF_exchangeVars(MonitorLook) /\ WF_exchangeVars(MonitorCut)
  /\ WF_exchangeVars(Tick)
ExchangeSpec == ExchangeInit /\ [][ExchangeNext]_exchangeVars /\ ExchangeFairness

-----------------------------------------------------------------------------
(* Properties. *)

\* The body that goes out is one the upstream takes: every call has its result and every result its
\* call, and where only interruptions had come between a group and its results they stand behind it;
\* nothing said is lost; tool_choice is a word; a deepseek model thinks, with an effort, unless the
\* client switched it off; and the effort is one of the model's, the nearest that is not above the
\* one asked for if there is one (PrepareBody).
GoesOutAcceptable == phase = "prepared" => Acceptable(request, body, Supported)

\* The monitor cuts only after it has found the reading idle, and while the reader waits for the
\* upstream it finds it idle only when the upstream has in fact been quiet for longer than Idle:
\* neither time spent on a slow client nor an old clock condemns a living stream that is being read,
\* not even between a read and its note in lastRead (idle.go Read, monitorBody).
QuietOnly ==
  [][/\ ~due /\ due' /\ Waiting => quiet > Idle
     /\ cut = "no" /\ cut' = "idle" => due]_exchangeVars

\* A message that repeats fragments before any text.
Repeats(fs) ==
  \E j \in DOMAIN fs : /\ fs[j].kind = "message" /\ \A i \in 1 .. j - 1 : fs[i].text = 0
                       /\ \E i \in 1 .. j - 1 : fs[i].calls # <<>>
\* The frames up to the end mark.
Heard(fs) ==
  LET marks == {i \in DOMAIN fs : fs[i].kind = "done"}
  IN  IF marks = {} THEN fs ELSE SubSeq(fs, 1, Min(marks))

\* An aggregated answer says what the frames before the end mark said, once: the text once, and for
\* each call exactly its fragments in order, in whatever style they were named; and a call of which a
\* part is missing is handed out only if the upstream ended the answer properly (sse.go Aggregate).
AnswerIsExact ==
  mode = "aggregate" /\ phase = "ended" =>
    LET answer == Aggregate(SubSeq(frames, 1, pos))
        heard == Heard(SubSeq(frames, 1, pos))
        proper == "done" \in Kinds(heard) /\ \A f \in Range(heard) : f.finish # "length"
        parts(c) == Cardinality(PartsIn(heard, c))
        said == {c \in Calls : parts(c) > 0 /\ (proper \/ parts(c) = Parts)}
    IN  ~Repeats(heard) =>
          /\ answer.ok = ("delta" \in Kinds(heard) \/ "message" \in Kinds(heard))
          /\ answer.text = IF HasText(heard) THEN 1 ELSE 0
          /\ IsInjective(answer.calls)
          /\ Range(answer.calls) = {[id |-> c, args |-> [p \in 1 .. parts(c) |-> <<c, p>>]] : c \in said}

\* A stream hands on the upstream's lines in order, none left out or twice, up to its end mark; it
\* ends with exactly one end mark, after an error frame if there was nothing valid, and without one
\* only when reading or writing failed or the upstream stopped within a line (sse.go Stream).
OneEndMark ==
  mode = "stream" =>
    \E n \in 0 .. Len(out) :
      LET tail == SubSeq(out, n + 1, Len(out))
      IN  /\ \A i \in 1 .. n : out[i] = i /\ frames[i].kind # "done"
          /\ tail \in {<<>>, <<Done>>, <<Fault, Done>>, <<Glued>>, <<Glued, Done>>}
          /\ Fault \in Range(tail) => \A i \in 1 .. n : frames[i].kind # "delta"
          /\ Glued \in Range(tail) => up # "open"
          /\ (phase = "ended") = (tail # <<>>)
          /\ phase = "failed" => cut # "no" \/ up = "reset"

\* Wherever the upstream falls silent, an exchange comes to its end, so that the lease is given back:
\* it is cut off (idle.go monitorBody).
ExchangeEnds == phase # "idle" ~> phase = "idle"
=============================================================================
