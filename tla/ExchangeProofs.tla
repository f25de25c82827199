---------------------------- MODULE ExchangeProofs ----------------------------
(***************************************************************************)
(* Theorems about the exchange of a request with the upstream, for any     *)
(* finite set of calls, any number of parts of each, and any length of the *)
(* stream.                                                                 *)
(*                                                                         *)
(* ExchangeInv is inductive.  Beside the end mark it says that the client  *)
(* has exactly the lines read so far, in order, until the handler finishes, *)
(* and that a reader with nothing left to read is no more impatient than   *)
(* the upstream is quiet.                                                  *)
(*                                                                         *)
(* Telling is inductive.  It follows an answer that is put together: for   *)
(* the frames sent so far there is a count n of parts for each call (Tale)  *)
(* such that the frames have shown exactly the first n[c] parts of c       *)
(* (Said), that many are merged, each call's at a place of its own (Fits),  *)
(* and the places are such that the next fragment finds its call, in the    *)
(* style in which the upstream names calls (Ordered).                      *)
(***************************************************************************)
EXTENDS PayloadProofs

(* A stream passed on. *)

Sequential(s) == \E S : s \in Seq(S)

\* How far the reader is, and who has stopped.
PlacesFit ==
  /\ phase \in {"idle", "prepared", "streaming", "closing", "ended", "failed"}
  /\ mode \in {"stream", "aggregate"} /\ cut \in {"no", "idle", "gone"}
  /\ phase = "closing" => mode = "stream"
  /\ Sequential(frames) /\ out \in Seq(Int)
  /\ pos \in Nat /\ received \in Nat /\ pos <= received /\ received <= Len(frames)

\* The client has the lines in order, no end mark among them.
InOrder == \A i \in 1 .. Len(out) : out[i] = i /\ frames[i].kind # "done"

StreamFits ==
  mode = "stream" =>
    /\ phase # "ended" => InOrder /\ Len(out) <= pos
    /\ phase = "streaming" => Len(out) = pos
    /\ phase = "ended" => OneEndMark
    /\ phase = "failed" => cut # "no" \/ up = "reset"
    /\ \A i \in 1 .. Len(frames) : frames[i].kind = "stub" => up # "open"

\* When all that was sent has been read and noted, the reading is no older than the sending.
TimeFits ==
  /\ age \in 0 .. Idle + 1 /\ quiet \in 0 .. Idle + 1
  /\ received = Len(frames) /\ ~fresh => age <= quiet

\* What is not noted yet is about to be handled.
FreshFits == fresh \in BOOLEAN /\ (fresh => phase = "streaming" /\ pos < received)

ReadingFits == PlacesFit /\ StreamFits /\ TimeFits
ExchangeInv == ReadingFits /\ FreshFits

-----------------------------------------------------------------------------

\* One frame more.
LEMMA OneMore ==
  ASSUME NEW s, Sequential(s), NEW f
  PROVE  /\ Sequential(Append(s, f)) /\ Len(s) \in Nat /\ Len(Append(s, f)) = Len(s) + 1
         /\ \A i \in 1 .. Len(s) : Append(s, f)[i] = s[i]
         /\ Append(s, f)[Len(s) + 1] = f
<1>1. PICK S : s \in Seq(S)
  BY DEF Sequential
<1> DEFINE T == S \cup {f}
<1>2. s \in Seq(T) /\ f \in T
  BY <1>1
<1> HIDE DEF T
<1> QED
  BY <1>1, <1>2, AppendProperties DEF Sequential

LEMMA NoFrames == Sequential(<<>>) /\ Len(<<>>) = 0 /\ <<>> \in Seq(Int)
<1>1. <<>> \in Seq(Int) /\ Len(<<>>) = 0
  BY EmptySeq
<1> QED
  BY <1>1 DEF Sequential

LEMMA Facts ==
  ASSUME ExchangeInv
  PROVE  /\ PlacesFit /\ StreamFits /\ TimeFits
         /\ Len(out) \in Nat /\ Len(frames) \in Nat /\ Idle \in Nat
         /\ pos \in Nat /\ received \in Nat /\ pos <= received /\ received <= Len(frames)
         /\ age \in Nat /\ quiet \in Nat
<1>1. Len(frames) \in Nat
  BY OneMore DEF ExchangeInv, ReadingFits, PlacesFit
<1>2. Len(out) \in Nat
  BY DEF ExchangeInv, ReadingFits, PlacesFit
<1> QED
  BY <1>1, <1>2, ExchangeAssumption DEF ExchangeInv, ReadingFits, PlacesFit, TimeFits

\* A stream that is over stays as it is.
LEMMA MarkStays ==
  ASSUME OneEndMark, mode = "stream", phase = "ended",
         UNCHANGED <<mode, phase, out, frames, up>>
  PROVE  OneEndMark'
<1>1. PICK n \in 0 .. Len(out) :
        LET tail == SubSeq(out, n + 1, Len(out))
        IN  /\ \A i \in 1 .. n : out[i] = i /\ frames[i].kind # "done"
            /\ tail \in {<<>>, <<Done>>, <<Fault, Done>>, <<Glued>>, <<Glued, Done>>}
            /\ Fault \in Range(tail) => \A i \in 1 .. n : frames[i].kind # "delta"
            /\ Glued \in Range(tail) => up # "open"
            /\ tail # <<>>
  BY DEF OneEndMark
<1> SUFFICES
      LET tail == SubSeq(out', n + 1, Len(out'))
      IN  /\ \A i \in 1 .. n : out'[i] = i /\ frames'[i].kind # "done"
          /\ tail \in {<<>>, <<Done>>, <<Fault, Done>>, <<Glued>>, <<Glued, Done>>}
          /\ Fault \in Range(tail) => \A i \in 1 .. n : frames'[i].kind # "delta"
          /\ Glued \in Range(tail) => up' # "open"
          /\ (phase' = "ended") = (tail # <<>>)
          /\ phase' = "failed" => cut' # "no" \/ up' = "reset"
  BY DEF OneEndMark
<1> QED
  BY <1>1

\* The exchange begins or is over: nothing has been said.
LEMMA Afresh ==
  ASSUME ExchangeInv, Reset, phase' \in {"idle", "streaming"},
         mode' \in {"stream", "aggregate"}
  PROVE  ReadingFits'
<1>1. /\ frames' = <<>> /\ up' = "open" /\ received' = 0 /\ fresh' = FALSE
      /\ pos' = 0 /\ out' = <<>> /\ cut' = "no" /\ age' = 0 /\ quiet' = 0
  BY DEF Reset
<1>2. PlacesFit'
  BY <1>1, NoFrames DEF PlacesFit
<1>3. StreamFits'
  BY <1>1, NoFrames DEF StreamFits, InOrder
<1>4. TimeFits'
  BY <1>1, Facts DEF TimeFits
<1> QED
  BY <1>2, <1>3, <1>4 DEF ReadingFits

LEMMA KeepsEnds ==
  ASSUME ExchangeInv, Prepare \/ Open \/ CloseBody
  PROVE  ReadingFits'
<1>1. CASE Prepare
  <2>1. /\ phase = "idle" /\ phase' = "prepared"
        /\ UNCHANGED <<mode, frames, up, received, fresh, pos, out, cut, age, quiet>>
    BY <1>1 DEF Prepare, upstreamVars, readerVars, timeVars
  <2> QED
    BY <2>1, Facts DEF ReadingFits, PlacesFit, StreamFits, InOrder, TimeFits
<1>2. CASE Open
  <2>1. Reset /\ phase' \in {"idle", "streaming"} /\ mode' \in {"stream", "aggregate"}
    BY <1>2, Facts DEF Open, PlacesFit
  <2> QED
    BY <2>1, Afresh
<1>3. CASE CloseBody
  BY <1>3, Afresh DEF CloseBody
<1> QED
  BY <1>1, <1>2, <1>3

\* The upstream sends a line; in a stream, one that is whole unless it hangs up.
LEMMA Sends ==
  ASSUME ExchangeInv, NEW f, frames' = Append(frames, f), phase = "streaming", quiet' = 0,
         mode = "stream" /\ f.kind = "stub" => up' # "open", up = "open",
         UNCHANGED <<phase, mode, received, fresh, pos, out, cut, age>>
  PROVE  ReadingFits'
<1>1. /\ Sequential(frames') /\ Len(frames') = Len(frames) + 1
      /\ \A i \in 1 .. Len(frames) : frames'[i] = frames[i]
      /\ frames'[Len(frames) + 1] = f
  BY OneMore, Facts DEF PlacesFit
<1>2. PlacesFit'
  BY <1>1, Facts DEF PlacesFit
<1>3. StreamFits'
  <2> SUFFICES ASSUME mode = "stream"
               PROVE  /\ InOrder' /\ Len(out) = pos
                      /\ \A i \in 1 .. Len(frames') : frames'[i].kind = "stub" => up' # "open"
    BY Facts DEF StreamFits
  <2>1. InOrder /\ Len(out) = pos
    BY Facts DEF StreamFits
  <2>2. InOrder'
    BY <1>1, <2>1, Facts DEF InOrder
  <2>3. ASSUME NEW i \in 1 .. Len(frames'), frames'[i].kind = "stub" PROVE up' # "open"
    <3>1. CASE i = Len(frames) + 1
      BY <1>1, <2>3, <3>1
    <3>2. CASE i \in 1 .. Len(frames)
      BY <1>1, <2>3, <3>2, Facts DEF StreamFits
    <3> QED
      BY <1>1, <3>1, <3>2, Facts
  <2> QED
    BY <2>1, <2>2, <2>3
<1>4. TimeFits'
  BY <1>1, Facts DEF TimeFits
<1> QED
  BY <1>2, <1>3, <1>4 DEF ReadingFits

LEMMA KeepsUpstream ==
  ASSUME ExchangeInv, Emit \/ Hangup
  PROVE  ReadingFits'
<1>1. CASE Emit
  <2>1. PICK f \in Offers : frames' = Append(frames, f)
    BY <1>1 DEF Emit
  <2>2. mode = "stream" => f.kind # "stub"
    <3>1. mode = "stream" => f \in Empties \cup {Plain("done")}
      BY <2>1 DEF Offers
    <3>2. Delta(0, <<>>, "").kind = "delta"
      BY DEF Delta, Frame
    <3>3. \A kind : Plain(kind).kind = kind
      BY DEF Plain, Frame
    <3> QED
      BY <3>1, <3>2, <3>3 DEF Empties
  <2> QED
    BY <1>1, <2>1, <2>2, Sends DEF Emit, bodyVars, readerVars
<1>2. CASE Hangup /\ UNCHANGED <<frames, quiet>>
  <2>1. /\ phase = "streaming" /\ up' # "open"
        /\ UNCHANGED <<phase, mode, received, fresh, pos, out, cut, age>>
    BY <1>2 DEF Hangup, bodyVars, readerVars
  <2>2. PlacesFit' /\ TimeFits'
    BY <1>2, <2>1, Facts DEF PlacesFit, TimeFits
  <2>3. StreamFits'
    BY <1>2, <2>1, Facts DEF StreamFits, InOrder
  <2> QED
    BY <2>2, <2>3 DEF ReadingFits
<1>3. CASE Hangup /\ \E kind \in {"torn", "stub"} : frames' = Append(frames, Plain(kind)) /\ quiet' = 0
  <2>1. PICK kind \in {"torn", "stub"} : frames' = Append(frames, Plain(kind)) /\ quiet' = 0
    BY <1>3
  <2>2. /\ phase = "streaming" /\ up' # "open" /\ up = "open"
        /\ UNCHANGED <<phase, mode, received, fresh, pos, out, cut, age>>
    BY <1>3 DEF Hangup, bodyVars, readerVars
  <2> QED
    BY <2>1, <2>2, Sends
<1> QED
  BY <1>1, <1>2, <1>3 DEF Hangup

LEMMA KeepsRead ==
  ASSUME ExchangeInv, Read \/ Note \/ ReadFails \/ ReadEof
  PROVE  ReadingFits'
<1>1. CASE Read
  <2>1. /\ phase = "streaming" /\ pos = received /\ received < Len(frames)
        /\ received' = Len(frames) /\ fresh' = TRUE
        /\ UNCHANGED <<phase, mode, frames, up, pos, out, cut, age, quiet>>
    BY <1>1, Facts DEF Read, Buffered, bodyVars, upstreamVars, timeVars
  <2>2. PlacesFit'
    BY <2>1, Facts DEF PlacesFit
  <2>3. TimeFits'
    BY <2>1, Facts DEF TimeFits
  <2>4. StreamFits'
    BY <2>1, Facts DEF StreamFits, InOrder
  <2> QED
    BY <2>2, <2>3, <2>4 DEF ReadingFits
<1>4. CASE Note
  <2>1. /\ phase = "streaming" /\ fresh' = FALSE /\ age' = 0
        /\ UNCHANGED <<mode, frames, up, received, out, cut, quiet>>
        /\ mode = "stream" => UNCHANGED <<phase, pos>>
        /\ mode # "stream" => pos' = received /\ phase' \in {"ended", "streaming"}
    <3>1. phase = "streaming"
      BY <1>4 DEF Note, ExchangeInv, FreshFits
    <3> QED
      BY <1>4, <3>1 DEF Note, HandleLines, bodyVars, upstreamVars
  <2>2. PlacesFit'
    BY <2>1, Facts DEF PlacesFit
  <2>3. TimeFits'
    BY <2>1, Facts DEF TimeFits
  <2>4. StreamFits'
    BY <2>1, Facts DEF StreamFits, InOrder
  <2> QED
    BY <2>2, <2>3, <2>4 DEF ReadingFits
<1>2. CASE ReadFails
  <2>1. /\ phase = "streaming" /\ phase' = "failed" /\ (cut # "no" \/ up = "reset")
        /\ UNCHANGED <<mode, frames, up, received, fresh, pos, out, cut, age, quiet>>
    BY <1>2 DEF ReadFails, bodyVars, upstreamVars, readerVars, timeVars
  <2>2. PlacesFit' /\ TimeFits'
    BY <2>1, Facts DEF PlacesFit, TimeFits
  <2>3. StreamFits'
    BY <2>1, Facts DEF StreamFits, InOrder
  <2> QED
    BY <2>2, <2>3 DEF ReadingFits
<1>3. CASE ReadEof
  <2>1. /\ phase = "streaming" /\ phase' = IF mode = "stream" THEN "closing" ELSE "ended"
        /\ UNCHANGED <<mode, frames, up, received, fresh, pos, out, cut, age, quiet>>
    BY <1>3 DEF ReadEof, Waiting, bodyVars, upstreamVars, readerVars, timeVars
  <2>2. PlacesFit' /\ TimeFits'
    BY <2>1, Facts DEF PlacesFit, TimeFits
  <2>3. StreamFits'
    BY <2>1, Facts DEF StreamFits, InOrder
  <2> QED
    BY <2>2, <2>3 DEF ReadingFits
<1> QED
  BY <1>1, <1>2, <1>3, <1>4

LEMMA KeepsPassOn ==
  ASSUME ExchangeInv, PassOn
  PROVE  ReadingFits'
<1>1. /\ phase = "streaming" /\ mode = "stream" /\ pos < received /\ pos' = pos + 1
      /\ UNCHANGED <<mode, frames, up, received, fresh, cut, age, quiet>>
  BY DEF PassOn, Handling, Buffered, bodyVars, upstreamVars, timeVars
<1>2. InOrder /\ Len(out) = pos
  BY <1>1, Facts DEF StreamFits
<1>3. CASE frames[pos + 1].kind = "done"
  <2>1. phase' = "closing" /\ out' = out
    BY <1>3 DEF PassOn
  <2>2. PlacesFit' /\ TimeFits'
    BY <1>1, <2>1, Facts DEF PlacesFit, TimeFits
  <2>3. StreamFits'
    BY <1>1, <1>2, <2>1, Facts DEF StreamFits, InOrder
  <2> QED
    BY <2>2, <2>3 DEF ReadingFits
<1>4. CASE frames[pos + 1].kind # "done"
  <2>1. phase' = phase /\ out' = Append(out, pos + 1)
    BY <1>4 DEF PassOn
  <2>2. /\ out' \in Seq(Int) /\ Len(out') = pos + 1 /\ out'[pos + 1] = pos + 1
        /\ \A i \in 1 .. pos : out'[i] = out[i]
    BY <1>2, <2>1, Facts, AppendProperties DEF PlacesFit
  <2>3. PlacesFit' /\ TimeFits'
    BY <1>1, <2>1, <2>2, Facts DEF PlacesFit, TimeFits
  <2>4. InOrder'
    <3>1. \A i \in 1 .. pos : out'[i] = i /\ frames'[i].kind # "done"
      BY <1>1, <1>2, <2>2 DEF InOrder
    <3>2. out'[pos + 1] = pos + 1 /\ frames'[pos + 1].kind # "done"
      BY <1>1, <1>4, <2>2
    <3>3. \A i \in 1 .. Len(out') : i \in 1 .. pos \/ i = pos + 1
      BY <2>2, Facts
    <3> QED
      BY <3>1, <3>2, <3>3 DEF InOrder
  <2>5. StreamFits'
    BY <1>1, <2>1, <2>2, <2>4, Facts DEF StreamFits
  <2> QED
    BY <2>3, <2>5 DEF ReadingFits
<1> QED
  BY <1>3, <1>4

\* What is put behind a sequence is behind it.
LEMMA Behind ==
  ASSUME NEW s \in Seq(Int), NEW t \in Seq(Int)
  PROVE  /\ s \o t \in Seq(Int) /\ Len(s) \in Nat /\ Len(s) <= Len(s \o t)
         /\ \A i \in 1 .. Len(s) : (s \o t)[i] = s[i]
         /\ SubSeq(s \o t, Len(s) + 1, Len(s \o t)) = t
<1> DEFINE c == s \o t
           e == SubSeq(c, Len(s) + 1, Len(c))
<1>1. /\ c \in Seq(Int) /\ Len(c) = Len(s) + Len(t) /\ Len(s) \in Nat /\ Len(t) \in Nat
      /\ \A i \in 1 .. Len(s) + Len(t) : c[i] = IF i <= Len(s) THEN s[i] ELSE t[i - Len(s)]
  BY ConcatProperties, LenProperties
<1> HIDE DEF c
<1>2. \A i \in Len(s) + 1 .. Len(c) : c[i] \in Int
  BY <1>1, ElementOfSeq
<1>3. /\ e \in Seq(Int) /\ Len(e) = Len(t)
      /\ \A i \in 1 .. Len(t) : e[i] = c[Len(s) + i]
  <2>1. Len(s) + 1 \in Int /\ Len(c) \in Int
    BY <1>1
  <2>2. /\ e \in Seq(Int)
        /\ Len(e) = IF Len(s) + 1 <= Len(c) THEN Len(c) - (Len(s) + 1) + 1 ELSE 0
        /\ \A i \in 1 .. Len(c) - (Len(s) + 1) + 1 : e[i] = c[(Len(s) + 1) + i - 1]
    BY <1>2, <2>1, SubSeqProperties
  <2> HIDE DEF e
  <2>3. \A i \in 1 .. Len(t) : i \in 1 .. Len(c) - (Len(s) + 1) + 1 /\ (Len(s) + 1) + i - 1 = Len(s) + i
    BY <1>1
  <2>4. Len(e) = Len(t)
    BY <1>1, <2>2
  <2>5. \A i \in 1 .. Len(t) : e[i] = c[Len(s) + i]
    BY <2>2, <2>3
  <2> QED
    BY <2>2, <2>4, <2>5
<1>4. \A i \in 1 .. Len(t) : e[i] = t[i]
  <2> HIDE DEF e
  <2>1. ASSUME NEW i \in 1 .. Len(t) PROVE c[Len(s) + i] = t[i]
    <3>1. Len(s) + i \in 1 .. Len(s) + Len(t) /\ ~(Len(s) + i <= Len(s)) /\ Len(s) + i - Len(s) = i
      <4>1. \A m, n \in Nat : \A j \in 1 .. n : m + j \in 1 .. m + n /\ ~(m + j <= m) /\ m + j - m = j
        OBVIOUS
      <4>2. Len(s) \in Nat /\ Len(t) \in Nat
        BY <1>1
      <4> QED
        BY <4>1, <4>2
    <3> DEFINE k == Len(s) + i
    <3>2. c[k] = IF k <= Len(s) THEN s[k] ELSE t[k - Len(s)]
      BY <1>1, <3>1
    <3> QED
      BY <3>1, <3>2
  <2> QED
    BY <1>3, <2>1
<1> HIDE DEF e
<1>5. e = t
  BY <1>3, <1>4, SeqEqual
<1> QED
  BY <1>1, <1>5 DEF c, e

LEMMA SomeMarks ==
  /\ <<Done>> # <<>> /\ <<Fault, Done>> # <<>> /\ <<Glued>> # <<>> /\ <<Glued, Done>> # <<>>
  /\ <<Glued>> \o <<Done>> = <<Glued, Done>>
<1>1. \A x, y : <<x>> # <<>> /\ <<x, y>> # <<>>
  OBVIOUS
<1>2. \A x \in Int, y \in Int : <<x>> \o <<y>> = <<x, y>>
  <2> TAKE x \in Int, y \in Int
  <2>1. <<x>> \in Seq(Int) /\ <<y>> \in Seq(Int) /\ Len(<<x>>) = 1 /\ Len(<<y>>) = 1
    OBVIOUS
  <2>2. /\ <<x>> \o <<y>> \in Seq(Int) /\ Len(<<x>> \o <<y>>) = 2
        /\ (<<x>> \o <<y>>)[1] = x /\ (<<x>> \o <<y>>)[2] = y
    BY <2>1, ConcatProperties
  <2>3. <<x, y>> \in Seq(Int) /\ Len(<<x, y>>) = 2
    OBVIOUS
  <2>4. <<x, y>>[1] = x /\ <<x, y>>[2] = y
    OBVIOUS
  <2>5. \A i \in 1 .. 2 : (<<x>> \o <<y>>)[i] = <<x, y>>[i]
    BY <2>2, <2>4
  <2> QED
    BY <2>2, <2>3, <2>5, SeqEqual
<1> QED
  BY <1>1, <1>2 DEF Glued, Done

\* The form of a stream that ends with s passed on and t behind it.
LEMMA Marked ==
  ASSUME NEW s \in Seq(Int), NEW t \in Seq(Int), out' = s \o t, phase' = "ended",
         UNCHANGED <<frames, up>>,
         \A i \in 1 .. Len(s) : s[i] = i /\ frames[i].kind # "done",
         t \in {<<Done>>, <<Fault, Done>>, <<Glued>>, <<Glued, Done>>},
         Fault \in Range(t) => \A i \in 1 .. Len(s) : frames[i].kind # "delta",
         Glued \in Range(t) => up # "open"
  PROVE  OneEndMark' /\ out' \in Seq(Int)
<1>1. /\ out' \in Seq(Int) /\ Len(s) \in 0 .. Len(out')
      /\ \A i \in 1 .. Len(s) : out'[i] = s[i]
      /\ SubSeq(out', Len(s) + 1, Len(out')) = t
  BY Behind
<1>2. t # <<>>
  BY SomeMarks
<1> SUFFICES
      LET tail == SubSeq(out', Len(s) + 1, Len(out'))
      IN  /\ \A i \in 1 .. Len(s) : out'[i] = i /\ frames'[i].kind # "done"
          /\ tail \in {<<>>, <<Done>>, <<Fault, Done>>, <<Glued>>, <<Glued, Done>>}
          /\ Fault \in Range(tail) => \A i \in 1 .. Len(s) : frames'[i].kind # "delta"
          /\ Glued \in Range(tail) => up' # "open"
          /\ (phase' = "ended") = (tail # <<>>)
          /\ phase' = "failed" => cut' # "no" \/ up' = "reset"
  BY <1>1 DEF OneEndMark
<1> QED
  BY <1>1, <1>2

LEMMA KeepsFinish ==
  ASSUME ExchangeInv, Finish
  PROVE  ReadingFits'
<1> DEFINE valid == \E i \in 1 .. pos : frames[i].kind = "delta"
           tail == IF valid THEN <<Done>> ELSE <<Fault, Done>>
           glues == out # <<>> /\ frames[Last(out)].kind = "stub"
<1>1. /\ phase = "closing" /\ phase' = "ended" /\ mode = "stream"
      /\ UNCHANGED <<mode, frames, up, received, fresh, pos, cut, age, quiet>>
      /\ out' = IF glues THEN Front(out) \o <<Glued>> \o Tail(tail) ELSE out \o tail
  BY Facts DEF Finish, PlacesFit, bodyVars, upstreamVars, timeVars
<1>2. InOrder /\ Len(out) <= pos /\ out \in Seq(Int) /\ Len(out) \in Nat
      /\ \A i \in 1 .. Len(frames) : frames[i].kind = "stub" => up # "open"
  BY <1>1, Facts DEF StreamFits, PlacesFit
<1>3. /\ <<Done>> \in Seq(Int) /\ <<Fault, Done>> \in Seq(Int)
      /\ <<Glued>> \in Seq(Int) /\ <<Glued, Done>> \in Seq(Int)
      /\ Range(<<Done>>) = {Done} /\ Range(<<Fault, Done>>) = {Fault, Done}
      /\ Range(<<Glued>>) = {Glued} /\ Range(<<Glued, Done>>) = {Glued, Done}
      /\ Done # Fault /\ Done # Glued /\ Fault # Glued
  BY DEF Done, Fault, Glued, Range
<1>4. OneEndMark' /\ out' \in Seq(Int)
  <2>1. CASE ~glues
    <3>1. Fault \in Range(tail) => \A i \in 1 .. Len(out) : frames[i].kind # "delta"
      <4>1. Fault \in Range(tail) => ~valid
        BY <1>3
      <4>2. \A i \in 1 .. Len(out) : i \in 1 .. pos
        BY <1>2, Facts
      <4> QED
        BY <4>1, <4>2
    <3>2. tail \in Seq(Int) /\ Glued \notin Range(tail) /\ tail \in {<<Done>>, <<Fault, Done>>}
      BY <1>3
    <3>3. out' = out \o tail
      BY <1>1, <2>1
    <3> HIDE DEF tail
    <3> QED
      BY <1>1, <1>2, <3>1, <3>2, <3>3, Marked DEF InOrder
  <2>2. CASE glues
    <3> DEFINE s == Front(out)
    <3>1. Len(out) \in Nat \ {0} /\ Last(out) = out[Len(out)]
      BY <1>2, <2>2, EmptySeq DEF Last
    <3>2. up # "open"
      <4>1. Last(out) = Len(out) /\ Len(out) \in 1 .. Len(frames)
        BY <1>2, <3>1, Facts DEF InOrder
      <4> QED
        BY <1>2, <2>2, <4>1
    <3>3. s \in Seq(Int) /\ Len(s) = Len(out) - 1 /\ \A i \in 1 .. Len(s) : s[i] = out[i]
      <4>1. \A i \in 1 .. Len(out) - 1 : out[i] \in Int
        BY <1>2, <3>1
      <4>2. 1 \in Int /\ Len(out) - 1 \in Int
        BY <3>1
      <4>3. s = SubSeq(out, 1, Len(out) - 1)
        BY DEF Front
      <4>4. /\ s \in Seq(Int) /\ Len(s) = IF 1 <= Len(out) - 1 THEN Len(out) - 1 - 1 + 1 ELSE 0
            /\ \A i \in 1 .. Len(out) - 1 - 1 + 1 : s[i] = out[1 + i - 1]
        BY <4>1, <4>2, <4>3, SubSeqProperties
      <4> HIDE DEF s
      <4>5. Len(s) = Len(out) - 1
        <5>1. Len(s) = IF 1 <= Len(out) - 1 THEN Len(out) - 1 - 1 + 1 ELSE 0
          BY <4>4
        <5>2. \A n \in Nat \ {0} : (IF 1 <= n - 1 THEN n - 1 - 1 + 1 ELSE 0) = n - 1
          OBVIOUS
        <5> QED
          BY <3>1, <5>1, <5>2
      <4>6. ASSUME NEW i \in 1 .. Len(s) PROVE s[i] = out[i]
        <5>1. i \in 1 .. Len(out) - 1 - 1 + 1 /\ 1 + i - 1 = i
          BY <3>1, <4>5
        <5> QED
          BY <4>4, <5>1
      <4> QED
        BY <4>4, <4>5, <4>6
    <3>4. \A i \in 1 .. Len(s) : s[i] = i /\ frames[i].kind # "done"
      BY <1>2, <3>1, <3>3 DEF InOrder
    <3>5. out' = (s \o <<Glued>>) \o Tail(tail)
      BY <1>1, <2>2
    <3> HIDE DEF s
    <3>6. CASE valid
      <4>1. Tail(tail) = <<>>
        BY <3>6
      <4>2. s \o <<Glued>> \in Seq(Int)
        BY <1>3, <3>3, ConcatProperties
      <4>3. out' = s \o <<Glued>>
        BY <3>5, <4>1, <4>2, ConcatEmptySeq
      <4> QED
        BY <1>1, <1>3, <3>2, <3>3, <3>4, <4>3, Marked
    <3>7. CASE ~valid
      <4>1. Tail(tail) = <<Done>>
        BY <3>7
      <4>2. out' = s \o (<<Glued>> \o <<Done>>)
        <5>1. (s \o <<Glued>>) \o <<Done>> = s \o (<<Glued>> \o <<Done>>)
          BY <1>3, <3>3, ConcatAssociative
        <5> QED
          BY <3>5, <4>1, <5>1
      <4>3. <<Glued>> \o <<Done>> = <<Glued, Done>>
        BY SomeMarks
      <4> QED
        BY <1>1, <1>3, <3>2, <3>3, <3>4, <4>2, <4>3, Marked
    <3> QED
      BY <3>6, <3>7
  <2> QED
    BY <2>1, <2>2
<1>5. PlacesFit' /\ TimeFits'
  BY <1>1, <1>4, Facts DEF PlacesFit, TimeFits
<1>6. StreamFits'
  BY <1>1, <1>2, <1>4 DEF StreamFits
<1> QED
  BY <1>5, <1>6 DEF ReadingFits

LEMMA KeepsRest ==
  ASSUME ExchangeInv, WriteFails \/ ClientGone \/ MonitorLook \/ MonitorCut \/ Tick \/ UNCHANGED exchangeVars
  PROVE  ReadingFits'
<1> USE DEF bodyVars, upstreamVars, readerVars, timeVars
<1>1. CASE WriteFails
  <2>1. /\ phase \in {"streaming", "closing"} /\ phase' = "failed" /\ cut = "gone"
        /\ UNCHANGED <<mode, frames, up, received, fresh, pos, out, cut, age, quiet>>
    BY <1>1 DEF WriteFails, Handling
  <2>2. PlacesFit' /\ TimeFits'
    BY <2>1, Facts DEF PlacesFit, TimeFits
  <2>3. StreamFits'
    BY <2>1, Facts DEF StreamFits, InOrder
  <2> QED
    BY <2>2, <2>3 DEF ReadingFits
<1>2. CASE ClientGone \/ MonitorCut
  <2>1. /\ cut' \in {"idle", "gone"} /\ age' = 0 /\ quiet' = 0
        /\ UNCHANGED <<phase, mode, frames, up, received, fresh, pos, out>>
    BY <1>2 DEF ClientGone, MonitorCut, ClocksStop
  <2>2. PlacesFit' /\ TimeFits'
    BY <2>1, Facts, ExchangeAssumption DEF PlacesFit, TimeFits
  <2>3. mode = "stream" /\ phase = "ended" => OneEndMark'
    BY <2>1, Facts, MarkStays DEF StreamFits
  <2>4. StreamFits'
    BY <2>1, <2>3, Facts DEF StreamFits, InOrder
  <2> QED
    BY <2>2, <2>4 DEF ReadingFits
<1>3. CASE Tick
  <2>1. /\ phase = "streaming"
        /\ UNCHANGED <<phase, mode, frames, up, received, fresh, pos, out, cut>>
    BY <1>3 DEF Tick
  <2>2. TimeFits'
    BY <1>3, <2>1, Facts DEF Tick, TimeFits
  <2>3. PlacesFit' /\ StreamFits'
    BY <2>1, Facts DEF PlacesFit, StreamFits, InOrder
  <2> QED
    BY <2>2, <2>3 DEF ReadingFits
<1>4. CASE MonitorLook \/ UNCHANGED exchangeVars
  <2>1. UNCHANGED <<phase, mode, frames, up, received, fresh, pos, out, cut, age, quiet>>
    BY <1>4 DEF MonitorLook, exchangeVars
  <2>2. mode = "stream" /\ phase = "ended" => OneEndMark'
    BY <2>1, Facts, MarkStays DEF StreamFits
  <2>3. PlacesFit' /\ TimeFits'
    BY <2>1, Facts DEF PlacesFit, TimeFits
  <2>4. StreamFits'
    BY <2>1, <2>2, Facts DEF StreamFits, InOrder
  <2> QED
    BY <2>3, <2>4 DEF ReadingFits
<1> QED
  BY <1>1, <1>2, <1>3, <1>4

LEMMA KeepsFresh ==
  ASSUME ExchangeInv, ExchangeNext \/ UNCHANGED exchangeVars
  PROVE  FreshFits'
<1> USE DEF bodyVars, upstreamVars, readerVars, timeVars
<1>1. FreshFits /\ pos \in Nat /\ received \in Nat /\ pos <= received
  BY Facts DEF ExchangeInv
<1>2. ASSUME fresh' = FALSE PROVE FreshFits'
  BY <1>2 DEF FreshFits
<1>3. ASSUME UNCHANGED <<fresh, phase, pos, received>> PROVE FreshFits'
  BY <1>1, <1>3 DEF FreshFits
<1>4. ASSUME fresh' = fresh, phase # "streaming" \/ ~Buffered \/ Handling PROVE FreshFits'
  <2>1. ~fresh
    BY <1>1, <1>4 DEF FreshFits, Buffered, Handling
  <2> QED
    BY <1>1, <1>4, <2>1 DEF FreshFits
<1>5. CASE Read
  <2>1. fresh' = TRUE /\ phase' = phase /\ phase = "streaming" /\ pos' = pos /\ pos < received'
    BY <1>1, <1>5, Facts DEF Read, Buffered
  <2> QED
    BY <2>1 DEF FreshFits
<1>6. CASE Note \/ Open \/ CloseBody
  BY <1>2, <1>6 DEF Note, Open, CloseBody, Reset
<1>7. CASE Emit \/ Hangup \/ ClientGone \/ MonitorLook \/ MonitorCut \/ Tick \/ UNCHANGED exchangeVars
  BY <1>3, <1>7 DEF Emit, Hangup, ClientGone, MonitorLook, MonitorCut, Tick, exchangeVars
<1>8. CASE Prepare \/ Finish
  BY <1>4, <1>8 DEF Prepare, Finish
<1>9. CASE ReadFails \/ ReadEof
  BY <1>4, <1>9 DEF ReadFails, ReadEof, Waiting
<1>10. CASE PassOn \/ WriteFails
  <2>1. fresh' = fresh /\ (Handling \/ phase # "streaming")
    BY <1>10 DEF PassOn, WriteFails
  <2> QED
    BY <1>4, <2>1
<1> QED
  BY <1>5, <1>6, <1>7, <1>8, <1>9, <1>10 DEF ExchangeNext, Reader

LEMMA ExchangeInitInv == ExchangeInit => ExchangeInv
<1> SUFFICES ASSUME ExchangeInit PROVE ExchangeInv
  OBVIOUS
<1> USE DEF ExchangeInit
<1>1. PlacesFit
  BY NoFrames DEF PlacesFit
<1>2. StreamFits
  BY NoFrames DEF StreamFits, InOrder
<1>3. TimeFits
  BY ExchangeAssumption DEF TimeFits
<1>4. FreshFits
  BY DEF FreshFits
<1> QED
  BY <1>1, <1>2, <1>3, <1>4 DEF ExchangeInv, ReadingFits

LEMMA ExchangeInvariance == ExchangeSpec => []ExchangeInv
<1>1. ExchangeInv /\ [ExchangeNext]_exchangeVars => ExchangeInv'
  BY KeepsEnds, KeepsUpstream, KeepsRead, KeepsPassOn, KeepsFinish, KeepsRest, KeepsFresh
     DEF ExchangeNext, Reader, ExchangeInv
<1> QED
  BY <1>1, ExchangeInitInv, PTL DEF ExchangeSpec

\* sse.go Stream: for answers of any length the client gets the upstream's lines
\* in order, each once, and one end mark, wherever the upstream or the client
\* breaks off.
THEOREM StreamsEndOnce == ExchangeSpec => []OneEndMark
<1>1. ASSUME ExchangeInv PROVE OneEndMark
  <2>1. CASE mode = "stream" /\ phase = "ended"
    BY <1>1, <2>1, Facts DEF StreamFits
  <2>2. CASE mode = "stream" /\ phase # "ended"
    <3>1. InOrder /\ Len(out) \in Nat /\ (phase = "failed" => cut # "no" \/ up = "reset")
      BY <1>1, <2>2, Facts DEF StreamFits
    <3>2. SubSeq(out, Len(out) + 1, Len(out)) = <<>>
      BY <3>1, SubSeqEmpty
    <3>3. Range(<<>>) = {}
      BY DEF Range
    <3> SUFFICES
          LET tail == SubSeq(out, Len(out) + 1, Len(out))
          IN  /\ \A i \in 1 .. Len(out) : out[i] = i /\ frames[i].kind # "done"
              /\ tail \in {<<>>, <<Done>>, <<Fault, Done>>, <<Glued>>, <<Glued, Done>>}
              /\ Fault \in Range(tail) => \A i \in 1 .. Len(out) : frames[i].kind # "delta"
              /\ Glued \in Range(tail) => up # "open"
              /\ (phase = "ended") = (tail # <<>>)
              /\ phase = "failed" => cut # "no" \/ up = "reset"
      BY <3>1 DEF OneEndMark
    <3> QED
      BY <2>2, <3>1, <3>2, <3>3 DEF InOrder
  <2> QED
    BY <2>1, <2>2 DEF OneEndMark
<1> QED
  BY <1>1, ExchangeInvariance, PTL

\* idle.go: whatever time the client takes, and however the monitor's look falls between a read and
\* its note, a reader that has read all there is is not condemned before the upstream has been quiet
\* for longer than Idle, and no request is cancelled for idleness that was not condemned.
THEOREM OnlyTheQuietAreCut == ExchangeSpec => QuietOnly
<1> DEFINE A == /\ ~due /\ due' /\ Waiting => quiet > Idle
                /\ cut = "no" /\ cut' = "idle" => due
<1>1. ExchangeInv /\ [ExchangeNext]_exchangeVars => [A]_exchangeVars
  <2> SUFFICES ASSUME ExchangeInv, ExchangeNext PROVE A
    OBVIOUS
  <2>1. ASSUME ~due, due' PROVE MonitorLook
    BY <2>1 DEF ExchangeNext, Prepare, Open, Reset, Emit, Hangup, Reader, Read, Note, ReadFails, ReadEof,
       PassOn, Finish, WriteFails, CloseBody, ClientGone, MonitorCut, ClocksStop, Tick, timeVars
  <2>2. ASSUME cut = "no", cut' = "idle" PROVE MonitorCut
    BY <2>2 DEF ExchangeNext, Prepare, Open, Reset, Emit, Hangup, Reader, Read, Note, ReadFails, ReadEof,
       PassOn, Finish, WriteFails, CloseBody, ClientGone, MonitorLook, Tick
  <2>3. Waiting => ~fresh /\ received = Len(frames)
    BY DEF ExchangeInv, FreshFits, Waiting, Buffered
  <2>4. ~due /\ due' /\ Waiting => quiet > Idle
    BY <2>1, <2>3, Facts DEF MonitorLook, TimeFits
  <2> QED
    BY <2>2, <2>4 DEF MonitorCut
<1> QED
  BY <1>1, ExchangeInvariance, PTL DEF ExchangeSpec, QuietOnly

-----------------------------------------------------------------------------
LEMMA LinesArePass ==
  ASSUME NEW s
  PROVE  FoldLeft(MergeLine, NothingYet, s) = Passed("line", {}, NothingYet, s)
<1> DEFINE a(f, d) == MergeLine(f[d \ {Max(d)}], s[Max(d)])
           b(f, d) == Step("line", {}, f[d \ {Max(d)}], s[Max(d)])
           P(f) == f = [d \in SUBSET DOMAIN s |-> IF d = {} THEN NothingYet ELSE a(f, d)]
           Q(f) == f = [d \in SUBSET DOMAIN s |-> IF d = {} THEN NothingYet ELSE b(f, d)]
<1>1. \A f, d : a(f, d) = b(f, d)
  BY DEF Step
<1>2. FoldLeft(MergeLine, NothingYet, s) = (CHOOSE f : P(f))[DOMAIN s]
  BY DEF FoldLeft, MapThenFoldSet
<1>3. Passed("line", {}, NothingYet, s) = (CHOOSE f : Q(f))[DOMAIN s]
  BY DEF Passed, FoldLeft, MapThenFoldSet
<1> HIDE DEF a, b
<1>4. \A f : P(f) <=> Q(f)
  BY <1>1
<1> HIDE DEF P, Q
<1> QED
  BY <1>2, <1>3, <1>4

LEMMA CallsArePass ==
  ASSUME NEW s, NEW base
  PROVE  FoldLeft(MergeToolCall, base, s) = Passed("call", {}, base, s)
<1> DEFINE a(f, d) == MergeToolCall(f[d \ {Max(d)}], s[Max(d)])
           b(f, d) == Step("call", {}, f[d \ {Max(d)}], s[Max(d)])
           P(f) == f = [d \in SUBSET DOMAIN s |-> IF d = {} THEN base ELSE a(f, d)]
           Q(f) == f = [d \in SUBSET DOMAIN s |-> IF d = {} THEN base ELSE b(f, d)]
<1>1. \A f, d : a(f, d) = b(f, d)
  BY DEF Step
<1>2. FoldLeft(MergeToolCall, base, s) = (CHOOSE f : P(f))[DOMAIN s]
  BY DEF FoldLeft, MapThenFoldSet
<1>3. Passed("call", {}, base, s) = (CHOOSE f : Q(f))[DOMAIN s]
  BY DEF Passed, FoldLeft, MapThenFoldSet
<1> HIDE DEF a, b
<1>4. \A f : P(f) <=> Q(f)
  BY <1>1
<1> HIDE DEF P, Q
<1> QED
  BY <1>2, <1>3, <1>4

-----------------------------------------------------------------------------
(* A fragment merged. *)

Rec(s) ==
  s = [valid |-> s.valid, latch |-> s.latch, text |-> s.text, finish |-> s.finish, done |-> s.done,
       calls |-> s.calls, order |-> s.order, next |-> s.next, at |-> s.at]
\* But for the calls nothing differs.
SameBut(s, t) == t.valid = s.valid /\ t.latch = s.latch /\ t.text = s.text /\ t.finish = s.finish
     /\ t.done = s.done

Made(n) == {c \in Calls : n[c] > 0}
Upto(c, j) == [p \in 1 .. j |-> <<c, p>>]
Entered(c, j) == [id |-> c, args |-> Upto(c, j)]

\* What is put together has, of each call c, its first n[c] parts.
Fits(s, n) ==
  /\ n \in [Calls -> 0 .. Parts]
  /\ Rec(s)
  /\ s.at \in [Made(n) -> Nat] /\ IsInjective(s.at)
  /\ s.calls = [i \in DOMAIN s.calls |-> s.calls[i]]
  /\ DOMAIN s.calls = Range(s.at)
  /\ \A c \in Made(n) : s.calls[s.at[c]] = Entered(c, n[c])
  /\ s.order \in Seq(Nat) /\ (Made(n) # {} => s.order # <<>>)
\* The places are taken from the first.
Dense(s) == s.next \in Nat /\ DOMAIN s.calls = 0 .. s.next - 1

LEMMA UptoSeq ==
  ASSUME NEW c \in Calls, NEW j \in Nat
  PROVE  /\ Upto(c, j) \in Seq(Calls \X Nat) /\ Len(Upto(c, j)) = j
         /\ Range(Upto(c, j)) = {<<c, p>> : p \in 1 .. j}
         /\ \A i \in 1 .. j : Upto(c, j)[i] = <<c, i>>
BY DEF Upto, Range

LEMMA UptoFurther ==
  ASSUME NEW c \in Calls, NEW j \in Nat
  PROVE  Upto(c, j) \o <<<<c, j + 1>>>> = Upto(c, j + 1)
<1> DEFINE u == Upto(c, j)
           x == <<c, j + 1>>
           v == Append(u, x)
           w == Upto(c, j + 1)
           S == Calls \X Nat
<1>1. u \in Seq(S) /\ Len(u) = j /\ \A i \in 1 .. j : u[i] = <<c, i>>
  BY UptoSeq
<1>2. w \in Seq(S) /\ Len(w) = j + 1 /\ \A i \in 1 .. j + 1 : w[i] = <<c, i>>
  <2>1. j + 1 \in Nat
    OBVIOUS
  <2> QED
    BY <2>1, UptoSeq
<1>3. x \in S
  OBVIOUS
<1> HIDE DEF u, w, S
<1>4. v \in Seq(S) /\ Len(v) = Len(u) + 1 /\ v[Len(u) + 1] = x /\ \A i \in 1 .. Len(u) : v[i] = u[i]
  BY <1>1, <1>3, AppendProperties
<1>5. u \o <<x>> = v
  BY <1>1, <1>3, AppendIsConcat
<1> HIDE DEF v
<1>6. v = w
  <2>1. ASSUME NEW i \in 1 .. Len(v) PROVE v[i] = w[i]
    <3>1. i \in 1 .. j + 1 /\ (i \in 1 .. j \/ i = j + 1)
      BY <1>1, <1>4
    <3>2. v[i] = <<c, i>>
      BY <1>1, <1>4, <3>1
    <3> QED
      BY <1>2, <3>1, <3>2
  <2>2. Len(v) = Len(w)
    BY <1>1, <1>2, <1>4
  <2> QED
    BY <1>2, <1>4, <2>1, <2>2, SeqEqual
<1> QED
  BY <1>5, <1>6 DEF u, w

LEMMA MergedCall ==
  ASSUME NEW s, Rec(s), NEW k
  PROVE  LET i == PlaceOf(s, k)
             opens == i \notin DOMAIN s.calls
             merged == IF opens THEN [id |-> NoCall, args |-> <<>>] ELSE s.calls[i]
             ids == (IF k.named THEN {k.call} ELSE {}) \cup ({merged.id} \ {NoCall})
             t == MergeToolCall(s, k)
         IN  /\ Rec(t) /\ SameBut(s, t)
             /\ t.calls = Override(s.calls, {i}, [id |-> IF k.named THEN k.call ELSE merged.id, args |-> merged.args \o k.args])
             /\ t.order = IF opens THEN Append(s.order, i) ELSE s.order
             /\ t.next = IF opens /\ ~k.byIndex THEN i + 1 ELSE s.next
             /\ t.at = Override(s.at, ids, i)
<1> DEFINE i == PlaceOf(s, k)
           opens == i \notin DOMAIN s.calls
           merged == IF opens THEN [id |-> NoCall, args |-> <<>>] ELSE s.calls[i]
           ids == (IF k.named THEN {k.call} ELSE {}) \cup ({merged.id} \ {NoCall})
           t == MergeToolCall(s, k)
           C == Override(s.calls, {i}, [id |-> IF k.named THEN k.call ELSE merged.id, args |-> merged.args \o k.args])
           O == IF opens THEN Append(s.order, i) ELSE s.order
           N == IF opens /\ ~k.byIndex THEN i + 1 ELSE s.next
           A == Override(s.at, ids, i)
<1>1. t = [s EXCEPT !.calls = C, !.order = O, !.next = N, !.at = A]
  BY DEF MergeToolCall
<1>2. s = [valid |-> s.valid, latch |-> s.latch, text |-> s.text, finish |-> s.finish, done |-> s.done,
           calls |-> s.calls, order |-> s.order, next |-> s.next, at |-> s.at]
  BY DEF Rec
<1> HIDE DEF t, C, O, N, A
<1>3. t = [valid |-> s.valid, latch |-> s.latch, text |-> s.text, finish |-> s.finish, done |-> s.done,
           calls |-> C, order |-> O, next |-> N, at |-> A]
  BY <1>1, <1>2
<1>4. Rec(t) /\ SameBut(s, t)
  BY <1>3 DEF Rec, SameBut
<1>5. t.calls = C /\ t.order = O /\ t.next = N /\ t.at = A
  BY <1>3
<1> QED
  BY <1>4, <1>5 DEF t, C, O, N, A

\* The place a new call takes is the first that is free.
LEMMA NextIsFree ==
  ASSUME NEW s, Dense(s)
  PROVE  NextToolIndex(s) = s.next /\ s.next \notin DOMAIN s.calls
<1> DEFINE d == DOMAIN s.calls
           P(i) == i \notin d /\ \A j \in s.next .. i - 1 : j \in d
           R == s.next .. s.next + Cardinality(d)
<1>1. s.next \in Nat /\ d = 0 .. s.next - 1
  BY DEF Dense
<1>2. Cardinality(d) \in Nat
  <2>1. s.next - 1 \in Int /\ 0 \in Int
    BY <1>1
  <2>2. IsFiniteSet(d)
    BY <1>1, <2>1, FS_Interval
  <2> QED
    BY <2>2, FS_CardinalityType
<1>3. s.next \in R
  <2> HIDE DEF d
  <2> QED
    BY <1>1, <1>2
<1>4. P(s.next)
  BY <1>1
<1>5. \A i \in R : P(i) => i = s.next
  <2> SUFFICES ASSUME NEW i \in R, P(i), i # s.next PROVE FALSE
    OBVIOUS
  <2>1. s.next \in s.next .. i - 1
    <3> HIDE DEF d
    <3> QED
      BY <1>1, <1>2
  <2> QED
    BY <1>1, <2>1
<1>6. NextToolIndex(s) = CHOOSE i \in R : P(i)
  BY DEF NextToolIndex
<1> HIDE DEF P, R
<1>7. NextToolIndex(s) = s.next
  BY <1>3, <1>4, <1>5, <1>6
<1> QED
  BY <1>1, <1>7

Raised(n, c, j) == [n EXCEPT ![c] = j]
\* From s to t a place is taken for the call of piece k.
Takes(n, s, k, t) ==
  LET i == PlaceOf(s, k)
  IN  /\ t.order = Append(s.order, i) /\ t.at[k.call] = i /\ \A x \in Made(n) : t.at[x] = s.at[x]
      /\ DOMAIN t.calls = DOMAIN s.calls \cup {i}
      /\ t.next = IF k.byIndex THEN s.next ELSE i + 1
\* From s to t no place is.
TakesNone(s, t) == t.order = s.order /\ t.at = s.at /\ DOMAIN t.calls = DOMAIN s.calls
     /\ t.next = s.next

\* A call not seen before is entered at a place of its own.
LEMMA MergeNew ==
  ASSUME NEW s, NEW n, Fits(s, n), NEW c \in Calls, n[c] = 0, NEW j \in 1 .. Parts,
         NEW k, k.call = c, k.named = TRUE, k.args = Upto(c, j),
         PlaceOf(s, k) \in Nat, PlaceOf(s, k) \notin DOMAIN s.calls
  PROVE  LET t == MergeToolCall(s, k)
         IN  Fits(t, Raised(n, c, j)) /\ SameBut(s, t) /\ Takes(n, s, k, t)
<1> DEFINE i == PlaceOf(s, k)
           t == MergeToolCall(s, k)
           m == [n EXCEPT ![c] = j]
           e == Entered(c, j)
<1>1. /\ n \in [Calls -> 0 .. Parts] /\ Rec(s) /\ s.at \in [Made(n) -> Nat] /\ IsInjective(s.at)
      /\ DOMAIN s.calls = Range(s.at) /\ \A x \in Made(n) : s.calls[s.at[x]] = Entered(x, n[x])
      /\ s.order \in Seq(Nat)
  BY DEF Fits
<1>2. Parts \in Nat /\ Calls \subseteq Nat /\ NoCall \notin Calls /\ c # NoCall
  BY ExchangeAssumption DEF NoCall
<1>3. m \in [Calls -> 0 .. Parts] /\ Made(m) = Made(n) \cup {c} /\ c \notin Made(n)
           /\ \A x \in Made(n) : m[x] = n[x]
  BY <1>1, <1>2 DEF Made
<1>4. m[c] = j
  BY <1>1
<1>5. <<>> \o k.args = Upto(c, j)
  <2>1. Upto(c, j) \in Seq(Calls \X Nat)
    BY <1>2, UptoSeq
  <2>2. <<>> \o Upto(c, j) = Upto(c, j)
    BY <2>1, ConcatEmptySeq
  <2> QED
    BY <2>2
<1>6. /\ Rec(t) /\ SameBut(s, t) /\ t.calls = Override(s.calls, {i}, e) /\ t.order = Append(s.order, i)
      /\ t.next = (IF k.byIndex THEN s.next ELSE i + 1) /\ t.at = Override(s.at, {c}, i)
  <2> DEFINE merged == [id |-> NoCall, args |-> <<>>]
             ids == (IF k.named THEN {k.call} ELSE {}) \cup ({merged.id} \ {NoCall})
  <2>1. ids = {c}
    OBVIOUS
  <2>2. [id |-> IF k.named THEN k.call ELSE merged.id, args |-> merged.args \o k.args] = e
    BY <1>5 DEF Entered
  <2> HIDE DEF ids
  <2>3. /\ Rec(t) /\ SameBut(s, t)
        /\ t.calls = Override(s.calls, {i}, [id |-> IF k.named THEN k.call ELSE merged.id, args |-> merged.args \o k.args])
        /\ t.order = Append(s.order, i) /\ t.next = (IF ~k.byIndex THEN i + 1 ELSE s.next)
        /\ t.at = Override(s.at, ids, i)
    BY <1>1, MergedCall DEF ids
  <2> QED
    BY <2>1, <2>2, <2>3
<1> HIDE DEF i, t, m, e
<1>7. i \in Nat /\ i \notin DOMAIN s.calls
  BY DEF i
<1>8. DOMAIN t.at = Made(m) /\ t.at[c] = i /\ \A x \in Made(n) : t.at[x] = s.at[x]
  <2>1. t.at = Override(s.at, {c}, i) /\ DOMAIN s.at = Made(n)
    BY <1>1, <1>6
  <2> QED
    BY <1>3, <2>1 DEF Override
<1>9. t.at \in [Made(m) -> Nat]
  <2>1. t.at = [x \in DOMAIN t.at |-> t.at[x]]
    BY <1>6 DEF Override
  <2> QED
    BY <1>1, <1>3, <1>7, <1>8, <2>1
<1>10. \A x \in Made(n) : s.at[x] # i
  BY <1>1, <1>7 DEF Range
<1>11. IsInjective(t.at)
  BY <1>1, <1>3, <1>8, <1>10 DEF IsInjective
<1>12. /\ DOMAIN t.calls = DOMAIN s.calls \cup {i} /\ t.calls[i] = e
       /\ \A y \in DOMAIN s.calls : t.calls[y] = s.calls[y]
       /\ t.calls = [y \in DOMAIN t.calls |-> t.calls[y]]
  <2>1. t.calls = Override(s.calls, {i}, e)
    BY <1>6
  <2> QED
    BY <1>7, <2>1 DEF Override
<1>13. Range(t.at) = Range(s.at) \cup {i}
  BY <1>1, <1>3, <1>8 DEF Range
<1>14. ASSUME NEW x \in Made(m) PROVE t.calls[t.at[x]] = Entered(x, m[x])
  <2>1. CASE x = c
    BY <1>4, <1>8, <1>12, <2>1 DEF e
  <2>2. CASE x \in Made(n)
    <3>1. s.at[x] \in DOMAIN s.calls
      BY <1>1, <2>2 DEF Range
    <3> QED
      BY <1>1, <1>3, <1>8, <1>12, <2>2, <3>1
  <2> QED
    BY <1>3, <2>1, <2>2
<1>15. t.order \in Seq(Nat) /\ t.order # <<>>
  <2> DEFINE o == s.order
  <2>1. o \in Seq(Nat) /\ t.order = Append(o, i)
    BY <1>1, <1>6
  <2> HIDE DEF o
  <2>2. Append(o, i) \in Seq(Nat) /\ Append(o, i) # <<>>
    BY <1>7, <2>1, AppendProperties
  <2> QED
    BY <2>1, <2>2
<1>16. Fits(t, m)
  BY <1>1, <1>3, <1>6, <1>9, <1>11, <1>12, <1>13, <1>14, <1>15 DEF Fits
<1> QED
  BY <1>6, <1>8, <1>12, <1>16 DEF i, t, m, Raised, Takes

\* The next part of a call goes where its parts are.
LEMMA MergeMore ==
  ASSUME NEW s, NEW n, Fits(s, n), NEW c \in Calls, n[c] > 0, n[c] < Parts,
         NEW k, k.call = c, k.named \in BOOLEAN, k.args = <<<<c, n[c] + 1>>>>, PlaceOf(s, k) = s.at[c]
  PROVE  LET t == MergeToolCall(s, k)
         IN  Fits(t, Raised(n, c, n[c] + 1)) /\ SameBut(s, t) /\ TakesNone(s, t)
<1> DEFINE i == PlaceOf(s, k)
           t == MergeToolCall(s, k)
           j == n[c] + 1
           m == [n EXCEPT ![c] = j]
           e == Entered(c, j)
<1>1. /\ n \in [Calls -> 0 .. Parts] /\ Rec(s) /\ s.at \in [Made(n) -> Nat] /\ IsInjective(s.at)
      /\ s.calls = [y \in DOMAIN s.calls |-> s.calls[y]]
      /\ DOMAIN s.calls = Range(s.at) /\ \A x \in Made(n) : s.calls[s.at[x]] = Entered(x, n[x])
      /\ s.order \in Seq(Nat) /\ (Made(n) # {} => s.order # <<>>)
  BY DEF Fits
<1>2. Parts \in Nat /\ Calls \subseteq Nat /\ NoCall \notin Calls /\ c # NoCall
  BY ExchangeAssumption DEF NoCall
<1>3. m \in [Calls -> 0 .. Parts] /\ Made(m) = Made(n) /\ c \in Made(n)
           /\ \A x \in Made(n) \ {c} : m[x] = n[x]
  BY <1>1, <1>2 DEF Made
<1>4. m[c] = j
  BY <1>1
<1>5. i = s.at[c] /\ i \in DOMAIN s.calls /\ s.calls[i] = Entered(c, n[c])
  BY <1>1, <1>3 DEF Range
<1>6. Upto(c, n[c]) \o k.args = Upto(c, j)
  <2>1. n[c] \in Nat
    BY <1>1, <1>2
  <2> QED
    BY <2>1, UptoFurther
<1>7. /\ Rec(t) /\ SameBut(s, t) /\ t.calls = Override(s.calls, {i}, e) /\ t.order = s.order
      /\ t.next = s.next /\ t.at = Override(s.at, {c}, i)
  <2> DEFINE merged == s.calls[i]
             ids == (IF k.named THEN {k.call} ELSE {}) \cup ({merged.id} \ {NoCall})
  <2>0. merged.id = c /\ merged.args = Upto(c, n[c])
    BY <1>5 DEF Entered
  <2>1. ids = {c}
    BY <1>2, <2>0
  <2>2. [id |-> IF k.named THEN k.call ELSE merged.id, args |-> merged.args \o k.args] = e
    BY <1>6, <2>0 DEF Entered
  <2> HIDE DEF ids
  <2>3. /\ Rec(t) /\ SameBut(s, t)
        /\ t.calls = Override(s.calls, {i}, [id |-> IF k.named THEN k.call ELSE merged.id, args |-> merged.args \o k.args])
        /\ t.order = s.order /\ t.next = s.next
        /\ t.at = Override(s.at, ids, i)
    <3>1. Rec(s) /\ i \in DOMAIN s.calls
      BY <1>1, <1>5
    <3> QED
      BY <3>1, MergedCall DEF ids
  <2> QED
    BY <2>1, <2>2, <2>3
<1> HIDE DEF i, t, m, e
<1>8. t.at = s.at
  <2> DEFINE g == Override(s.at, {c}, i)
  <2>1. /\ DOMAIN g = DOMAIN s.at /\ g = [x \in DOMAIN g |-> g[x]]
             /\ s.at = [x \in DOMAIN s.at |-> s.at[x]]
        /\ \A x \in DOMAIN g : g[x] = s.at[x]
    BY <1>1, <1>3, <1>5 DEF Override
  <2> HIDE DEF g
  <2>2. g = s.at
    BY <2>1
  <2> QED
    BY <1>7, <2>2 DEF g
<1>9. DOMAIN t.calls = DOMAIN s.calls /\ t.calls[i] = e
           /\ (\A y \in DOMAIN s.calls \ {i} : t.calls[y] = s.calls[y])
      /\ t.calls = [y \in DOMAIN t.calls |-> t.calls[y]]
  <2>1. t.calls = Override(s.calls, {i}, e)
    BY <1>7
  <2> QED
    BY <1>5, <2>1 DEF Override
<1>10. ASSUME NEW x \in Made(m) PROVE t.calls[t.at[x]] = Entered(x, m[x])
  <2>1. CASE x = c
    BY <1>4, <1>5, <1>8, <1>9, <2>1 DEF e
  <2>2. CASE x # c
    <3>1. s.at[x] \in DOMAIN s.calls \ {i} /\ x \in Made(n)
      BY <1>1, <1>3, <1>5, <2>2 DEF Range, IsInjective
    <3> QED
      BY <1>1, <1>3, <1>8, <1>9, <2>2, <3>1
  <2> QED
    BY <2>1, <2>2
<1>11. Fits(t, m)
  BY <1>1, <1>3, <1>7, <1>8, <1>9, <1>10 DEF Fits
<1> QED
  BY <1>7, <1>8, <1>9, <1>11 DEF i, t, m, Raised, TakesNone

\* A set in some order.
LEMMA SetSeq ==
  ASSUME NEW S, IsFiniteSet(S)
  PROVE  SetToSeq(S) \in Seq(S) /\ IsInjective(SetToSeq(S)) /\ Range(SetToSeq(S)) = S
<1> DEFINE q == SetToSeq(S)
<1>1. PICK m \in Nat : ExistsBijection(1 .. m, S)
  BY FS_NatBijection
<1>2. Cardinality(S) = m
  BY <1>1, FS_CountingElements
<1>3. PICK f \in [1 .. m -> S] : IsInjective(f)
  BY <1>1 DEF ExistsBijection, Bijection, Injection, IsInjective
<1>4. q = CHOOSE g \in [1 .. m -> S] : IsInjective(g)
  BY <1>2 DEF SetToSeq
<1>5. q \in [1 .. m -> S] /\ IsInjective(q)
  <2> DEFINE P(g) == IsInjective(g)
  <2>1. \E g \in [1 .. m -> S] : P(g)
    BY <1>3
  <2>2. q = CHOOSE g \in [1 .. m -> S] : P(g)
    BY <1>4
  <2> HIDE DEF q, P
  <2>3. q \in [1 .. m -> S] /\ P(q)
    BY <2>1, <2>2
  <2> QED
    BY <2>3 DEF P
<1> HIDE DEF q
<1>6. q \in Injection(1 .. m, S)
  BY <1>5 DEF Injection, IsInjective
<1>7. IsFiniteSet(1 .. m) /\ Cardinality(1 .. m) = m
  BY FS_Interval
<1>8. q \in Surjection(1 .. m, S)
  BY <1>2, <1>6, <1>7, FS_Injection
<1>9. Range(q) = S
  BY <1>5, <1>8 DEF Surjection, Range
<1>10. q \in Seq(S)
  BY <1>5
<1> QED
  BY <1>5, <1>9, <1>10 DEF q

\* The pieces of a whole message.
Whole(q) == [i \in DOMAIN q |-> WholeCall(q[i])]
Piece == [call : Calls, args : Seq(Calls \X Nat), byIndex : BOOLEAN, named : BOOLEAN]
CountOf(q) == [c \in Calls |-> IF c \in Range(q) THEN Parts ELSE 0]

LEMMA WholeIs ==
  ASSUME NEW c \in Calls
  PROVE  LET k == WholeCall(c)
         IN  /\ k \in Piece /\ k.call = c /\ k.named = TRUE /\ k.byIndex = FALSE
                  /\ k.args = Upto(c, Parts)
<1>1. Parts \in Nat
  BY ExchangeAssumption
<1>2. Upto(c, Parts) \in Seq(Calls \X Nat)
  BY <1>1, UptoSeq
<1>3. WholeCall(c) = [call |-> c, args |-> Upto(c, Parts), byIndex |-> FALSE, named |-> TRUE]
  BY DEF WholeCall, Upto
<1> QED
  BY <1>2, <1>3 DEF Piece

LEMMA WholeSeq ==
  ASSUME NEW q \in Seq(Calls)
  PROVE  Whole(q) \in Seq(Piece) /\ Len(Whole(q)) = Len(q)
       /\ \A i \in 1 .. Len(q) : Whole(q)[i] = WholeCall(q[i])
<1>1. \A i \in DOMAIN q : WholeCall(q[i]) \in Piece
  <2>1. \A i \in DOMAIN q : q[i] \in Calls
    OBVIOUS
  <2> QED
    BY <2>1, WholeIs
<1>2. DOMAIN q = 1 .. Len(q) /\ Len(q) \in Nat
  OBVIOUS
<1>3. Whole(q) \in [1 .. Len(q) -> Piece]
  BY <1>1, <1>2 DEF Whole
<1>4. Whole(q) \in Seq(Piece)
  BY <1>2, <1>3
<1> QED
  BY <1>2, <1>3, <1>4 DEF Whole

LEMMA WholeFurther ==
  ASSUME NEW q \in Seq(Calls), NEW c \in Calls
  PROVE  Whole(Append(q, c)) = Append(Whole(q), WholeCall(c))
<1> DEFINE a == Append(q, c)
           v == Whole(a)
           u == Whole(q)
           k == WholeCall(c)
           w == Append(u, k)
<1>1. a \in Seq(Calls) /\ Len(a) = Len(q) + 1 /\ Len(q) \in Nat /\ a[Len(q) + 1] = c
           /\ \A i \in 1 .. Len(q) : a[i] = q[i]
  BY AppendProperties
<1>2. k \in Piece
  BY WholeIs
<1>3. u \in Seq(Piece) /\ Len(u) = Len(q) /\ \A i \in 1 .. Len(q) : u[i] = WholeCall(q[i])
  BY WholeSeq
<1> HIDE DEF a, u
<1>4. v \in Seq(Piece) /\ Len(v) = Len(a) /\ \A i \in 1 .. Len(a) : v[i] = WholeCall(a[i])
  BY <1>1, WholeSeq
<1> HIDE DEF v
<1>5. w \in Seq(Piece) /\ Len(w) = Len(u) + 1 /\ w[Len(u) + 1] = k /\ \A i \in 1 .. Len(u) : w[i] = u[i]
  BY <1>2, <1>3, AppendProperties
<1> HIDE DEF w
<1>6. ASSUME NEW i \in 1 .. Len(v) PROVE v[i] = w[i]
  <2>1. i \in 1 .. Len(q) \/ i = Len(q) + 1
    BY <1>1, <1>4
  <2> QED
    BY <1>1, <1>3, <1>4, <1>5, <2>1
<1>7. v = w
  BY <1>1, <1>3, <1>4, <1>5, <1>6, SeqEqual
<1> QED
  BY <1>7 DEF a, u, v, w

LEMMA AllMade ==
  ASSUME NEW s, NEW n, Fits(s, n), Made(n) = {}, Dense(s)
  PROVE  \A q \in Seq(Calls) : IsInjective(q) =>
           LET t == FoldLeft(MergeToolCall, s, Whole(q))
           IN  Fits(t, CountOf(q)) /\ SameBut(s, t)
<1> DEFINE M(q) == Passed("call", {}, s, Whole(q))
           Good(q) == IsInjective(q) => Fits(M(q), CountOf(q)) /\ Dense(M(q)) /\ SameBut(s, M(q))
           G == {q \in Seq(Calls) : Good(q)}
<1>0. Parts \in Nat \ {0}
  BY ExchangeAssumption
<1>1. <<>> \in G
  <2>1. Whole(<<>>) = <<>>
    BY DEF Whole
  <2>2. M(<<>>) = s
    BY <2>1, PassedOfNone
  <2>3. CountOf(<<>>) = n
    <3>1. n \in [Calls -> 0 .. Parts]
      BY DEF Fits
    <3>2. \A c \in Calls : n[c] = 0
      BY <1>0, <3>1 DEF Made
    <3>3. Range(<<>>) = {}
      BY DEF Range
    <3> QED
      BY <3>1, <3>2, <3>3 DEF CountOf
  <2>4. SameBut(s, s)
    BY DEF SameBut
  <2> HIDE DEF M
  <2>5. Good(<<>>)
    BY <2>2, <2>3, <2>4
  <2> QED
    BY <2>5
<1>2. ASSUME NEW q \in Seq(Calls), Good(q), NEW c \in Calls PROVE Good(Append(q, c))
  <2> SUFFICES ASSUME IsInjective(Append(q, c))
               PROVE  LET t == M(Append(q, c)) IN Fits(t, CountOf(Append(q, c))) /\ Dense(t)
                    /\ SameBut(s, t)
    OBVIOUS
  <2> DEFINE u == M(q)
             k == WholeCall(c)
             t == M(Append(q, c))
             m == CountOf(q)
  <2>1. IsInjective(q) /\ c \notin Range(q) /\ Range(Append(q, c)) = Range(q) \cup {c}
    BY InjectiveFurther, RangeFurther
  <2>2. Fits(u, m) /\ Dense(u) /\ SameBut(s, u)
    BY <1>2, <2>1
  <2>3. k \in Piece /\ k.call = c /\ k.named = TRUE /\ k.byIndex = FALSE /\ k.args = Upto(c, Parts)
    BY WholeIs
  <2>4. t = MergeToolCall(u, k)
    <3>1. Whole(q) \in Seq(Piece) /\ Whole(Append(q, c)) = Append(Whole(q), k)
      BY WholeSeq, WholeFurther
    <3> HIDE DEF k
    <3>2. M(Append(q, c)) = Step("call", {}, u, k)
      BY <2>3, <3>1, PassedFurther
    <3> HIDE DEF M
    <3> QED
      BY <3>2 DEF Step
  <2>5. m[c] = 0 /\ CountOf(Append(q, c)) = Raised(m, c, Parts)
    BY <2>1 DEF CountOf, Raised
  <2> HIDE DEF u, k, t, m, M
  <2>6. c \notin DOMAIN u.at
    <3>1. DOMAIN u.at = Made(m)
      BY <2>2 DEF Fits
    <3> QED
      BY <2>5, <3>1 DEF Made
  <2>7. NextToolIndex(u) = u.next /\ u.next \notin DOMAIN u.calls /\ u.next \in Nat
    BY <2>2, NextIsFree DEF Dense
  <2>8. PlaceOf(u, k) = NextToolIndex(u)
    BY <2>3, <2>6 DEF PlaceOf
  <2>9. /\ Fits(t, Raised(m, c, Parts)) /\ SameBut(u, t)
        /\ DOMAIN t.calls = DOMAIN u.calls \cup {u.next} /\ t.next = u.next + 1
    <3>1. Parts \in 1 .. Parts
      BY <1>0
    <3>2. PlaceOf(u, k) = u.next
      BY <2>7, <2>8
    <3>3. PlaceOf(u, k) \in Nat /\ PlaceOf(u, k) \notin DOMAIN u.calls /\ k.named
      BY <2>3, <2>7, <3>2
    <3>4. Fits(t, Raised(m, c, Parts)) /\ SameBut(u, t) /\ Takes(m, u, k, t)
      <4>1. Fits(u, m) /\ m[c] = 0 /\ Parts \in 1 .. Parts
        BY <2>2, <2>5, <3>1
      <4>2. k.call = c /\ k.named = TRUE /\ k.args = Upto(c, Parts)
        BY <2>3
      <4> QED
        BY <2>4, <3>3, <4>1, <4>2, MergeNew
    <3> QED
      BY <2>3, <3>2, <3>4 DEF Takes
  <2>10. Dense(t)
    BY <2>2, <2>9 DEF Dense
  <2>11. SameBut(s, t)
    BY <2>2, <2>9 DEF SameBut
  <2> QED
    BY <2>5, <2>9, <2>10, <2>11 DEF t
<1> HIDE DEF Good
<1>3. \A q \in Seq(Calls) : q \in G => \A c \in Calls : Append(q, c) \in G
  <2> SUFFICES ASSUME NEW q \in Seq(Calls), q \in G, NEW c \in Calls PROVE Append(q, c) \in G
    OBVIOUS
  <2>1. Good(Append(q, c))
    BY <1>2
  <2>2. Append(q, c) \in Seq(Calls)
    BY AppendProperties
  <2> QED
    BY <2>1, <2>2
<1>4. Seq(Calls) \subseteq G
  <2> HIDE DEF G
  <2> QED
    BY <1>1, <1>3, GrowingSeq
<1>5. \A q : FoldLeft(MergeToolCall, s, Whole(q)) = M(q)
  BY CallsArePass
<1>6. \A q \in Seq(Calls) : Good(q)
  BY <1>4
<1> HIDE DEF M, G
<1> QED
  BY <1>5, <1>6 DEF Good

-----------------------------------------------------------------------------
(* What the frames say. *)

AFrame == [kind : {"delta", "message", "done", "junk", "torn"}, text : {0, 1},
           calls : Seq(Piece), finish : {"", "length", "stop"}]
Long(fs) == \E f \in Range(fs) : f.finish = "length"
Calling(fs) == \E f \in Range(fs) : f.calls # <<>>
Shown(c, k) == {<<c, p>> : p \in 1 .. k}
PartsOf(f, c) == (UNION {Range(k.args) : k \in Range(f.calls)}) \cap Shown(c, Parts)

LEMMA SaysNone == Kinds(<<>>) = {} /\ ~HasText(<<>>) /\ ~Long(<<>>) /\ ~Calling(<<>>)
     /\ \A c : PartsIn(<<>>, c) = {}
<1>1. Range(<<>>) = {}
  BY DEF Range
<1> QED
  BY <1>1 DEF Kinds, HasText, Long, Calling, PartsIn

LEMMA SaysMore ==
  ASSUME NEW fs \in Seq(AFrame), NEW f \in AFrame
  PROVE  /\ Kinds(Append(fs, f)) = Kinds(fs) \cup {f.kind}
         /\ HasText(Append(fs, f)) <=> HasText(fs) \/ f.text # 0
         /\ Long(Append(fs, f)) <=> Long(fs) \/ f.finish = "length"
         /\ Calling(Append(fs, f)) <=> Calling(fs) \/ f.calls # <<>>
<1>1. Range(Append(fs, f)) = Range(fs) \cup {f}
  BY RangeFurther
<1>2. f.text > 0 <=> f.text # 0
  <2>1. f.text \in {0, 1}
    BY DEF AFrame
  <2> QED
    BY <2>1
<1> QED
  BY <1>1, <1>2 DEF Kinds, HasText, Long, Calling

LEMMA PartsFurther ==
  ASSUME NEW fs \in Seq(AFrame), NEW f \in AFrame, NEW c
  PROVE  PartsIn(Append(fs, f), c) = PartsIn(fs, c) \cup PartsOf(f, c)
<1>1. Range(Append(fs, f)) = Range(fs) \cup {f}
  BY RangeFurther
<1>2. ASSUME NEW gs, NEW e
      PROVE  e \in PartsIn(gs, c) <=> e \in Shown(c, Parts)
           /\ \E g \in Range(gs) : \E k \in Range(g.calls) : e \in Range(k.args)
  BY DEF PartsIn, Shown
<1>3. ASSUME NEW e
      PROVE  e \in PartsOf(f, c) <=> e \in Shown(c, Parts)
           /\ \E k \in Range(f.calls) : e \in Range(k.args)
  BY DEF PartsOf
<1>4. ASSUME NEW e PROVE e \in PartsIn(Append(fs, f), c) <=> e \in PartsIn(fs, c) \cup PartsOf(f, c)
  BY <1>1, <1>2, <1>3
<1> QED
  BY <1>4

\* What carries no call shows no part, a fragment one, a whole call all.
LEMMA PartsOfNone == ASSUME NEW f, f.calls = <<>>, NEW c PROVE PartsOf(f, c) = {}
<1>1. Range(<<>>) = {}
  BY DEF Range
<1> QED
  BY <1>1 DEF PartsOf

LEMMA PartsOfOne ==
  ASSUME NEW f, NEW k, f.calls = <<k>>, NEW c \in Calls, NEW p \in 1 .. Parts, k.args = <<<<c, p>>>>
  PROVE  PartsOf(f, c) = {<<c, p>>} /\ \A x \in Calls \ {c} : PartsOf(f, x) = {}
<1>1. Range(f.calls) = {k} /\ Range(k.args) = {<<c, p>>}
  BY DEF Range
<1> QED
  BY <1>1 DEF PartsOf, Shown

LEMMA PartsOfWhole ==
  ASSUME NEW f, NEW q \in Seq(Calls), f.calls = Whole(q), NEW x \in Calls
  PROVE  PartsOf(f, x) = IF x \in Range(q) THEN Shown(x, Parts) ELSE {}
<1>1. Parts \in Nat
  BY ExchangeAssumption
<1>2. Range(f.calls) = {WholeCall(c) : c \in Range(q)}
  BY DEF Whole, Range
<1>3. ASSUME NEW c \in Range(q) PROVE Range(WholeCall(c).args) = Shown(c, Parts)
  <2>1. c \in Calls
    BY DEF Range
  <2>2. WholeCall(c).args = Upto(c, Parts)
    BY <2>1, WholeIs
  <2> QED
    BY <1>1, <2>1, <2>2, UptoSeq DEF Shown
<1>4. ASSUME NEW e
      PROVE  e \in PartsOf(f, x) <=> e \in Shown(x, Parts) /\ \E c \in Range(q) : e \in Shown(c, Parts)
  <2>1. e \in PartsOf(f, x) <=> e \in Shown(x, Parts) /\ \E k \in Range(f.calls) : e \in Range(k.args)
    BY DEF PartsOf
  <2> QED
    BY <1>2, <1>3, <2>1
<1> QED
  BY <1>4 DEF Shown

LEMMA PartsCount ==
  ASSUME NEW c, NEW k \in Nat
  PROVE  IsFiniteSet(Shown(c, k)) /\ Cardinality(Shown(c, k)) = k
<1> DEFINE f == [p \in 1 .. k |-> <<c, p>>]
<1>1. f \in Bijection(1 .. k, Shown(c, k))
  BY DEF Shown, Bijection, Injection, Surjection, IsInjective
<1>2. ExistsBijection(1 .. k, Shown(c, k))
  BY <1>1 DEF ExistsBijection
<1> QED
  BY <1>2, FS_NatBijection, FS_CountingElements

LEMMA PartsFinite ==
  ASSUME NEW fs, NEW c PROVE Cardinality(PartsIn(fs, c)) \in Nat
<1>1. PartsIn(fs, c) \subseteq Shown(c, Parts)
  BY DEF PartsIn, Shown
<1>2. IsFiniteSet(Shown(c, Parts))
  BY ExchangeAssumption, PartsCount
<1> QED
  BY <1>1, <1>2, FS_Subset, FS_CardinalityType

LEMMA RepeatsFurther ==
  ASSUME NEW fs \in Seq(AFrame), NEW f \in AFrame
  PROVE  /\ Repeats(fs) => Repeats(Append(fs, f))
         /\ f.kind = "message" /\ ~HasText(fs) /\ Calling(fs) => Repeats(Append(fs, f))
<1> DEFINE g == Append(fs, f)
<1>1. /\ DOMAIN g = 1 .. Len(fs) + 1 /\ Len(fs) \in Nat /\ DOMAIN fs = 1 .. Len(fs)
      /\ g[Len(fs) + 1] = f /\ \A i \in 1 .. Len(fs) : g[i] = fs[i]
  BY AppendProperties
<1> HIDE DEF g
<1>2. ASSUME Repeats(fs) PROVE Repeats(g)
  <2>1. PICK j \in DOMAIN fs : /\ fs[j].kind = "message" /\ \A i \in 1 .. j - 1 : fs[i].text = 0
                               /\ \E i \in 1 .. j - 1 : fs[i].calls # <<>>
    BY <1>2 DEF Repeats
  <2>2. j \in DOMAIN g /\ \A i \in 1 .. j : g[i] = fs[i]
    BY <1>1
  <2> QED
    BY <1>1, <2>1, <2>2 DEF Repeats
<1>3. ASSUME f.kind = "message", ~HasText(fs), Calling(fs) PROVE Repeats(g)
  <2> DEFINE j == Len(fs) + 1
  <2>1. j \in DOMAIN g /\ j - 1 = Len(fs) /\ g[j].kind = "message"
    BY <1>1, <1>3
  <2>2. \A i \in 1 .. Len(fs) : fs[i] \in Range(fs) /\ fs[i] \in AFrame
    BY DEF Range
  <2>3. \A i \in 1 .. Len(fs) : fs[i].text = 0
    <3> SUFFICES ASSUME NEW i \in 1 .. Len(fs) PROVE fs[i].text = 0
      OBVIOUS
    <3>1. fs[i].text \in {0, 1}
      <4>1. fs[i] \in AFrame
        BY <2>2
      <4> QED
        BY <4>1 DEF AFrame
    <3>2. ~(fs[i].text > 0)
      BY <1>3, <2>2 DEF HasText
    <3> QED
      BY <3>1, <3>2
  <2>4. \E i \in 1 .. Len(fs) : fs[i].calls # <<>>
    BY <1>1, <1>3 DEF Calling, Range
  <2> HIDE DEF j
  <2> QED
    BY <1>1, <2>1, <2>3, <2>4 DEF Repeats
<1> QED
  BY <1>2, <1>3 DEF g

\* The end mark ends what is heard.
LEMMA HeardIs ==
  ASSUME NEW fs \in Seq(AFrame)
  PROVE  /\ "done" \notin Kinds(fs) => Heard(fs) = fs
         /\ "done" \in Kinds(fs) => \E k \in 1 .. Len(fs) :
              /\ Heard(fs) = SubSeq(fs, 1, k) /\ fs[k].kind = "done"
              /\ \A i \in 1 .. k - 1 : fs[i].kind # "done"
<1> DEFINE marks == {i \in DOMAIN fs : fs[i].kind = "done"}
<1>1. "done" \in Kinds(fs) <=> marks # {}
  BY DEF Kinds, Range
<1>2. Heard(fs) = IF marks = {} THEN fs ELSE SubSeq(fs, 1, Min(marks))
  BY DEF Heard
<1>3. DOMAIN fs = 1 .. Len(fs) /\ marks \subseteq Nat
  OBVIOUS
<1>4. ASSUME marks # {} PROVE Min(marks) \in marks /\ \A i \in marks : Min(marks) <= i
  <2> HIDE DEF marks
  <2>1. \E x \in marks : \A y \in marks : x <= y
    BY <1>3, <1>4, LeastNumber
  <2> QED
    BY <2>1 DEF Min
<1>5. ASSUME marks # {}
      PROVE  LET k == Min(marks) IN k \in 1 .. Len(fs) /\ fs[k].kind = "done"
           /\ \A i \in 1 .. k - 1 : fs[i].kind # "done"
  <2> DEFINE k == Min(marks)
  <2>1. k \in marks /\ \A i \in marks : k <= i
    BY <1>4, <1>5
  <2> HIDE DEF k
  <2>2. k \in 1 .. Len(fs) /\ fs[k].kind = "done" /\ Len(fs) \in Nat
    BY <2>1
  <2>3. ASSUME NEW i \in 1 .. k - 1 PROVE fs[i].kind # "done"
    <3>1. i \in DOMAIN fs /\ ~(k <= i)
      BY <2>2
    <3> QED
      BY <2>1, <3>1
  <2> QED
    BY <2>2, <2>3 DEF k
<1> HIDE DEF marks
<1> QED
  BY <1>1, <1>2, <1>5

LEMMA HeardFurther ==
  ASSUME NEW fs \in Seq(AFrame), NEW f \in AFrame
  PROVE  /\ "done" \in Kinds(fs) => Heard(Append(fs, f)) = Heard(fs)
         /\ "done" \notin Kinds(fs) => Heard(fs) = fs /\ Heard(Append(fs, f)) = Append(fs, f)
<1> DEFINE g == Append(fs, f)
           n == Len(fs)
<1>1. /\ g \in Seq(AFrame) /\ Len(g) = n + 1 /\ n \in Nat /\ DOMAIN fs = 1 .. n
      /\ g[n + 1] = f /\ \A i \in 1 .. n : g[i] = fs[i]
  BY AppendProperties
<1>2. Kinds(g) = Kinds(fs) \cup {f.kind}
  BY SaysMore
<1>3. \A i \in 1 .. n : fs[i].kind \in Kinds(fs)
  BY DEF Kinds, Range
<1> HIDE DEF g
<1>4. CASE "done" \in Kinds(fs)
  <2>1. PICK k \in 1 .. n : /\ Heard(fs) = SubSeq(fs, 1, k) /\ fs[k].kind = "done"
                            /\ \A i \in 1 .. k - 1 : fs[i].kind # "done"
    BY <1>4, HeardIs
  <2>2. PICK m \in 1 .. n + 1 : /\ Heard(g) = SubSeq(g, 1, m) /\ g[m].kind = "done"
                                /\ \A i \in 1 .. m - 1 : g[i].kind # "done"
    BY <1>1, <1>2, <1>4, HeardIs
  <2>3. m = k
    <3>1. ~(m < k)
      BY <1>1, <2>1, <2>2
    <3>2. ~(k < m)
      BY <1>1, <2>1, <2>2
    <3> QED
      BY <1>1, <3>1, <3>2
  <2>4. SubSeq(g, 1, k) = SubSeq(fs, 1, k)
    <3> DEFINE v == SubSeq(g, 1, k)
               w == SubSeq(fs, 1, k)
    <3>1. (\A i \in 1 .. k : g[i] \in AFrame) /\ (\A i \in 1 .. k : fs[i] \in AFrame) /\ 1 \in Int
               /\ k \in Int
      BY <1>1
    <3>2. v \in Seq(AFrame) /\ Len(v) = k /\ \A i \in 1 .. k : v[i] = g[i]
      BY <1>1, <3>1, SubSeqProperties
    <3>3. w \in Seq(AFrame) /\ Len(w) = k /\ \A i \in 1 .. k : w[i] = fs[i]
      BY <1>1, <3>1, SubSeqProperties
    <3> HIDE DEF v, w
    <3>4. \A i \in 1 .. Len(v) : v[i] = w[i]
      BY <1>1, <3>2, <3>3
    <3>5. v = w
      BY <3>2, <3>3, <3>4, SeqEqual
    <3> QED
      BY <3>5 DEF v, w
  <2> QED
    BY <1>4, <2>1, <2>2, <2>3, <2>4 DEF g
<1>5. CASE "done" \notin Kinds(fs) /\ f.kind # "done"
  BY <1>1, <1>2, <1>5, HeardIs DEF g
<1>6. CASE "done" \notin Kinds(fs) /\ f.kind = "done"
  <2>1. PICK m \in 1 .. n + 1 : Heard(g) = SubSeq(g, 1, m) /\ g[m].kind = "done"
    BY <1>1, <1>2, <1>6, HeardIs
  <2>2. m = n + 1
    BY <1>1, <1>3, <1>6, <2>1
  <2>3. SubSeq(g, 1, n + 1) = g
    BY <1>1, SubSeqFull
  <2> QED
    BY <1>6, <2>1, <2>2, <2>3, HeardIs DEF g
<1> QED
  BY <1>4, <1>5, <1>6

-----------------------------------------------------------------------------
(* What is put together agrees with what was said. *)

Begun(s, f) == [s EXCEPT !.valid = TRUE, !.finish = IF f.finish = "" THEN s.finish ELSE f.finish]
SameCalls(s, t) == t.calls = s.calls /\ t.order = s.order /\ t.next = s.next /\ t.at = s.at

LEMMA LineIdle ==
  ASSUME NEW s, NEW f, s.done \/ f.kind \notin {"delta", "message", "done"} PROVE MergeLine(s, f) = s
BY DEF MergeLine

LEMMA LineDone ==
  ASSUME NEW s, Rec(s), NEW f, ~s.done, f.kind = "done"
  PROVE  LET t == MergeLine(s, f)
         IN  /\ Rec(t) /\ SameCalls(s, t) /\ t.done = TRUE
             /\ t.valid = s.valid /\ t.latch = s.latch /\ t.text = s.text /\ t.finish = s.finish
<1> DEFINE t == MergeLine(s, f)
<1>1. t = [s EXCEPT !.done = TRUE]
  BY DEF MergeLine
<1> HIDE DEF t
<1> QED
  BY <1>1 DEF Rec, SameCalls, t

Begins(s, f, t) ==
  /\ Rec(t) /\ SameCalls(s, t) /\ t.done = s.done /\ t.valid = TRUE /\ t.latch = s.latch
  /\ t.text = s.text /\ t.finish = IF f.finish = "" THEN s.finish ELSE f.finish
LEMMA LineBegun == ASSUME NEW s, Rec(s), NEW f PROVE Begins(s, f, Begun(s, f))
<1> DEFINE t == Begun(s, f)
<1>1. t = [s EXCEPT !.valid = TRUE, !.finish = IF f.finish = "" THEN s.finish ELSE f.finish]
  BY DEF Begun
<1> HIDE DEF t
<1> QED
  BY <1>1 DEF Rec, SameCalls, Begins, t

Words(s, x, t) ==
  /\ Rec(t) /\ SameCalls(s, t) /\ t.done = s.done /\ t.valid = s.valid /\ t.finish = s.finish
  /\ x = 0 => t.text = s.text /\ t.latch = s.latch
  /\ x # 0 => t.text = s.text + x /\ t.latch = TRUE
LEMMA LineWorded == ASSUME NEW s, Rec(s), NEW x PROVE Words(s, x, AppendContent(s, x))
<1> DEFINE t == AppendContent(s, x)
<1>1. t = IF x = 0 THEN s ELSE [s EXCEPT !.text = s.text + x, !.latch = TRUE]
  BY DEF AppendContent
<1> HIDE DEF t
<1>2. CASE x = 0
  BY <1>1, <1>2 DEF SameCalls, Words, t
<1>3. CASE x # 0
  BY <1>1, <1>3 DEF Rec, SameCalls, Words, t
<1> QED
  BY <1>2, <1>3

LEMMA LineSaid ==
  ASSUME NEW s, NEW f, ~s.done, f.kind \in {"delta", "message"}
  PROVE  MergeLine(s, f) = IF f.kind = "message" /\ s.latch THEN Begun(s, f)
                           ELSE FoldLeft(MergeToolCall, AppendContent(Begun(s, f), f.text), f.calls)
BY DEF MergeLine, Begun

LEMMA FoldNone == \A s : FoldLeft(MergeToolCall, s, <<>>) = s
BY CallsArePass, PassedOfNone

LEMMA FoldOne ==
  ASSUME NEW s, NEW k \in Piece
  PROVE  FoldLeft(MergeToolCall, s, <<k>>) = MergeToolCall(s, k)
<1>1. <<k>> = Append(<<>>, k) /\ <<>> \in Seq(Piece)
  OBVIOUS
<1>2. Passed("call", {}, s, <<k>>) = Step("call", {}, Passed("call", {}, s, <<>>), k)
  <2>1. Passed("call", {}, s, Append(<<>>, k)) = Step("call", {}, Passed("call", {}, s, <<>>), k)
    <3> DEFINE e == <<>>
    <3>1. e \in Seq(Piece)
      OBVIOUS
    <3> HIDE DEF e
    <3>2. Passed("call", {}, s, Append(e, k)) = Step("call", {}, Passed("call", {}, s, e), k)
      BY <3>1, PassedFurther
    <3> QED
      BY <3>2 DEF e
  <2> QED
    BY <1>1, <2>1
<1>3. Passed("call", {}, s, <<k>>) = MergeToolCall(s, k)
  BY <1>2, PassedOfNone DEF Step
<1> QED
  BY <1>3, CallsArePass

LEMMA FitsSame == ASSUME NEW s, NEW t, NEW n, Fits(s, n), Rec(t), SameCalls(s, t) PROVE Fits(t, n)
BY DEF Fits, SameCalls

\* Text, finish and marks agree with the frames' own.
Marks(h, s, n) ==
  /\ s.done <=> "done" \in Kinds(h)
  /\ s.valid \in BOOLEAN /\ (s.valid <=> "delta" \in Kinds(h) \/ "message" \in Kinds(h))
  /\ s.text = (IF HasText(h) THEN 1 ELSE 0) /\ (s.latch <=> HasText(h))
  /\ "message" \in Kinds(h) => HasText(h)
  /\ Long(h) => s.finish = "length" \/ ("message" \in Kinds(h) /\ \A c \in Made(n) : n[c] = Parts)
  /\ ~Long(h) => s.finish # "length"
  /\ Made(n) # {} => Calling(h)
\* The places are such that the next fragment finds its call.
Ordered(how, s, n) ==
  /\ how = "index" => \A c \in Made(n) : s.at[c] = c
  /\ how # "index" \/ Made(n) = {} => Dense(s)
  /\ how = "first" => \A c \in Made(n) : n[c] < Parts => s.at[c] = Last(s.order)
Said(h, n) == \A c \in Calls : PartsIn(h, c) = Shown(c, n[c])
Tale(how, h, s, n) ==
  Fits(s, n) /\ Said(h, n) /\ Marks(h, s, n) /\ ("message" \notin Kinds(h) => Ordered(how, s, n))

LEMMA SaidSame ==
  ASSUME NEW h \in Seq(AFrame), NEW f \in AFrame, NEW n, Said(h, n), f.calls = <<>>
  PROVE  Said(Append(h, f), n)
<1> SUFFICES ASSUME NEW c \in Calls PROVE PartsIn(Append(h, f), c) = Shown(c, n[c])
  BY DEF Said
<1>1. PartsIn(Append(h, f), c) = PartsIn(h, c) \cup PartsOf(f, c)
  BY PartsFurther
<1>2. PartsOf(f, c) = {}
  BY PartsOfNone
<1> QED
  BY <1>1, <1>2 DEF Said

LEMMA OrderedSame ==
  ASSUME NEW how, NEW s, NEW t, NEW n, Ordered(how, s, n), SameCalls(s, t)
  PROVE  Ordered(how, t, n)
BY DEF Ordered, SameCalls, Dense

LEMMA TaleIdle ==
  ASSUME NEW how, NEW h \in Seq(AFrame), NEW s, NEW n, Tale(how, h, s, n), NEW f \in AFrame,
         f.kind \in {"junk", "torn"}, f.calls = <<>>, f.text = 0, f.finish = ""
  PROVE  Tale(how, Append(h, f), MergeLine(s, f), n)
<1>1. MergeLine(s, f) = s
  BY LineIdle
<1>2. Said(Append(h, f), n)
  BY SaidSame DEF Tale
<1>3. Marks(Append(h, f), s, n)
  <2> DEFINE g == Append(h, f)
  <2>1. /\ Kinds(g) = Kinds(h) \cup {f.kind} /\ (HasText(g) <=> HasText(h)) /\ (Long(g) <=> Long(h))
        /\ (Calling(g) <=> Calling(h))
    BY SaysMore
  <2> HIDE DEF g
  <2>2. Marks(h, s, n)
    BY DEF Tale
  <2>3. Marks(g, s, n)
    BY <2>1, <2>2 DEF Marks
  <2> QED
    BY <2>3 DEF g
<1>4. "message" \notin Kinds(Append(h, f)) => Ordered(how, s, n)
  BY SaysMore DEF Tale
<1> QED
  BY <1>1, <1>2, <1>3, <1>4 DEF Tale

LEMMA TaleDone ==
  ASSUME NEW how, NEW h \in Seq(AFrame), NEW s, NEW n, Tale(how, h, s, n), NEW f \in AFrame,
         "done" \notin Kinds(h), f.kind = "done", f.calls = <<>>, f.text = 0, f.finish = ""
  PROVE  Tale(how, Append(h, f), MergeLine(s, f), n)
<1> DEFINE t == MergeLine(s, f)
<1>1. Fits(s, n) /\ Said(h, n) /\ Marks(h, s, n) /\ Rec(s) /\ ~s.done
  BY DEF Tale, Fits, Marks
<1>2. /\ Rec(t) /\ SameCalls(s, t) /\ t.done = TRUE
      /\ t.valid = s.valid /\ t.latch = s.latch /\ t.text = s.text /\ t.finish = s.finish
  BY <1>1, LineDone
<1> HIDE DEF t
<1>3. Fits(t, n)
  BY <1>1, <1>2, FitsSame
<1>4. Said(Append(h, f), n)
  BY <1>1, SaidSame
<1>5. Marks(Append(h, f), t, n)
  <2> DEFINE g == Append(h, f)
  <2>1. /\ Kinds(g) = Kinds(h) \cup {f.kind} /\ (HasText(g) <=> HasText(h)) /\ (Long(g) <=> Long(h))
        /\ (Calling(g) <=> Calling(h))
    BY SaysMore
  <2> HIDE DEF g
  <2>2. Marks(g, t, n)
    BY <1>1, <1>2, <2>1 DEF Marks
  <2> QED
    BY <2>2 DEF g
<1>6. "message" \notin Kinds(Append(h, f)) => Ordered(how, t, n)
  BY <1>2, SaysMore, OrderedSame DEF Tale
<1> QED
  BY <1>3, <1>4, <1>5, <1>6 DEF Tale, t

LEMMA Numbers == 1 # 0 /\ 0 + 1 = 1
OBVIOUS

LEMMA TaleDelta ==
  ASSUME NEW how, NEW h \in Seq(AFrame), NEW s, NEW n, Tale(how, h, s, n), NEW f \in AFrame,
         "done" \notin Kinds(h), f.kind = "delta", f.calls = <<>>, f.finish \in {"", "length"},
         f.text = 0 \/ (f.text = 1 /\ ~HasText(h))
  PROVE  Tale(how, Append(h, f), MergeLine(s, f), n)
<1> DEFINE b == Begun(s, f)
           t == AppendContent(b, f.text)
<1>1. Fits(s, n) /\ Said(h, n) /\ Marks(h, s, n) /\ Rec(s) /\ ~s.done
  BY DEF Tale, Fits, Marks
<1>2. MergeLine(s, f) = t
  BY <1>1, LineSaid, FoldNone
<1>3. Begins(s, f, b)
  BY <1>1, LineBegun
<1> HIDE DEF b
<1>4. Words(b, f.text, t)
  BY <1>3, LineWorded DEF Begins
<1> HIDE DEF t
<1>5. SameCalls(s, t)
  BY <1>3, <1>4 DEF SameCalls, Begins, Words
<1>6. Fits(t, n)
  BY <1>1, <1>4, <1>5, FitsSame DEF Words
<1>7. Said(Append(h, f), n)
  BY <1>1, SaidSame
<1>8. Marks(Append(h, f), t, n)
  <2> DEFINE g == Append(h, f)
  <2>1. /\ Kinds(g) = Kinds(h) \cup {"delta"} /\ (HasText(g) <=> HasText(h) \/ f.text # 0)
        /\ (Long(g) <=> Long(h) \/ f.finish = "length") /\ (Calling(g) <=> Calling(h))
    BY SaysMore
  <2> HIDE DEF g
  <2>2. t.text = (IF HasText(g) THEN 1 ELSE 0) /\ (t.latch <=> HasText(g))
    <3>1. CASE f.text = 0
      <4>1. t.text = s.text /\ t.latch = s.latch /\ (HasText(g) <=> HasText(h))
        BY <1>3, <1>4, <2>1, <3>1 DEF Begins, Words
      <4> QED
        BY <1>1, <4>1 DEF Marks
    <3>2. CASE f.text = 1 /\ ~HasText(h)
      <4>0. f.text # 0
        BY <3>2, Numbers
      <4>1. t.text = b.text + f.text /\ t.latch = TRUE
        BY <1>4, <4>0 DEF Words
      <4>2. b.text = 0
        BY <1>1, <1>3, <3>2 DEF Begins, Marks
      <4>3. HasText(g)
        BY <2>1, <4>0
      <4>4. t.text = 0 + 1
        BY <3>2, <4>1, <4>2
      <4> QED
        BY <4>1, <4>3, <4>4, Numbers
    <3> QED
      BY <3>1, <3>2
  <2>3. (Long(g) => t.finish = "length" \/ ("message" \in Kinds(g) /\ \A c \in Made(n) : n[c] = Parts))
        /\ (~Long(g) => t.finish # "length")
    <3>1. t.finish = IF f.finish = "" THEN s.finish ELSE f.finish
      BY <1>3, <1>4 DEF Begins, Words
    <3> QED
      BY <1>1, <2>1, <3>1 DEF Marks
  <2>4. t.valid = TRUE /\ t.done = s.done
    BY <1>3, <1>4 DEF Begins, Words
  <2> QED
    BY <1>1, <2>1, <2>2, <2>3, <2>4 DEF Marks, g
<1>9. "message" \notin Kinds(Append(h, f)) => Ordered(how, t, n)
  BY <1>5, SaysMore, OrderedSame DEF Tale
<1> QED
  BY <1>2, <1>6, <1>7, <1>8, <1>9 DEF Tale

\* A fragment as the upstream sends it next.
Fragmented(how, n, f, c, k) ==
  /\ f.kind = "delta" /\ f.text = 0 /\ f.finish = "" /\ f.calls = <<k>>
  /\ k \in Piece /\ k.call = c /\ k.args = <<<<c, n[c] + 1>>>>
  /\ k.byIndex <=> how = "index"
  /\ k.named <=> how = "id" \/ n[c] = 0
  /\ n[c] < Parts
  /\ how = "first" => \A y \in Calls \ {c} : n[y] \in {0, Parts}

LEMMA RaisedIs ==
  ASSUME NEW n \in [Calls -> 0 .. Parts], NEW c \in Calls, n[c] < Parts
  PROVE  LET m == Raised(n, c, n[c] + 1)
         IN  m[c] = n[c] + 1 /\ (\A x \in Calls \ {c} : m[x] = n[x]) /\ Made(m) = Made(n) \cup {c}
<1>1. Parts \in Nat
  BY ExchangeAssumption
<1>2. n[c] + 1 > 0
  BY <1>1
<1> QED
  BY <1>2 DEF Raised, Made

LEMMA UptoOne == ASSUME NEW c \in Calls PROVE Upto(c, 1) = <<<<c, 1>>>>
<1> DEFINE u == Upto(c, 1)
           w == <<<<c, 1>>>>
           S == Calls \X Nat
<1>1. u \in Seq(S) /\ Len(u) = 1 /\ u[1] = <<c, 1>>
  <2> DEFINE e == 1
  <2>1. e \in Nat /\ e \in 1 .. e
    OBVIOUS
  <2> HIDE DEF e
  <2>2. Upto(c, e) \in Seq(S) /\ Len(Upto(c, e)) = e /\ Upto(c, e)[e] = <<c, e>>
    BY <2>1, UptoSeq
  <2> QED
    BY <2>2 DEF e
<1>2. w \in Seq(S) /\ Len(w) = 1 /\ w[1] = <<c, 1>>
  OBVIOUS
<1> HIDE DEF u, w, S
<1>3. u = w
  BY <1>1, <1>2, SeqEqual
<1> QED
  BY <1>3 DEF u, w

LEMMA FragmentOpens ==
  ASSUME NEW how \in {"index", "id", "first"}, NEW s, NEW n, Fits(s, n), Ordered(how, s, n),
         NEW f, NEW c \in Calls, NEW k, Fragmented(how, n, f, c, k), n[c] = 0
  PROVE  LET t == MergeToolCall(s, k)
             m == Raised(n, c, n[c] + 1)
         IN  Fits(t, m) /\ SameBut(s, t) /\ Ordered(how, t, m)
<1> DEFINE t == MergeToolCall(s, k)
           m == Raised(n, c, n[c] + 1)
           i == PlaceOf(s, k)
<1>1. /\ n \in [Calls -> 0 .. Parts] /\ s.at \in [Made(n) -> Nat] /\ DOMAIN s.calls = Range(s.at)
      /\ s.order \in Seq(Nat)
  BY DEF Fits
<1>2. /\ k.call = c /\ k.args = <<<<c, 1>>>> /\ k.named = TRUE /\ (k.byIndex <=> how = "index")
           /\ 0 < Parts
      /\ (how = "first" => \A y \in Calls \ {c} : n[y] \in {0, Parts})
  <2>1. k.named \in BOOLEAN /\ k.named
    BY DEF Fragmented, Piece
  <2>2. 0 + 1 = 1
    BY Numbers
  <2> QED
    BY <2>1, <2>2 DEF Fragmented
<1>3. Parts \in Nat /\ Calls \subseteq Nat /\ 1 \in 1 .. Parts
  BY <1>2, ExchangeAssumption
<1>4. c \notin Made(n) /\ c \notin DOMAIN s.at
  BY <1>1 DEF Made
<1>5. i \in Nat /\ i \notin DOMAIN s.calls /\ (how = "index" => i = c) /\ (how # "index" => i = s.next)
  <2>1. CASE how = "index"
    <3>1. i = c
      BY <1>2, <2>1 DEF PlaceOf
    <3>2. c \notin Range(s.at)
      BY <1>1, <1>4, <2>1 DEF Ordered, Range
    <3> QED
      BY <1>1, <1>3, <2>1, <3>1, <3>2
  <2>2. CASE how # "index"
    <3>1. Dense(s)
      BY <2>2 DEF Ordered
    <3>2. i = NextToolIndex(s)
      BY <1>2, <1>4, <2>2 DEF PlaceOf
    <3> QED
      BY <2>2, <3>1, <3>2, NextIsFree DEF Dense
  <2> QED
    BY <2>1, <2>2
<1>6. Fits(t, Raised(n, c, 1)) /\ SameBut(s, t) /\ Takes(n, s, k, t)
  <2>1. k.args = Upto(c, 1)
    BY <1>2, UptoOne
  <2>2. k.call = c /\ k.named = TRUE /\ 1 \in 1 .. Parts
    BY <1>2, <1>3
  <2>3. PlaceOf(s, k) \in Nat /\ PlaceOf(s, k) \notin DOMAIN s.calls
    BY <1>5
  <2> QED
    BY <2>1, <2>2, <2>3, MergeNew
<1>7. m = Raised(n, c, 1)
  BY Numbers
<1>8. m[c] = 1 /\ (\A x \in Calls \ {c} : m[x] = n[x]) /\ Made(m) = Made(n) \cup {c}
  <2>1. n \in [Calls -> 0 .. Parts] /\ n[c] < Parts
    BY <1>1, <1>2
  <2>2. m[c] = n[c] + 1 /\ (\A x \in Calls \ {c} : m[x] = n[x]) /\ Made(m) = Made(n) \cup {c}
    BY <2>1, RaisedIs
  <2> QED
    BY <2>2, Numbers
<1>9. /\ t.order = Append(s.order, i) /\ t.at[c] = i /\ (\A x \in Made(n) : t.at[x] = s.at[x])
      /\ DOMAIN t.calls = DOMAIN s.calls \cup {i} /\ (~k.byIndex => t.next = i + 1)
  BY <1>2, <1>6 DEF Takes
<1>10. Last(t.order) = i
  <2> DEFINE o == s.order
             a == Append(o, i)
  <2>1. Len(a) = Len(o) + 1 /\ a[Len(o) + 1] = i
    <3>1. o \in Seq(Nat)
      BY <1>1
    <3> HIDE DEF o, i
    <3> QED
      BY <1>5, <3>1, AppendProperties
  <2>2. t.order = a
    BY <1>9
  <2> HIDE DEF a, o, i, t
  <2> QED
    BY <2>1, <2>2 DEF Last
<1> HIDE DEF t, m, i
<1>11. how = "index" => \A x \in Made(m) : t.at[x] = x
  BY <1>4, <1>5, <1>8, <1>9 DEF Ordered
<1>12. how # "index" \/ Made(m) = {} => Dense(t)
  <2> SUFFICES ASSUME how # "index" PROVE Dense(t)
    BY <1>8
  <2>1. s.next \in Nat /\ DOMAIN s.calls = 0 .. s.next - 1
    BY DEF Ordered, Dense
  <2>2. t.next = s.next + 1 /\ DOMAIN t.calls = DOMAIN s.calls \cup {s.next}
    BY <1>2, <1>5, <1>9
  <2> QED
    BY <2>1, <2>2 DEF Dense
<1>13. how = "first" => \A x \in Made(m) : m[x] < Parts => t.at[x] = Last(t.order)
  <2> SUFFICES ASSUME how = "first", NEW x \in Made(m), m[x] < Parts PROVE t.at[x] = Last(t.order)
    OBVIOUS
  <2>1. CASE x = c
    BY <1>9, <1>10, <2>1
  <2>2. CASE x # c
    <3>1. x \in Calls \ {c} /\ n[x] = m[x] /\ n[x] > 0
      BY <1>8, <2>2 DEF Made
    <3>2. n[x] = Parts
      BY <1>2, <1>3, <3>1
    <3> QED
      BY <1>3, <3>1, <3>2
  <2> QED
    BY <2>1, <2>2
<1>14. Ordered(how, t, m)
  BY <1>11, <1>12, <1>13 DEF Ordered
<1> QED
  BY <1>6, <1>7, <1>14 DEF t, m

LEMMA FragmentJoins ==
  ASSUME NEW how \in {"index", "id", "first"}, NEW s, NEW n, Fits(s, n), Ordered(how, s, n),
         NEW f, NEW c \in Calls, NEW k, Fragmented(how, n, f, c, k), n[c] > 0
  PROVE  LET t == MergeToolCall(s, k)
             m == Raised(n, c, n[c] + 1)
         IN  Fits(t, m) /\ SameBut(s, t) /\ Ordered(how, t, m)
<1> DEFINE t == MergeToolCall(s, k)
           m == Raised(n, c, n[c] + 1)
<1>1. /\ n \in [Calls -> 0 .. Parts] /\ s.at \in [Made(n) -> Nat] /\ (Made(n) # {} => s.order # <<>>)
  BY DEF Fits
<1>2. Parts \in Nat
  BY ExchangeAssumption
<1>3. /\ k.call = c /\ k.args = <<<<c, n[c] + 1>>>> /\ k.named \in BOOLEAN
           /\ (k.byIndex <=> how = "index")
      /\ (k.named <=> how = "id") /\ n[c] < Parts
  <2>1. n[c] # 0
    BY <1>1, <1>2
  <2> QED
    BY <2>1 DEF Fragmented, Piece
<1>4. c \in Made(n) /\ c \in DOMAIN s.at /\ s.order # <<>>
  BY <1>1 DEF Made
<1>5. PlaceOf(s, k) = s.at[c]
  <2>1. CASE how = "index"
    <3>1. PlaceOf(s, k) = c
      BY <1>3, <2>1 DEF PlaceOf
    <3> QED
      BY <1>4, <2>1, <3>1 DEF Ordered
  <2>2. CASE how = "id"
    BY <1>3, <1>4, <2>2 DEF PlaceOf
  <2>3. CASE how = "first"
    <3>1. PlaceOf(s, k) = Last(s.order)
      BY <1>3, <1>4, <2>3 DEF PlaceOf
    <3> QED
      BY <1>3, <1>4, <2>3, <3>1 DEF Ordered
  <2> QED
    BY <2>1, <2>2, <2>3
<1>6. Fits(t, m) /\ SameBut(s, t) /\ TakesNone(s, t)
  BY <1>3, <1>5, MergeMore
<1>7. m[c] = n[c] + 1 /\ (\A x \in Calls \ {c} : m[x] = n[x]) /\ Made(m) = Made(n) \cup {c}
  BY <1>1, <1>3, RaisedIs
<1> HIDE DEF t, m
<1>8. Made(m) = Made(n)
  BY <1>4, <1>7
<1>9. \A x \in Made(n) : m[x] < Parts => n[x] < Parts
  BY <1>3, <1>7 DEF Made
<1>10. Ordered(how, t, m)
  BY <1>6, <1>8, <1>9 DEF Ordered, TakesNone, Dense
<1> QED
  BY <1>6, <1>10 DEF t, m

LEMMA TaleFragment ==
  ASSUME NEW how \in {"index", "id", "first"}, NEW h \in Seq(AFrame), NEW s, NEW n, Tale(how, h, s, n),
         NEW f \in AFrame,
         "done" \notin Kinds(h), "message" \notin Kinds(h), NEW c \in Calls, NEW k,
         Fragmented(how, n, f, c, k)
  PROVE  Tale(how, Append(h, f), MergeLine(s, f), Raised(n, c, n[c] + 1))
<1> DEFINE b == Begun(s, f)
           t == MergeToolCall(b, k)
           m == Raised(n, c, n[c] + 1)
           g == Append(h, f)
<1>1. Fits(s, n) /\ Said(h, n) /\ Marks(h, s, n) /\ Rec(s) /\ ~s.done /\ Ordered(how, s, n)
  BY DEF Tale, Fits, Marks
<1>2. /\ f.kind = "delta" /\ f.text = 0 /\ f.finish = "" /\ f.calls = <<k>> /\ k \in Piece
           /\ n[c] < Parts
      /\ k.args = <<<<c, n[c] + 1>>>>
  BY DEF Fragmented
<1>3. n \in [Calls -> 0 .. Parts] /\ Parts \in Nat
  BY <1>1, ExchangeAssumption DEF Fits
<1>4. MergeLine(s, f) = t
  <2>1. MergeLine(s, f) = FoldLeft(MergeToolCall, AppendContent(b, f.text), f.calls)
    BY <1>1, <1>2, LineSaid
  <2>2. AppendContent(b, f.text) = b
    BY <1>2 DEF AppendContent
  <2> QED
    BY <1>2, <2>1, <2>2, FoldOne
<1>5. Begins(s, f, b)
  BY <1>1, LineBegun
<1> HIDE DEF b
<1>6. Fits(b, n) /\ Ordered(how, b, n)
  BY <1>1, <1>5, FitsSame, OrderedSame DEF Begins
<1>7. Fits(t, m) /\ SameBut(b, t) /\ Ordered(how, t, m)
  <2>1. n[c] = 0 \/ n[c] > 0
    BY <1>3
  <2> QED
    BY <1>6, <2>1, FragmentOpens, FragmentJoins
<1>8. m[c] = n[c] + 1 /\ (\A x \in Calls \ {c} : m[x] = n[x]) /\ Made(m) = Made(n) \cup {c}
  BY <1>2, <1>3, RaisedIs
<1> HIDE DEF t, m
<1>9. Said(g, m)
  <2> SUFFICES ASSUME NEW x \in Calls PROVE PartsIn(g, x) = Shown(x, m[x])
    BY DEF Said
  <2>1. PartsIn(g, x) = Shown(x, n[x]) \cup PartsOf(f, x)
    BY <1>1, PartsFurther DEF Said
  <2>2. n[c] + 1 \in 1 .. Parts
    <3>1. n[c] \in Nat
      BY <1>3
    <3>2. n[c] < Parts
      BY <1>2
    <3> QED
      BY <1>3, <3>1, <3>2
  <2>3. PartsOf(f, c) = {<<c, n[c] + 1>>} /\ \A y \in Calls \ {c} : PartsOf(f, y) = {}
    <3> DEFINE p == n[c] + 1
    <3>1. k.args = <<<<c, p>>>> /\ p \in 1 .. Parts /\ f.calls = <<k>>
      BY <1>2, <2>2
    <3> HIDE DEF p
    <3>2. PartsOf(f, c) = {<<c, p>>} /\ \A y \in Calls \ {c} : PartsOf(f, y) = {}
      BY <3>1, PartsOfOne
    <3> QED
      BY <3>2 DEF p
  <2>4. CASE x = c
    <3>1. Shown(c, n[c]) \cup {<<c, n[c] + 1>>} = Shown(c, n[c] + 1)
      BY <1>3 DEF Shown
    <3> QED
      BY <1>8, <2>1, <2>3, <2>4, <3>1
  <2>5. CASE x # c
    BY <1>8, <2>1, <2>3, <2>5
  <2> QED
    BY <2>4, <2>5
<1>10. Marks(g, t, m)
  <2>1. /\ Kinds(g) = Kinds(h) \cup {"delta"} /\ (HasText(g) <=> HasText(h)) /\ (Long(g) <=> Long(h))
             /\ Calling(g)
    <3>1. <<k>> # <<>>
      OBVIOUS
    <3> QED
      BY <1>2, <3>1, SaysMore
  <2> HIDE DEF g
  <2>2. t.valid = TRUE /\ t.done = s.done /\ t.latch = s.latch /\ t.text = s.text /\ t.finish = s.finish
    BY <1>2, <1>5, <1>7 DEF Begins, SameBut
  <2> QED
    BY <1>1, <2>1, <2>2 DEF Marks
<1> QED
  BY <1>4, <1>7, <1>9, <1>10 DEF Tale, m, g

\* A whole message as the upstream sends it: all it has to say, or again what it has said.
LEMMA TaleRepeated ==
  ASSUME NEW how, NEW h \in Seq(AFrame), NEW s, NEW n, Tale(how, h, s, n), NEW f \in AFrame,
         "done" \notin Kinds(h), f.kind = "message", f.text = 1, f.finish = "stop", HasText(h),
         NEW q \in Seq(Calls), Range(q) = Made(n), f.calls = Whole(q), \A c \in Made(n) : n[c] = Parts
  PROVE  Tale(how, Append(h, f), MergeLine(s, f), n)
<1> DEFINE b == Begun(s, f)
           g == Append(h, f)
<1>1. Fits(s, n) /\ Said(h, n) /\ Marks(h, s, n) /\ Rec(s) /\ ~s.done /\ s.latch
  BY DEF Tale, Fits, Marks
<1>2. MergeLine(s, f) = b
  BY <1>1, LineSaid
<1>3. Begins(s, f, b)
  BY <1>1, LineBegun
<1> HIDE DEF b
<1>4. Fits(b, n)
  BY <1>1, <1>3, FitsSame DEF Begins
<1>5. Said(g, n)
  <2> SUFFICES ASSUME NEW x \in Calls PROVE PartsIn(g, x) = Shown(x, n[x])
    BY DEF Said
  <2>1. PartsIn(g, x) = Shown(x, n[x]) \cup PartsOf(f, x)
    BY <1>1, PartsFurther DEF Said
  <2>2. PartsOf(f, x) = IF x \in Made(n) THEN Shown(x, Parts) ELSE {}
    BY PartsOfWhole
  <2> QED
    BY <2>1, <2>2
<1>6. Marks(g, b, n)
  <2>1. /\ Kinds(g) = Kinds(h) \cup {"message"} /\ HasText(g) /\ (Long(g) <=> Long(h))
             /\ (Calling(h) => Calling(g))
    BY SaysMore
  <2> HIDE DEF g
  <2>2. b.valid = TRUE /\ b.done = s.done /\ b.latch = s.latch /\ b.text = s.text /\ b.finish = "stop"
    BY <1>3 DEF Begins
  <2> QED
    BY <1>1, <2>1, <2>2 DEF Marks
<1>7. "message" \in Kinds(g)
  BY SaysMore
<1> QED
  BY <1>2, <1>4, <1>5, <1>6, <1>7 DEF Tale, g

LEMMA TaleWhole ==
  ASSUME NEW how, NEW h \in Seq(AFrame), NEW s, NEW n, Tale(how, h, s, n), NEW f \in AFrame,
         "done" \notin Kinds(h), "message" \notin Kinds(h), f.kind = "message", f.text = 1,
         f.finish = "stop", ~HasText(h),
         NEW q \in Seq(Calls), IsInjective(q), Range(q) = Calls, f.calls = Whole(q), Made(n) = {}
  PROVE  Tale(how, Append(h, f), MergeLine(s, f), CountOf(q))
<1> DEFINE b == Begun(s, f)
           w == AppendContent(b, f.text)
           t == FoldLeft(MergeToolCall, w, Whole(q))
           m == CountOf(q)
           g == Append(h, f)
<1>1. Fits(s, n) /\ Said(h, n) /\ Marks(h, s, n) /\ Rec(s) /\ ~s.done /\ ~s.latch /\ Ordered(how, s, n)
  BY DEF Tale, Fits, Marks
<1>2. n \in [Calls -> 0 .. Parts] /\ Parts \in Nat
  BY <1>1, ExchangeAssumption DEF Fits
<1>3. MergeLine(s, f) = t
  BY <1>1, LineSaid
<1>4. Begins(s, f, b)
  BY <1>1, LineBegun
<1> HIDE DEF b
<1>5. Words(b, f.text, w)
  BY <1>4, LineWorded DEF Begins
<1> HIDE DEF w
<1>6. SameCalls(s, w) /\ Rec(w)
  BY <1>4, <1>5 DEF SameCalls, Begins, Words
<1>7. Fits(w, n) /\ Dense(w)
  BY <1>1, <1>6, FitsSame, OrderedSame DEF Ordered
<1>8. Fits(t, m) /\ SameBut(w, t)
  BY <1>7, AllMade
<1>9. \A x \in Calls : m[x] = Parts
  BY DEF CountOf
<1> HIDE DEF t, m
<1>10. Said(g, m)
  <2> SUFFICES ASSUME NEW x \in Calls PROVE PartsIn(g, x) = Shown(x, m[x])
    BY DEF Said
  <2>1. PartsIn(g, x) = Shown(x, n[x]) \cup PartsOf(f, x)
    BY <1>1, PartsFurther DEF Said
  <2>2. PartsOf(f, x) = Shown(x, Parts)
    BY PartsOfWhole
  <2>3. Shown(x, n[x]) \subseteq Shown(x, Parts)
    BY <1>2 DEF Shown
  <2> QED
    BY <1>9, <2>1, <2>2, <2>3
<1>11. Marks(g, t, m)
  <2>1. /\ Kinds(g) = Kinds(h) \cup {"message"} /\ HasText(g) /\ (Long(g) <=> Long(h))
        /\ (Calling(g) <=> Calling(h) \/ f.calls # <<>>)
    BY SaysMore, Numbers
  <2>2. ASSUME Made(m) # {} PROVE Calling(g)
    <3>1. PICK c \in Calls : TRUE
      BY <2>2 DEF Made
    <3>2. q # <<>>
      BY <3>1 DEF Range
    <3>3. Len(q) # 0 /\ Len(Whole(q)) = Len(q)
      BY <3>2, WholeSeq
    <3>4. f.calls # <<>>
      BY <3>3
    <3> QED
      BY <2>1, <3>4
  <2>3. t.text = 1 /\ t.latch = TRUE /\ t.valid = TRUE /\ t.done = s.done /\ t.finish = "stop"
    <3>1. b.text = 0 /\ b.valid = TRUE /\ b.done = s.done /\ b.finish = "stop"
      BY <1>1, <1>4 DEF Begins, Marks
    <3>2. w.text = b.text + f.text /\ w.latch = TRUE /\ w.valid = b.valid /\ w.done = b.done
               /\ w.finish = b.finish
      BY <1>5, Numbers DEF Words
    <3>3. w.text = 1
      <4>1. w.text = 0 + 1
        BY <3>1, <3>2
      <4> QED
        BY <4>1, Numbers
    <3> QED
      BY <1>8, <3>1, <3>2, <3>3 DEF SameBut
  <2>4. \A c \in Made(m) : m[c] = Parts
    BY <1>9 DEF Made
  <2> HIDE DEF g
  <2> QED
    BY <1>1, <2>1, <2>2, <2>3, <2>4 DEF Marks
<1>12. "message" \in Kinds(g)
  BY SaysMore
<1> QED
  BY <1>3, <1>8, <1>10, <1>11, <1>12 DEF Tale, g, m

-----------------------------------------------------------------------------
(* The answer as it comes in. *)

Merged(fs) == FoldLeft(MergeLine, NothingYet, fs)
Story(how, fs) == Repeats(Heard(fs)) \/ \E n : Tale(how, Heard(fs), Merged(fs), n)

LEMMA MergedFurther ==
  ASSUME NEW fs \in Seq(AFrame), NEW f \in AFrame
  PROVE  Merged(Append(fs, f)) = MergeLine(Merged(fs), f)
<1>1. Passed("line", {}, NothingYet, Append(fs, f)) = Step("line", {}, Passed("line", {}, NothingYet, fs), f)
  BY PassedFurther
<1> QED
  BY <1>1, LinesArePass DEF Merged, Step

LEMMA HeardDone == ASSUME NEW fs \in Seq(AFrame), "done" \in Kinds(fs) PROVE "done" \in Kinds(Heard(fs))
<1>1. PICK k \in 1 .. Len(fs) : Heard(fs) = SubSeq(fs, 1, k) /\ fs[k].kind = "done"
  BY HeardIs
<1> DEFINE v == SubSeq(fs, 1, k)
<1>2. k \in Nat /\ 1 <= k /\ 1 \in Int /\ k \in Int /\ \A i \in 1 .. k : fs[i] \in AFrame
  OBVIOUS
<1>3. v \in Seq(AFrame) /\ Len(v) = k /\ \A i \in 1 .. k : v[i] = fs[i]
  BY <1>2, SubSeqProperties
<1> HIDE DEF v
<1>4. k \in DOMAIN v /\ v[k].kind = "done"
  BY <1>1, <1>2, <1>3
<1> QED
  BY <1>1, <1>4 DEF Kinds, Range, v

LEMMA StoryBegins == ASSUME NEW how PROVE Story(how, <<>>)
<1> DEFINE n == [c \in Calls |-> 0]
           s == NothingYet
           e == <<>>
<1>0. Parts \in Nat
  BY ExchangeAssumption
<1>1. Merged(e) = s
  BY LinesArePass, PassedOfNone DEF Merged
<1>2. e \in Seq(AFrame) /\ Kinds(e) = {} /\ ~HasText(e) /\ ~Long(e) /\ ~Calling(e)
           /\ \A c : PartsIn(e, c) = {}
  BY SaysNone
<1>3. n \in [Calls -> 0 .. Parts] /\ Made(n) = {} /\ \A c \in Calls : n[c] = 0
  BY <1>0 DEF Made
<1>4. /\ s.valid = FALSE /\ s.latch = FALSE /\ s.text = 0 /\ s.finish = "stop" /\ s.done = FALSE
      /\ s.calls = <<>> /\ s.order = <<>> /\ s.next = 0 /\ s.at = <<>> /\ Rec(s)
  BY DEF NothingYet, Rec
<1> HIDE DEF n, s, e
<1>5. Heard(e) = e
  BY <1>2, HeardIs
<1>6. Fits(s, n)
  <2>1. s.at \in [Made(n) -> Nat] /\ IsInjective(s.at)
    BY <1>3, <1>4 DEF IsInjective
  <2>2. s.calls = [i \in DOMAIN s.calls |-> s.calls[i]] /\ DOMAIN s.calls = Range(s.at)
    BY <1>4 DEF Range
  <2>3. s.order \in Seq(Nat)
    BY <1>4
  <2> QED
    BY <1>3, <1>4, <2>1, <2>2, <2>3 DEF Fits
<1>7. Said(e, n)
  <2>1. \A c : Shown(c, 0) = {}
    BY DEF Shown
  <2> QED
    BY <1>2, <1>3, <2>1 DEF Said
<1>8. Marks(e, s, n)
  BY <1>2, <1>3, <1>4 DEF Marks
<1>9. Ordered(how, s, n)
  <2>1. Dense(s)
    BY <1>4 DEF Dense
  <2> QED
    BY <1>3, <2>1 DEF Ordered
<1>10. Story(how, e)
  BY <1>1, <1>5, <1>6, <1>7, <1>8, <1>9 DEF Story, Tale
<1> QED
  BY <1>10 DEF e

LEMMA StoryFurther ==
  ASSUME NEW how, NEW fs \in Seq(AFrame), NEW f \in AFrame, Story(how, fs),
         \/ "done" \in Kinds(fs)
         \/ \A n : Tale(how, fs, Merged(fs), n) =>
              \/ Repeats(Append(fs, f))
              \/ \E m : Tale(how, Append(fs, f), MergeLine(Merged(fs), f), m)
  PROVE  Story(how, Append(fs, f))
<1>1. Merged(Append(fs, f)) = MergeLine(Merged(fs), f)
  BY MergedFurther
<1>2. CASE "done" \in Kinds(fs)
  <2>1. Heard(Append(fs, f)) = Heard(fs) /\ "done" \in Kinds(Heard(fs))
    BY <1>2, HeardFurther, HeardDone
  <2>2. ASSUME NEW n, Tale(how, Heard(fs), Merged(fs), n) PROVE Merged(Append(fs, f)) = Merged(fs)
    <3>1. Merged(fs).done
      BY <2>1, <2>2 DEF Tale, Marks
    <3> QED
      BY <1>1, <3>1, LineIdle
  <2> QED
    BY <2>1, <2>2 DEF Story
<1>3. CASE "done" \notin Kinds(fs)
  <2>1. Heard(fs) = fs /\ Heard(Append(fs, f)) = Append(fs, f)
    BY <1>3, HeardFurther
  <2>2. CASE Repeats(fs)
    BY <2>1, <2>2, RepeatsFurther DEF Story
  <2>3. CASE \E n : Tale(how, fs, Merged(fs), n)
    BY <1>1, <1>3, <2>1, <2>3 DEF Story
  <2> QED
    BY <2>1, <2>2, <2>3 DEF Story
<1> QED
  BY <1>2, <1>3

-----------------------------------------------------------------------------
(* What the upstream may send. *)

LEMMA Fields ==
  \A a, x, k, e : LET f == Frame(a, x, k, e) IN f.kind = a /\ f.text = x /\ f.calls = k /\ f.finish = e
BY DEF Frame

LEMMA BareFrame ==
  ASSUME NEW a \in {"delta", "done", "junk", "torn"}, NEW x \in {0, 1},
         NEW e \in {"", "length"}
  PROVE  Frame(a, x, <<>>, e) \in AFrame
<1> DEFINE e0 == <<>>
<1>1. e0 \in Seq(Piece)
  BY EmptySeq
<1> HIDE DEF e0
<1>2. Frame(a, x, e0, e) = [kind |-> a, text |-> x, calls |-> e0, finish |-> e]
  BY DEF Frame
<1>3. Frame(a, x, e0, e) \in AFrame
  <2>1. a \in {"delta", "message", "done", "junk", "torn"} /\ e \in {"", "length", "stop"}
    OBVIOUS
  <2>2. [kind |-> a, text |-> x, calls |-> e0, finish |-> e] \in AFrame
    BY <1>1, <2>1, Zenon DEF AFrame
  <2> QED
    BY <1>2, <2>2
<1> QED
  BY <1>3 DEF e0

\* The parts sent are counted right.
LEMMA SentIs ==
  ASSUME NEW n \in [Calls -> 0 .. Parts], Said(frames, n), NEW c \in Calls PROVE Sent(c) = n[c]
<1>1. n[c] \in Nat
  BY ExchangeAssumption
<1>2. Cardinality(Shown(c, n[c])) = n[c]
  BY <1>1, PartsCount
<1> QED
  BY <1>2 DEF Sent, Said

LEMMA FragmentIs ==
  ASSUME NEW c \in Calls, NEW p \in Nat
  PROVE  LET k == Fragment(c, p)
         IN  /\ k \in Piece /\ k.call = c /\ k.args = <<<<c, p>>>>
             /\ k.byIndex <=> style = "index"
             /\ k.named <=> style = "id" \/ p = 1
<1> DEFINE a == <<<<c, p>>>>
           x == style = "index"
           y == style = "id" \/ p = 1
           k == Fragment(c, p)
<1>1. a \in Seq(Calls \X Nat)
  OBVIOUS
<1>2. x \in BOOLEAN /\ y \in BOOLEAN
  OBVIOUS
<1> HIDE DEF a
<1>3. k = [call |-> c, args |-> a, byIndex |-> x, named |-> y]
  BY DEF Fragment, a
<1> HIDE DEF x, y, k
<1>4. k \in Piece
  BY <1>1, <1>2, <1>3 DEF Piece
<1>5. k.call = c /\ k.args = a
  BY <1>3
<1>6. k.byIndex = x
  BY <1>3
<1>7. k.named = y
  BY <1>3
<1> QED
  BY <1>4, <1>5, <1>6, <1>7 DEF a, x, y, k

LEMMA MessageIs ==
  ASSUME NEW f \in Messages
  PROVE  LET made == {c \in Calls : Sent(c) > 0}
         IN  /\ ~SaidWhole /\ \A c \in made : ~(Sent(c) < Parts)
             /\ f \in AFrame /\ f.kind = "message" /\ f.text = 1 /\ f.finish = "stop"
             /\ \E q \in Seq(Calls) :
                  /\ IsInjective(q) /\ f.calls = Whole(q)
                  /\ Range(q) = IF made = {} /\ ~HasText(frames) THEN Calls ELSE made
<1> DEFINE made == {c \in Calls : Sent(c) > 0}
           said == IF made = {} /\ ~HasText(frames) THEN Calls ELSE made
           q == SetToSeq(said)
<1>1. ~SaidWhole /\ \A c \in made : ~(Sent(c) < Parts)
  BY DEF Messages
<1>2. f = Frame("message", 1, Whole(q), "stop")
  BY DEF Messages, Whole
<1>3. said \subseteq Calls
  OBVIOUS
<1> HIDE DEF said
<1>4. IsFiniteSet(said)
  BY <1>3, ExchangeAssumption, FS_Subset
<1>5. q \in Seq(said) /\ IsInjective(q) /\ Range(q) = said
  BY <1>4, SetSeq
<1> HIDE DEF q
<1>6. q \in Seq(Calls)
  BY <1>3, <1>5, SeqMonotonic
<1>7. Whole(q) \in Seq(Piece)
  BY <1>6, WholeSeq
<1>8. f \in AFrame /\ f.kind = "message" /\ f.text = 1 /\ f.finish = "stop" /\ f.calls = Whole(q)
  BY <1>2, <1>7 DEF Frame, AFrame
<1>9. \E y \in Seq(Calls) : IsInjective(y) /\ f.calls = Whole(y) /\ Range(y) = said
  BY <1>5, <1>6, <1>8
<1> QED
  BY <1>1, <1>8, <1>9 DEF said

LEMMA OfferCases ==
  ASSUME mode = "aggregate", NEW f \in Offers
  PROVE  \/ f = Delta(0, <<>>, "") \/ f = Plain("junk") \/ f = Plain("done")
         \/ f = Delta(1, <<>>, "") /\ ("done" \in Kinds(frames) \/ ~HasText(frames))
         \/ f = Delta(0, <<>>, "length")
         \/ f \in NextFragments \/ f \in Messages
BY DEF Offers, Empties, Texts, Finishes

LEMMA OfferFits ==
  ASSUME mode = "aggregate", NEW f \in Offers PROVE f \in AFrame
<1>1. f = Delta(0, <<>>, "") \/ f = Delta(1, <<>>, "") \/ f = Delta(0, <<>>, "length") => f \in AFrame
  BY BareFrame DEF Delta
<1>2. f = Plain("junk") \/ f = Plain("done") => f \in AFrame
  BY BareFrame DEF Plain
<1>3. ASSUME f \in NextFragments PROVE f \in AFrame
  <2>1. PICK c \in Calls : f = Delta(0, <<Fragment(c, Sent(c) + 1)>>, "")
    BY <1>3 DEF NextFragments
  <2>2. Sent(c) + 1 \in Nat
    <3>1. Sent(c) \in Nat
      BY PartsFinite DEF Sent
    <3> QED
      BY <3>1
  <2> DEFINE k == Fragment(c, Sent(c) + 1)
  <2>3. k \in Piece
    BY <2>2, FragmentIs
  <2> HIDE DEF k
  <2>4. <<k>> \in Seq(Piece)
    BY <2>3
  <2>5. Frame("delta", 0, <<k>>, "") \in AFrame
    BY <2>4 DEF Frame, AFrame
  <2> QED
    BY <2>1, <2>5 DEF Delta, k
<1>4. f \in Messages => f \in AFrame
  BY MessageIs
<1> QED
  BY <1>1, <1>2, <1>3, <1>4, OfferCases

LEMMA OfferFragment ==
  ASSUME style \in {"index", "id", "first"}, frames \in Seq(AFrame), "done" \notin Kinds(frames),
         NEW n, NEW s, Tale(style, frames, s, n), NEW f \in AFrame, f \in NextFragments
  PROVE  \E m : Tale(style, Append(frames, f), MergeLine(s, f), m)
<1>0. n \in [Calls -> 0 .. Parts] /\ Said(frames, n)
  BY DEF Tale, Fits
<1>1. \A c \in Calls : Sent(c) = n[c]
  BY <1>0, SentIs
<1>2. PICK c \in Calls : /\ f = Delta(0, <<Fragment(c, Sent(c) + 1)>>, "")
                         /\ ~SaidWhole /\ Sent(c) < Parts
                         /\ style = "first" => \A y \in Calls \ {c} : Sent(y) \in {0, Parts}
  BY DEF NextFragments
<1> DEFINE p == n[c] + 1
           k == Fragment(c, p)
<1>3. p \in Nat /\ (p = 1 <=> n[c] = 0)
  <2>1. n[c] \in Nat
    BY <1>0, ExchangeAssumption
  <2> QED
    BY <2>1
<1>4. f = Delta(0, <<k>>, "") /\ n[c] < Parts
           /\ (style = "first" => \A y \in Calls \ {c} : n[y] \in {0, Parts})
  BY <1>1, <1>2
<1>5. /\ k \in Piece /\ k.call = c /\ k.args = <<<<c, p>>>>
      /\ (k.byIndex <=> style = "index") /\ (k.named <=> style = "id" \/ p = 1)
  <2> HIDE DEF p
  <2> QED
    BY <1>3, FragmentIs
<1> HIDE DEF k
<1>6. f.kind = "delta" /\ f.text = 0 /\ f.finish = "" /\ f.calls = <<k>>
  BY <1>4 DEF Delta, Frame
<1>7. Fragmented(style, n, f, c, k)
  BY <1>3, <1>4, <1>5, <1>6 DEF Fragmented
<1>8. "message" \notin Kinds(frames)
  BY <1>2 DEF SaidWhole
<1> QED
  BY <1>7, <1>8, TaleFragment

LEMMA OfferMessage ==
  ASSUME style \in {"index", "id", "first"}, frames \in Seq(AFrame), "done" \notin Kinds(frames),
         NEW n, NEW s, Tale(style, frames, s, n), NEW f \in Messages
  PROVE  Repeats(Append(frames, f)) \/ \E m : Tale(style, Append(frames, f), MergeLine(s, f), m)
<1>0. n \in [Calls -> 0 .. Parts] /\ Said(frames, n) /\ Parts \in Nat
  BY ExchangeAssumption DEF Tale, Fits
<1>1. \A c \in Calls : Sent(c) = n[c]
  BY <1>0, SentIs
<1> DEFINE made == {c \in Calls : Sent(c) > 0}
<1>2. made = Made(n)
  BY <1>1 DEF Made
<1>3. /\ ~SaidWhole /\ (\A c \in made : ~(Sent(c) < Parts))
      /\ f \in AFrame /\ f.kind = "message" /\ f.text = 1 /\ f.finish = "stop"
  BY MessageIs
<1>4. PICK q \in Seq(Calls) : /\ IsInjective(q) /\ f.calls = Whole(q)
                              /\ Range(q) = IF made = {} /\ ~HasText(frames) THEN Calls ELSE made
  BY MessageIs
<1>5. "message" \notin Kinds(frames)
  BY <1>3 DEF SaidWhole
<1>6. \A c \in Made(n) : n[c] = Parts
  BY <1>0, <1>1, <1>2, <1>3 DEF Made
<1> HIDE DEF made
<1>7. CASE HasText(frames)
  BY <1>2, <1>3, <1>4, <1>6, <1>7, TaleRepeated
<1>8. CASE ~HasText(frames) /\ Made(n) = {}
  <2>1. Range(q) = Calls
    BY <1>2, <1>4, <1>8
  <2> QED
    BY <1>3, <1>4, <1>5, <1>8, <2>1, TaleWhole
<1>9. CASE ~HasText(frames) /\ Made(n) # {}
  <2>1. Calling(frames)
    BY <1>9 DEF Tale, Marks
  <2> QED
    BY <1>3, <1>9, <2>1, RepeatsFurther
<1> QED
  BY <1>7, <1>8, <1>9

\* Whatever the upstream sends next, the story goes on.
LEMMA StoryGoesOn ==
  ASSUME mode = "aggregate", style \in {"index", "id", "first"}, frames \in Seq(AFrame),
         Story(style, frames), NEW f \in Offers
  PROVE  f \in AFrame /\ Story(style, Append(frames, f))
<1>1. f \in AFrame
  BY OfferFits
<1> DEFINE Onward(n) == Repeats(Append(frames, f))
                \/ \E m : Tale(style, Append(frames, f), MergeLine(Merged(frames), f), m)
<1>2. ASSUME "done" \notin Kinds(frames), NEW n, Tale(style, frames, Merged(frames), n) PROVE Onward(n)
  <2>1. CASE f = Plain("junk")
    <3>1. f.kind = "junk" /\ f.calls = <<>> /\ f.text = 0 /\ f.finish = ""
      BY <2>1 DEF Plain, Frame
    <3> QED
      BY <1>1, <1>2, <3>1, TaleIdle
  <2>2. CASE f = Plain("done")
    <3>1. f.kind = "done" /\ f.calls = <<>> /\ f.text = 0 /\ f.finish = ""
      BY <2>2 DEF Plain, Frame
    <3> QED
      BY <1>1, <1>2, <3>1, TaleDone
  <2>3. CASE f = Delta(0, <<>>, "") \/ f = Delta(0, <<>>, "length")
    <3>1. f.kind = "delta" /\ f.calls = <<>> /\ f.text = 0 /\ f.finish \in {"", "length"}
      <4>1. CASE f = Delta(0, <<>>, "")
        BY <4>1 DEF Delta, Frame
      <4>2. CASE f = Delta(0, <<>>, "length")
        BY <4>2 DEF Delta, Frame
      <4> QED
        BY <2>3, <4>1, <4>2
    <3> QED
      BY <1>1, <1>2, <3>1, TaleDelta
  <2>4. CASE f = Delta(1, <<>>, "") /\ ~HasText(frames)
    <3>1. f.kind = "delta" /\ f.calls = <<>> /\ f.text = 1 /\ f.finish \in {"", "length"}
      BY <2>4 DEF Delta, Frame
    <3> QED
      BY <1>1, <1>2, <2>4, <3>1, TaleDelta
  <2>5. CASE f \in NextFragments
    BY <1>1, <1>2, <2>5, OfferFragment
  <2>6. CASE f \in Messages
    BY <1>2, <2>6, OfferMessage
  <2> QED
    BY <1>2, <2>1, <2>2, <2>3, <2>4, <2>5, <2>6, OfferCases
<1>3. Story(style, Append(frames, f))
  BY <1>1, <1>2, StoryFurther
<1> QED
  BY <1>1, <1>3

\* Nor does it end where a line is torn.
LEMMA StoryTorn ==
  ASSUME NEW how, NEW fs \in Seq(AFrame), Story(how, fs)
  PROVE  Plain("torn") \in AFrame /\ Story(how, Append(fs, Plain("torn")))
<1> DEFINE f == Plain("torn")
<1>1. f \in AFrame
  BY BareFrame DEF Plain
<1>2. f.kind = "torn" /\ f.calls = <<>> /\ f.text = 0 /\ f.finish = ""
  BY DEF Plain, Frame
<1> HIDE DEF f
<1>3. \A n : Tale(how, fs, Merged(fs), n) => Tale(how, Append(fs, f), MergeLine(Merged(fs), f), n)
  BY <1>1, <1>2, TaleIdle
<1>4. Story(how, Append(fs, f))
  BY <1>1, <1>3, StoryFurther
<1> QED
  BY <1>1, <1>4 DEF f

-----------------------------------------------------------------------------
(* The answer handed out. *)

\* The arguments of a call do not parse as long as a part is missing.
LEMMA TruncatedIs ==
  ASSUME NEW c \in Calls, NEW j \in 1 .. Parts
  PROVE  IsTruncated(Upto(c, j)) <=> j # Parts
<1>0. Parts \in Nat /\ j \in Nat
  BY ExchangeAssumption
<1>1. \A x \in Calls : [p \in 1 .. Parts |-> <<x, p>>] = Upto(x, Parts)
  BY DEF Upto
<1>2. Upto(c, j) \in Seq(Calls \X Nat) /\ Len(Upto(c, j)) = j
  BY <1>0, UptoSeq
<1>3. \A x \in Calls : Len(Upto(x, Parts)) = Parts
  BY <1>0, UptoSeq
<1>4. Upto(c, j) # <<>>
  <2> DEFINE u == Upto(c, j)
  <2>1. Len(u) # 0
    BY <1>0, <1>2
  <2> HIDE DEF u
  <2> QED
    BY <2>1 DEF u
<1>5. IsTruncated(Upto(c, j)) <=> \A x \in Calls : Upto(c, j) # Upto(x, Parts)
  BY <1>1, <1>4 DEF IsTruncated
<1>6. CASE j = Parts
  BY <1>5, <1>6
<1>7. CASE j # Parts
  BY <1>2, <1>3, <1>5, <1>7
<1> QED
  BY <1>6, <1>7

LEMMA Exact ==
  ASSUME NEW how, NEW fs, NEW n, Tale(how, Heard(fs), Merged(fs), n)
  PROVE  LET answer == Aggregate(fs)
             heard == Heard(fs)
             proper == "done" \in Kinds(heard) /\ \A f \in Range(heard) : f.finish # "length"
             parts(c) == Cardinality(PartsIn(heard, c))
             said == {c \in Calls : parts(c) > 0 /\ (proper \/ parts(c) = Parts)}
         IN  /\ answer.ok = ("delta" \in Kinds(heard) \/ "message" \in Kinds(heard))
             /\ answer.text = IF HasText(heard) THEN 1 ELSE 0
             /\ IsInjective(answer.calls)
             /\ Range(answer.calls) = {[id |-> c, args |-> [p \in 1 .. parts(c) |-> <<c, p>>]] : c \in said}
<1> DEFINE answer == Aggregate(fs)
           h == Heard(fs)
           s == Merged(fs)
           proper == "done" \in Kinds(h) /\ \A f \in Range(h) : f.finish # "length"
           parts(c) == Cardinality(PartsIn(h, c))
           said == {c \in Calls : parts(c) > 0 /\ (proper \/ parts(c) = Parts)}
           good == {c \in Made(n) : (s.done /\ ~Long(h)) \/ n[c] = Parts}
           whole == {i \in DOMAIN s.calls : ~IsTruncated(s.calls[i].args)}
           given == IF s.finish = "length" \/ ~s.done THEN whole ELSE DOMAIN s.calls
<1>1. Fits(s, n) /\ Said(h, n) /\ Marks(h, s, n)
  BY DEF Tale
<1>2. /\ n \in [Calls -> 0 .. Parts] /\ s.at \in [Made(n) -> Nat] /\ IsInjective(s.at) /\ Parts \in Nat
      /\ DOMAIN s.calls = Range(s.at) /\ \A c \in Made(n) : s.calls[s.at[c]] = Entered(c, n[c])
  BY <1>1, ExchangeAssumption DEF Fits
<1>3. answer = [ok |-> s.valid, text |-> s.text, calls |-> [i \in given |-> s.calls[i]]]
  BY DEF Aggregate, Merged
<1>4. \A c \in Calls : parts(c) = n[c]
  <2> SUFFICES ASSUME NEW c \in Calls PROVE Cardinality(PartsIn(h, c)) = n[c]
    OBVIOUS
  <2>1. n[c] \in Nat
    BY <1>2
  <2>2. PartsIn(h, c) = Shown(c, n[c])
    BY <1>1 DEF Said
  <2> QED
    BY <2>1, <2>2, PartsCount
<1>5. proper <=> s.done /\ ~Long(h)
  BY <1>1 DEF Marks, Long
<1>6. said = good
  <2> HIDE DEF parts, proper
  <2> QED
    BY <1>4, <1>5 DEF Made
<1> HIDE DEF answer, h, s, proper, parts, said, given
<1>7. whole = {s.at[c] : c \in {x \in Made(n) : n[x] = Parts}}
  <2>1. ASSUME NEW c \in Made(n) PROVE IsTruncated(s.calls[s.at[c]].args) <=> n[c] # Parts
    <3>1. s.calls[s.at[c]].args = Upto(c, n[c])
      <4>1. s.calls[s.at[c]] = Entered(c, n[c])
        BY <1>2
      <4> QED
        BY <4>1 DEF Entered
    <3>2. n[c] \in 1 .. Parts /\ c \in Calls
      BY <1>2 DEF Made
    <3> QED
      BY <3>1, <3>2, TruncatedIs
  <2>2. DOMAIN s.calls = {s.at[c] : c \in Made(n)}
    BY <1>2 DEF Range
  <2> QED
    BY <2>1, <2>2
<1>8. given = {s.at[c] : c \in good}
  <2>1. CASE ~s.done
    <3>1. given = whole
      BY <2>1 DEF given
    <3>2. good = {c \in Made(n) : n[c] = Parts}
      BY <2>1
    <3> QED
      BY <1>7, <3>1, <3>2
  <2>2. CASE s.done /\ s.finish = "length"
    <3>1. given = whole
      BY <2>2 DEF given
    <3>2. Long(h)
      BY <1>1, <2>2 DEF Marks
    <3>3. good = {c \in Made(n) : n[c] = Parts}
      BY <3>2
    <3> QED
      BY <1>7, <3>1, <3>3
  <2>3. CASE s.done /\ s.finish # "length"
    <3>1. given = {s.at[c] : c \in Made(n)}
      BY <1>2, <2>3 DEF given, Range
    <3>2. Long(h) => \A c \in Made(n) : n[c] = Parts
      BY <1>1, <2>3 DEF Marks
    <3>3. good = Made(n)
      BY <2>3, <3>2
    <3> QED
      BY <3>1, <3>3
  <2> QED
    BY <2>1, <2>2, <2>3
<1>9. answer.ok = s.valid /\ answer.text = s.text /\ answer.calls = [i \in given |-> s.calls[i]]
  BY <1>3
<1>10. good \subseteq Made(n)
  OBVIOUS
<1> HIDE DEF good
<1>11. DOMAIN answer.calls = {s.at[c] : c \in good}
            /\ \A c \in good : answer.calls[s.at[c]] = Entered(c, n[c])
  BY <1>2, <1>8, <1>9, <1>10
<1>12. IsInjective(answer.calls)
  <2> SUFFICES ASSUME NEW a \in DOMAIN answer.calls, NEW b \in DOMAIN answer.calls,
                      answer.calls[a] = answer.calls[b]
               PROVE  a = b
    BY DEF IsInjective
  <2>1. PICK c \in good, d \in good : a = s.at[c] /\ b = s.at[d]
    BY <1>11
  <2>2. Entered(c, n[c]) = Entered(d, n[d])
    BY <1>11, <2>1
  <2>3. c = d
    BY <2>2 DEF Entered
  <2> QED
    BY <2>1, <2>3
<1>13. Range(answer.calls) = {Entered(c, n[c]) : c \in good}
  BY <1>11 DEF Range
<1>14. {Entered(c, n[c]) : c \in good} = {[id |-> c, args |-> [p \in 1 .. parts(c) |-> <<c, p>>]] : c \in said}
  <2>1. \A c \in good : c \in Calls
    BY <1>10 DEF Made
  <2>2. \A c \in good : Entered(c, n[c]) = [id |-> c, args |-> [p \in 1 .. parts(c) |-> <<c, p>>]]
    BY <1>4, <2>1 DEF Entered, Upto
  <2> QED
    BY <1>6, <2>2
<1>15. answer.ok = ("delta" \in Kinds(h) \/ "message" \in Kinds(h))
  <2>1. s.valid \in BOOLEAN /\ (s.valid <=> "delta" \in Kinds(h) \/ "message" \in Kinds(h))
    BY <1>1 DEF Marks
  <2>2. s.valid = ("delta" \in Kinds(h) \/ "message" \in Kinds(h))
    BY <2>1, Zenon
  <2> QED
    BY <1>9, <2>2
<1>16. answer.text = IF HasText(h) THEN 1 ELSE 0
  BY <1>1, <1>9 DEF Marks
<1> QED
  BY <1>12, <1>13, <1>14, <1>15, <1>16 DEF answer, h, said, proper, parts

\* While an answer is aggregated, the first frames, however many, tell a story that what is put
\* together agrees with.
Telling ==
  mode = "aggregate" =>
    /\ phase # "closing" /\ style \in {"index", "id", "first"}
    /\ frames \in Seq(AFrame) /\ \A k \in 0 .. Len(frames) : Story(style, SubSeq(frames, 1, k))
    /\ pos \in Nat /\ received \in Nat /\ pos <= received /\ received <= Len(frames)

\* One frame more, and its story; the shorter stories stay as they are.
LEMMA StoriesGoOn ==
  ASSUME NEW s \in Seq(AFrame), NEW f \in AFrame, NEW how, Story(how, Append(s, f)),
         \A k \in 0 .. Len(s) : Story(how, SubSeq(s, 1, k))
  PROVE  /\ Append(s, f) \in Seq(AFrame) /\ Len(s) \in Nat /\ Len(Append(s, f)) = Len(s) + 1
         /\ \A k \in 0 .. Len(Append(s, f)) : Story(how, SubSeq(Append(s, f), 1, k))
<1> DEFINE t == Append(s, f)
<1>1. t \in Seq(AFrame) /\ Len(s) \in Nat /\ Len(t) = Len(s) + 1 /\ \A i \in 1 .. Len(s) : t[i] = s[i]
  BY AppendProperties, LenProperties
<1> HIDE DEF t
<1>2. \A u \in Seq(AFrame) : \A k \in 0 .. Len(u) :
        /\ SubSeq(u, 1, k) \in Seq(AFrame) /\ Len(SubSeq(u, 1, k)) = k
        /\ \A i \in 1 .. k : SubSeq(u, 1, k)[i] = u[i]
  <2> TAKE u \in Seq(AFrame)
  <2> TAKE k \in 0 .. Len(u)
  <2>1. Len(u) \in Nat /\ \A i \in 1 .. k : u[i] \in AFrame
    BY LenProperties, ElementOfSeq
  <2>2. 1 \in Int /\ k \in Int
    BY <2>1
  <2> QED
    BY <2>1, <2>2, SubSeqProperties
<1>3. ASSUME NEW k \in 0 .. Len(t) PROVE Story(how, SubSeq(t, 1, k))
  <2>1. CASE k = Len(t)
    <3>1. SubSeq(t, 1, k) = t
      BY <1>1, <2>1, SubSeqFull
    <3> QED
      BY <3>1 DEF t
  <2>2. CASE k # Len(t)
    <3>1. k \in 0 .. Len(s) /\ k \in 0 .. Len(t)
      BY <1>1, <1>3, <2>2
    <3>2. SubSeq(t, 1, k) = SubSeq(s, 1, k)
      <4>1. /\ SubSeq(t, 1, k) \in Seq(AFrame) /\ Len(SubSeq(t, 1, k)) = k
            /\ \A i \in 1 .. k : SubSeq(t, 1, k)[i] = t[i]
        BY <1>1, <1>2, <3>1
      <4>2. /\ SubSeq(s, 1, k) \in Seq(AFrame) /\ Len(SubSeq(s, 1, k)) = k
            /\ \A i \in 1 .. k : SubSeq(s, 1, k)[i] = s[i]
        BY <1>2, <3>1
      <4>3. \A i \in 1 .. k : t[i] = s[i]
        BY <1>1, <3>1
      <4> QED
        BY <4>1, <4>2, <4>3, SeqEqual
    <3> QED
      BY <3>1, <3>2
  <2> QED
    BY <2>1, <2>2
<1> QED
  BY <1>1, <1>3 DEF t

\* Whatever the upstream sends, in whatever order and style and whenever it stops, what Aggregate has
\* put together agrees with what was said so far (sse.go mergeToolCall).
THEOREM TellingIsInvariant == ExchangeSpec => []Telling
<1>1. ExchangeInit => Telling
  BY DEF ExchangeInit, Telling
<1>2. Telling /\ [ExchangeNext]_exchangeVars => Telling'
  <2> SUFFICES ASSUME Telling, [ExchangeNext]_exchangeVars PROVE Telling'
    OBVIOUS
  <2>1. CASE Prepare
    BY <2>1 DEF Prepare, Telling, upstreamVars, readerVars
  <2>2. CASE Open
    <3>1. phase' \in {"idle", "streaming"} /\ frames' = <<>> /\ pos' = 0 /\ received' = 0
      BY <2>2 DEF Open, Reset
    <3>2. mode' = "aggregate" => style' \in {"index", "id", "first"}
      BY <2>2 DEF Open, Telling
    <3>3. <<>> \in Seq(AFrame) /\ Len(<<>>) = 0 /\ \A how : Story(how, <<>>)
      BY EmptySeq, StoryBegins
    <3>4. \A k \in 0 .. 0 : SubSeq(<<>>, 1, k) = <<>>
      BY SubSeqEmpty
    <3>5. Len(frames') = 0 /\ \A k \in 0 .. Len(frames') : Story(style', SubSeq(frames', 1, k))
      BY <3>1, <3>3, <3>4
    <3>6. frames' \in Seq(AFrame) /\ phase' # "closing"
      BY <3>1, <3>3
    <3>7. pos' \in Nat /\ received' \in Nat /\ pos' <= received' /\ received' <= Len(frames')
      BY <3>1, <3>5
    <3> QED
      BY <3>2, <3>5, <3>6, <3>7 DEF Telling
  <2>3. CASE Emit \/ Hangup
    <3>1. /\ phase' = phase /\ phase = "streaming"
          /\ UNCHANGED <<mode, style, pos, received>>
      BY <2>3 DEF Emit, Hangup, bodyVars, readerVars
    <3>2. ASSUME mode = "aggregate", frames' # frames
          PROVE  \E f \in AFrame : frames' = Append(frames, f) /\ Story(style, Append(frames, f))
      <4>1. frames \in Seq(AFrame) /\ style \in {"index", "id", "first"} /\ Story(style, frames)
        <5>1. SubSeq(frames, 1, Len(frames)) = frames /\ Len(frames) \in 0 .. Len(frames)
          BY <3>2, SubSeqFull, LenProperties DEF Telling
        <5> QED
          BY <3>2, <5>1 DEF Telling
      <4>2. CASE Emit
        <5>1. PICK f \in Offers : frames' = Append(frames, f)
          BY <4>2 DEF Emit
        <5> QED
          BY <3>2, <4>1, <5>1, StoryGoesOn
      <4>3. CASE Hangup
        <5>1. frames' = Append(frames, Plain("torn"))
          BY <3>2, <4>3 DEF Hangup
        <5> QED
          BY <3>2, <4>1, <5>1, StoryTorn
      <4> QED
        BY <2>3, <4>2, <4>3
    <3>3. CASE mode = "aggregate" /\ frames' # frames
      <4>1. PICK f \in AFrame : frames' = Append(frames, f) /\ Story(style, Append(frames, f))
        BY <3>2, <3>3
      <4>2. /\ frames' \in Seq(AFrame) /\ Len(frames) \in Nat /\ Len(frames') = Len(frames) + 1
            /\ \A k \in 0 .. Len(frames') : Story(style, SubSeq(frames', 1, k))
        BY <3>3, <4>1, StoriesGoOn DEF Telling
      <4> QED
        BY <3>1, <3>3, <4>2 DEF Telling
    <3>4. CASE mode # "aggregate" \/ frames' = frames
      BY <3>1, <3>4 DEF Telling
    <3> QED
      BY <3>3, <3>4
  <2>5. CASE Read
    <3>1. /\ UNCHANGED <<phase, mode, style, frames, pos>> /\ received' = Len(frames)
          /\ received < Len(frames)
      BY <2>5 DEF Read, bodyVars, upstreamVars
    <3> QED
      BY <3>1, LenProperties DEF Telling
  <2>4. CASE Note
    <3>1. /\ UNCHANGED <<mode, style, frames, received>>
          /\ mode = "aggregate" => pos' = received /\ phase' \in {phase, "ended"}
      BY <2>4 DEF Note, HandleLines, bodyVars, upstreamVars
    <3> QED
      BY <3>1 DEF Telling
  <2>6. CASE ReadFails
    BY <2>6 DEF ReadFails, Telling, bodyVars, upstreamVars, readerVars
  <2>7. CASE ReadEof
    BY <2>7 DEF ReadEof, Waiting, Telling, bodyVars, upstreamVars, readerVars
  <2>8. CASE PassOn \/ WriteFails
    BY <2>8 DEF PassOn, WriteFails, Handling, Telling, bodyVars
  <2>9. CASE Finish
    BY <2>9 DEF Finish, Telling, bodyVars
  <2>10. CASE CloseBody
    BY <2>10 DEF CloseBody, Telling
  <2>11. CASE ClientGone \/ MonitorLook \/ MonitorCut \/ Tick \/ UNCHANGED exchangeVars
    BY <2>11 DEF ClientGone, MonitorLook, MonitorCut, Tick, exchangeVars, Telling, bodyVars, upstreamVars,
       readerVars
  <2> QED
    BY <2>1, <2>2, <2>3, <2>4, <2>5, <2>6, <2>7, <2>8, <2>9, <2>10, <2>11 DEF ExchangeNext, Reader
<1> QED
  BY <1>1, <1>2, PTL DEF ExchangeSpec

\* sse.go Aggregate: for any calls in any number of parts, an aggregated answer has the text once and
\* each call exactly with the parts that came, in order; a call of which a part is missing only if
\* the upstream ended the answer properly.
THEOREM AnswersAreExact == ExchangeSpec => []AnswerIsExact
<1>1. Telling => AnswerIsExact
  <2> SUFFICES ASSUME Telling, mode = "aggregate", phase = "ended",
                      ~Repeats(Heard(SubSeq(frames, 1, pos)))
               PROVE  AnswerIsExact
    BY DEF AnswerIsExact
  <2> DEFINE lines == SubSeq(frames, 1, pos)
  <2>1. lines \in Seq(AFrame)
    <3>1. frames \in Seq(AFrame) /\ Len(frames) \in Nat /\ pos \in 0 .. Len(frames)
      BY LenProperties DEF Telling
    <3>2. \A i \in 1 .. pos : frames[i] \in AFrame
      BY <3>1, ElementOfSeq
    <3> QED
      BY <3>1, <3>2, SubSeqProperties
  <2>2. Story(style, lines)
    BY LenProperties DEF Telling
  <2> HIDE DEF lines
  <2>3. PICK n : Tale(style, Heard(lines), Merged(lines), n)
    BY <2>1, <2>2 DEF Story, lines
  <2>4. ~Repeats(Heard(lines))
    BY DEF lines
  <2> QED
    BY <2>1, <2>3, <2>4, Exact DEF AnswerIsExact, lines
<1> QED
  BY <1>1, TellingIsInvariant, PTL

=============================================================================
