------------------------------ MODULE GenRate ------------------------------
(***************************************************************************)
(* The rate of a session's output as the host estimates and tells it:      *)
(* src/internal/acp/genrate.go, and dispatchSessionUpdateKind of bridge.go *)
(* that feeds it.                                                          *)
(*                                                                         *)
(* A chunk has a size and a time: the agent's, with the start of the LLM   *)
(* stream it belongs to or without, or else the host's on arrival.  Times  *)
(* are counted from 1, rates in characters per Unit of time, rounded down. *)
(* The chunks a session/load replays are left out.                         *)
(***************************************************************************)
EXTENDS Integers

CONSTANTS
  Sizes,        \* characters of a chunk
  Unit,
  Throttle,     \* genRateThrottleMs
  FirstPublish, \* genRateFirstPublishMs
  IdleCap,      \* genRateMaxIdleGapMs
  MinGap,       \* genRateMinDtMs
  Cap,          \* genRateDisplayCapCps and genRateMaxPlausibleCps
  Leaps,        \* how far a clock moves between two chunks
  MaxChunks, MaxTime

ASSUME GenRateAssumption ==
  /\ Sizes \subseteq Nat \ {0} /\ Leaps \subseteq Nat
  /\ {Unit, Throttle, FirstPublish, IdleCap, MinGap, Cap, MaxChunks, MaxTime} \subseteq Nat \ {0}

Never   == -1
Sources == {"stream", "agent", "host"}

VARIABLES
  seg,     \* the genRateSeg of the session
  clock,   \* of the agent and of the host
  stream,  \* the LLM stream the agent is in: its start, the characters sent of it
  shown,   \* the rate a browser shows, or Never
  chunks,  \* chunks so far
  announced \* the last rate that was told (history)

rateVars == <<seg, clock, stream, shown, chunks, announced>>

\* lastTs, ema, firstPending, segStartTs, streamStart, segChars, segEffMs,
\* agentClock; lastPublishTs outlives the segment.
Fresh == [lastTs |-> Never, ema |-> Never, first |-> FALSE, start |-> 0, stream |-> 0,
          chars |-> 0, eff |-> 0, agent |-> FALSE, published |-> Never]
Untold == [by |-> "agent", at |-> Never, rate |-> 0, gap |-> Throttle, most |-> Cap]

RateTypeOK ==
  /\ seg.lastTs \in Never..MaxTime /\ seg.published \in Never..MaxTime /\ seg.stream \in 0..MaxTime
  /\ seg.ema \in Never..Cap /\ seg.chars \in Nat /\ seg.eff \in Nat
  /\ shown \in Never..Cap

RateInit ==
  /\ seg = Fresh /\ clock = [agent |-> 1, host |-> 1] /\ stream = [start |-> 1, chars |-> 0]
  /\ shown = Never /\ chunks = 0 /\ announced = Untold

Least(a, b) == IF a <= b THEN a ELSE b
Most(a, b)  == IF a >= b THEN a ELSE b
Rate(chars, time) == (chars * Unit) \div time

\* clearSegment
Cleared(s) == [Fresh EXCEPT !.agent = s.agent, !.published = s.published]

\* reseed
Reseed(s, ts, src) ==
  [Cleared(s) EXCEPT !.lastTs = ts, !.start = ts, !.first = TRUE, !.agent = src # "host",
                     !.stream = IF src = "stream" THEN stream.start ELSE 0]

\* The first chunk of a segment, another stream or another source than that of
\* the segment begin it anew.
NewSegment(s, src) ==
  \/ s.lastTs = Never
  \/ s.stream > 0 /\ (src # "stream" \/ s.stream # stream.start)
  \/ s.stream = 0 /\ src = "stream"

\* effectiveGapMs
EffectiveGap(n, gap, agent) ==
  IF agent THEN gap ELSE Most(Least(gap, IdleCap), Most((n * Unit) \div Cap, MinGap))

\* blendGenRate, with its weight of a fifth
Blend(ema, rate) == LET r == Least(rate, Cap) IN IF ema = Never THEN r ELSE (4 * ema + r) \div 5

\* publish: throttled, unless the clock has gone back.
Published(s, ts) == s.published = Never \/ ts < s.published \/ ts - s.published >= Throttle
Publish(s, rate, ts) ==
  IF Published(s, ts) THEN [seg |-> [s EXCEPT !.published = ts], rate |-> rate]
  ELSE [seg |-> s, rate |-> Never]
Silent(s) == [seg |-> s, rate |-> Never]

\* A stream whose start is known: all its characters over the time since then.
OfStream(s, n, ts) ==
  LET wall == ts - s.stream
      c == [s EXCEPT !.chars = @ + n]
      open == [c EXCEPT !.first = FALSE]
  IN IF wall <= 0 \/ (s.first /\ wall < FirstPublish) THEN Silent(c)
     ELSE Publish(open, Least(Rate(c.chars, wall), Cap), ts)

\* Any other: the characters after the first chunk over the gaps between chunks.
OfGaps(s, n, ts, src) ==
  LET gap == ts - s.lastTs
      c == [s EXCEPT !.chars = @ + n, !.lastTs = ts,
              !.eff = @ + IF gap > 0 THEN EffectiveGap(n, gap, src # "host" /\ s.agent) ELSE 0]
      r == Blend(c.ema, Rate(c.chars, c.eff))
  IN IF (s.first /\ ts - s.start < FirstPublish) \/ c.eff <= 0
     THEN Silent(c)
     ELSE Publish([c EXCEPT !.first = FALSE, !.ema = r], r, ts)

\* observe
Observe(s, n, ts, src) ==
  LET r == IF NewSegment(s, src) THEN Reseed(s, ts, src) ELSE s IN
  IF r.stream > 0 THEN OfStream(r, n, ts)
  ELSE IF NewSegment(s, src) THEN Silent(r) ELSE OfGaps(r, n, ts, src)

-----------------------------------------------------------------------------
(* what reaches dispatchSessionUpdateKind *)

\* agent_message_chunk, agent_thought_chunk: the text is sent on, then the rate.
Chunk(n, src) ==
  LET by == IF src = "host" THEN "host" ELSE "agent"
      ts == clock[by]
      o == Observe(seg, n, ts, src)
      sent == stream.chars + n
      wall == ts - o.seg.stream
  IN /\ chunks < MaxChunks /\ chunks' = chunks + 1
     /\ seg' = o.seg /\ stream' = [stream EXCEPT !.chars = sent]
     /\ IF o.rate = Never THEN UNCHANGED <<shown, announced>>
        ELSE /\ shown' = o.rate
             /\ announced' = [by |-> by, at |-> ts, rate |-> o.rate,
                         gap |-> IF announced.by = by /\ announced.at \in 0..ts THEN ts - announced.at ELSE Throttle,
                         most |-> IF o.seg.stream > 0 THEN Least(Rate(sent, wall), Cap) ELSE Cap]
     /\ UNCHANGED clock

\* user_message_chunk: the estimator is reset without a word.
UserChunk ==
  /\ seg.lastTs # Never /\ seg' = Cleared(seg)
  /\ UNCHANGED <<clock, stream, shown, chunks, announced>>

\* tool_call, response_completed, turn_completed: reset, and the browsers told.
Boundary ==
  /\ seg' = Cleared(seg) /\ shown' = Never
  /\ UNCHANGED <<clock, stream, chunks, announced>>

\* CloseSession and SessionDelete: discard
Discard ==
  /\ seg' = Fresh /\ announced' = Untold
  /\ UNCHANGED <<clock, stream, shown, chunks>>

\* The agent begins another stream (never at the very start of one the host still
\* counts); the clocks go on, the agent's may be set back.
NewStream ==
  /\ clock.agent \notin {stream.start, seg.stream}
  /\ stream' = [start |-> clock.agent, chars |-> 0]
  /\ UNCHANGED <<seg, clock, shown, chunks, announced>>
Time ==
  /\ \E d \in Leaps : \/ clock' = [agent |-> clock.agent + d, host |-> clock.host + d]
                      \/ clock' = [clock EXCEPT !.agent = @ - d]
  /\ clock'.agent \in 1..MaxTime /\ clock'.host <= MaxTime
  /\ UNCHANGED <<seg, stream, shown, chunks, announced>>

RateNext ==
  \/ \E n \in Sizes, src \in Sources : Chunk(n, src)
  \/ UserChunk \/ Boundary \/ Discard \/ NewStream \/ Time

-----------------------------------------------------------------------------
(* properties *)

\* Rates are told no oftener than the throttle allows, whatever segments begin and
\* end in between, unless the clock they are measured by has changed or gone back.
Spaced == announced.gap >= Throttle

\* A rate measured from the start of a stream is at most what the agent has sent of
\* that stream by then: nothing is counted twice, nor taken over from another
\* stream; and no burst lets a rate pass the cap.
NoOverstatement == announced.rate <= announced.most

RateRight == RateTypeOK /\ Spaced /\ NoOverstatement
=============================================================================
