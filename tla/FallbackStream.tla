---------------------------- MODULE FallbackStream ----------------------------
(***************************************************************************)
(* One streamed completion of the router: CascadingFallbackDispatcher      *)
(* (src/router/fallback_dispatcher.ts) reading the generators of           *)
(* createLiveStreamExecutor (src/router/live_stream_executor.ts).          *)
(*                                                                         *)
(* Two buffers remove what a replacement repeats.  The executor replaces   *)
(* the provider's own upstream by a backup (the secondary executor or      *)
(* Gemini); the dispatcher replaces the whole generator by the one of the  *)
(* next provider.  A text is a sequence of tokens; a chunk is any number   *)
(* of them.                                                                *)
(*                                                                         *)
(* Abstracted: the SSE framing, endpoints and keys (a provider that reads  *)
(* Gemini directly, or has no key and no backup, is one outside Backed),   *)
(* and the generator of a provider that was given up.                      *)
(***************************************************************************)
EXTENDS Integers, Sequences, FiniteSets

CONSTANTS
  Chain,    \* the number of ranked providers handed to dispatch()
  Backed,   \* the providers whose executor has a backup
  Token,
  Texts     \* what the sources may have to say: functions from sources to texts

Ranks == 1 .. Chain
Sources == Ranks \cup {0}   \* 0 is the backup

ASSUME StreamAssumption ==
  /\ Chain \in Nat \ {0}
  /\ Backed \subseteq Ranks
  /\ Texts \subseteq [Sources -> Seq(Token)]

VARIABLES
  text,    \* text[s]: what source s sends before it ends, unless it breaks
  phase,   \* "probing" for a first chunk, "streaming", "ended" or "failed"
  at,      \* the provider whose generator is read
  src,     \* the source that generator reads: at, or the backup
  pos,     \* how much of text[src] was read
  inner,   \* the executor's buffer
  outer,   \* the dispatcher's buffer; outer.seen is what the caller was sent
  base,    \* history: what the caller had when generator at was taken up
  tried    \* history: the providers that were given up

fvars == <<text, phase, at, src, pos, inner, outer, base, tried>>

Buffers == [seen : Seq(Token), held : Seq(Token), trimmed : BOOLEAN]

FTypeOK ==
  /\ text \in Texts
  /\ phase \in {"probing", "streaming", "ended", "failed"}
  /\ at \in Ranks
  /\ src \in {at, 0}
  /\ pos \in 0 .. Len(text[src])
  /\ inner \in Buffers
  /\ outer \in Buffers
  /\ base \in Seq(Token)
  /\ tried \in SUBSET Ranks

-----------------------------------------------------------------------------
(* Removing what was sent already.                                         *)

\* getCommonPrefixLength.
CommonLen(a, b) ==
  CHOOSE n \in 0 .. Len(a) :
    /\ n <= Len(b)
    /\ \A i \in 1 .. n : a[i] = b[i]
    /\ n < Len(a) /\ n < Len(b) => a[n + 1] # b[n + 1]

\* What of held the owner of seen does not have.
Unsent(seen, held) == SubSeq(held, CommonLen(seen, held) + 1, Len(held))

Fresh == [seen |-> <<>>, held |-> <<>>, trimmed |-> TRUE]

\* A buffer in front of a replacement that starts from the beginning.
Replacing(seen, trimmed) == [seen |-> seen, held |-> <<>>, trimmed |-> trimmed]

\* A chunk enters a buffer: the buffer afterwards and what it lets through.
\* The replacement is held back until it is slack tokens longer than what the
\* caller has.
Feed(b, chunk, slack) ==
  LET held == b.held \o chunk IN
  IF b.trimmed
  THEN [buffer |-> b, out |-> chunk]
  ELSE IF Len(held) >= Len(b.seen) + slack
       THEN [buffer |-> [b EXCEPT !.held = held, !.trimmed = TRUE], out |-> Unsent(b.seen, held)]
       ELSE [buffer |-> [b EXCEPT !.held = held], out |-> <<>>]

\* The replacement ends before it was let through.
Flush(b) == IF b.trimmed THEN <<>> ELSE Unsent(b.seen, b.held)

-----------------------------------------------------------------------------
(* The executor's generator.                                               *)

\* The text of the own upstream is remembered for a later backup.
InnerFeed(chunk) ==
  LET fed == Feed(inner, chunk, 0) IN
  IF src = 0 THEN fed
  ELSE [fed EXCEPT !.buffer.seen = @ \o chunk]

Generator(p) ==
  /\ at' = p
  /\ src' = p
  /\ pos' = 0
  /\ inner' = Fresh

\* The own upstream broke: the backup is asked for the whole text.
TakeBackup ==
  /\ src' = 0
  /\ pos' = 0
  /\ inner' = Replacing(inner.seen, inner.seen = <<>>)
  /\ UNCHANGED <<text, phase, at, outer, base, tried>>

-----------------------------------------------------------------------------
(* The dispatcher.                                                         *)

FInit ==
  /\ text \in Texts
  /\ phase = "probing"
  /\ at = 1
  /\ src = 1
  /\ pos = 0
  /\ inner = Fresh
  /\ outer = Fresh
  /\ base = <<>>
  /\ tried = {}

\* wrappedBufferedStream on what the generator yields.
OuterFeed(piece) ==
  LET fed == Feed(outer, piece, 1) IN [fed.buffer EXCEPT !.seen = @ \o fed.out]

Chunk(n) ==
  /\ phase \in {"probing", "streaming"}
  /\ pos + n <= Len(text[src])
  /\ LET fed == InnerFeed(SubSeq(text[src], pos + 1, pos + n)) IN
       /\ inner' = fed.buffer
       /\ outer' = OuterFeed(fed.out)
  /\ pos' = pos + n
  /\ phase' = "streaming"
  /\ UNCHANGED <<text, at, src, base, tried>>

\* The generator ends: both buffers give up what they still hold back.
Ends ==
  /\ phase = "streaming"
  /\ pos = Len(text[src])
  /\ LET last == OuterFeed(Flush(inner)) IN
       outer' = [last EXCEPT !.seen = @ \o Flush(last), !.trimmed = TRUE]
  /\ phase' = "ended"
  /\ UNCHANGED <<text, at, src, pos, inner, base, tried>>

NextProbeAgain ==
  /\ tried' = tried \cup {at}
  /\ IF at < Chain
     THEN Generator(at) /\ UNCHANGED phase
     ELSE phase' = "failed" /\ UNCHANGED <<at, src, pos, inner>>
  /\ UNCHANGED <<text, outer, base>>

\* dispatch() goes on to the next provider before anything was sent.
NextProbe ==
  /\ tried' = tried \cup {at}
  /\ IF at < Chain
     THEN Generator(at + 1) /\ UNCHANGED phase
     ELSE phase' = "failed" /\ UNCHANGED <<at, src, pos, inner>>
  /\ UNCHANGED <<text, outer, base>>

\* The first result is the end of an empty stream.
EmptyResponse ==
  /\ phase = "probing"
  /\ pos = Len(text[src])
  /\ NextProbe

\* No first chunk within fallbackTimeoutMs.
TtftTimeout ==
  /\ phase = "probing"
  /\ NextProbe

NextStreamStale ==
  /\ tried' = tried \cup {at}
  /\ IF at < Chain
     THEN /\ Generator(at + 1)
          /\ outer' = [outer EXCEPT !.trimmed = FALSE]
          /\ base' = outer.seen
          /\ UNCHANGED phase
     ELSE phase' = "failed" /\ UNCHANGED <<at, src, pos, inner, outer, base>>
  /\ UNCHANGED text

NextStreamSkips ==
  /\ tried' = tried \cup {at}
  /\ IF at + 1 < Chain
     THEN /\ Generator(at + 2)
          /\ outer' = Replacing(outer.seen, FALSE)
          /\ base' = outer.seen
          /\ UNCHANGED phase
     ELSE phase' = "failed" /\ UNCHANGED <<at, src, pos, inner, outer, base>>
  /\ UNCHANGED text

\* The generator throws in mid-stream: the next provider starts from the
\* beginning, or the error reaches the reader.
NextStream ==
  /\ tried' = tried \cup {at}
  /\ IF at < Chain
     THEN /\ Generator(at + 1)
          /\ outer' = Replacing(outer.seen, FALSE)
          /\ base' = outer.seen
          /\ UNCHANGED phase
     ELSE phase' = "failed" /\ UNCHANGED <<at, src, pos, inner, outer, base>>
  /\ UNCHANGED text

Breaks ==
  \/ /\ phase \in {"probing", "streaming"}
     /\ src = at /\ at \in Backed
     /\ TakeBackup
  \/ /\ ~(src = at /\ at \in Backed)
     /\ \/ phase = "probing" /\ NextProbe
        \/ phase = "streaming" /\ NextStream

Read == (\E n \in 1 .. Len(text[src]) : Chunk(n)) \/ Ends \/ EmptyResponse \/ Breaks

FNext == Read \/ TtftTimeout

FSpec == FInit /\ [][FNext]_fvars

-----------------------------------------------------------------------------
(* Properties.                                                             *)

Splice(seen, other) == seen \o Unsent(seen, other)

\* What a generator has to say when it is read to its end.
GeneratorText ==
  IF src = 0 THEN Splice(inner.seen, text[0]) ELSE text[src]

IsPrefixOf(a, b) == Len(a) <= Len(b) /\ \A i \in 1 .. Len(a) : a[i] = b[i]

\* "seamless mid-stream fallback without duplicate tokens"
\* (fallback_dispatcher.ts:77): when all providers give the same answer, the
\* caller has a beginning of it at every moment, however often and wherever the
\* streams break, and the whole of it when the stream ends.
Seamless ==
  \A t \in {text[s] : s \in Sources} : (\A s \in Sources : text[s] = t) =>
    /\ IsPrefixOf(outer.seen, t)
    /\ phase = "ended" => outer.seen = t

\* Whatever the providers answer, the end of a stream leaves the caller with
\* what it had and everything of the last generator's text from the first
\* difference on: nothing is dropped in either buffer
\* (fallback_dispatcher.ts:112-123, live_stream_executor.ts:142-162, 185-191).
NothingDropped ==
  phase = "ended" => outer.seen = Splice(base, GeneratorText)

\* The caller sees one answer, neither doubled nor cut, over any number of breaks.
OneAnswer == FTypeOK /\ Seamless /\ NothingDropped

\* A stream fails only when every provider of the chain was tried
\* (fallback_dispatcher.ts:47, 97-107).
LastResort == phase = "failed" => tried = Ranks
=============================================================================
