-------------------------- MODULE StreamedResponse --------------------------
(***************************************************************************)
(* The hooks of the model clients whose span follows a streamed response.  *)
(* Some wrap the body of the HTTP response and reassemble the events from  *)
(* whatever pieces the application reads (anthropic, openai-go v1 to v3),  *)
(* some wrap the stream of the library (deepseek), some see each chunk in  *)
(* a callback and end the span with the call (ollama, new-api), and one    *)
(* ends the span when the stream is handed out (go-openai).                *)
(*                                                                         *)
(* One call of one library.  A body that is wrapped is a sequence of bytes,*)
(* lines that end with NL.  The text of an event e is <<e, e>>, so that half*)
(* a line is no event.  The other hooks see a sequence of events.  The     *)
(* libraries, the SDK and net/http are external.                           *)
(***************************************************************************)
EXTENDS Streams

CONSTANTS Event,     \* the events of a stream: positive integers
          Bodies,    \* what a server may send, byte by byte
          Chunks     \* what a server may send, event by event

NL == 0
Text(e) == <<e, e>>

ASSUME ResponseAssumption == /\ Event \subseteq Nat \ {NL}
                             /\ Bodies \subseteq Seq(Nat)
                             /\ Chunks \subseteq Seq(Event)
                             /\ None \notin Seq(Event)

OpenAI == {"openai", "openai-v2 chat", "openai-v2 completion",
           "openai-v3 chat", "openai-v3 completion"}
DeepSeek == {"deepseek", "deepseek fim"}
Ollama == {"ollama generate", "ollama chat"}
NewAPI == {"new-api text", "new-api claude", "new-api gemini", "new-api audio"}
Library == {"anthropic", "go-openai"} \union OpenAI \union DeepSeek
             \union Ollama \union NewAPI
OfBodies == {"anthropic"} \union OpenAI

VARIABLES
  at,          \* "idle", "asked", "stream", "over", or "plain": not observed
  streams,     \* ollama: the request asks for a stream
  lineBuffer,  \* the bytes of the line that is not complete
  heard        \* [bytes, err]: what the last Read, or Recv, returned

vars == <<lib, body, at, streams, span, status, recorded, pos, lineBuffer,
          counted, heard>>
server == <<lib, body>>
reading == <<pos, lineBuffer, counted, heard>>

Init ==
  /\ lib \in Library /\ body \in (IF lib \in OfBodies THEN Bodies ELSE Chunks)
  /\ at = "idle" /\ streams \in BOOLEAN
  /\ span = "none" /\ status = "unset" /\ recorded = None
  /\ pos = 0 /\ lineBuffer = <<>> /\ counted = <<>>
  /\ heard = [bytes |-> FALSE, err |-> "none"]
-----------------------------------------------------------------------------
(* Lines and their events.                                                 *)

\* processSSELine, and what it returns unmarshalled.
Parsed(line) == IF \E e \in Event : line = Text(e) THEN <<line[1]>> ELSE <<>>

\* What the next byte makes of the line so far, and of the events before it.
After(was, byte) ==
  IF byte = NL THEN [line |-> <<>>, events |-> was.events \o Parsed(was.line)]
               ELSE [was EXCEPT !.line = Append(@, byte)]

\* The loop over the lines, after the first i bytes.
Scan(bytes) ==
  LET upTo[i \in 0 .. Len(bytes)] ==
        IF i = 0 THEN [line |-> <<>>, events |-> <<>>] ELSE After(upTo[i - 1], bytes[i])
  IN upTo
-----------------------------------------------------------------------------
(* The request and the answer to it.                                       *)

\* The span starts, or the request is not one that is observed: hooks turned
\* off, another path, no body, a body that cannot be read or parsed.
Ask(l) ==
  /\ lib = l /\ at = "idle"
  /\ \/ at' = "asked" /\ span' = "open"
     \/ at' = "plain" /\ UNCHANGED span
  /\ UNCHANGED <<server, streams, status, recorded, reading>>

Failed(l, how) ==
  /\ lib = l /\ at = "asked" /\ at' = "over" /\ End(how, None)
  /\ UNCHANGED <<server, streams, reading>>

Streaming(l) ==
  /\ lib = l /\ at = "asked" /\ at' = "stream"
  /\ UNCHANGED <<server, streams, span, status, recorded, reading>>

\* An answer in one piece, read here; its attributes are left out when it
\* cannot be read or parsed.
Whole(l) ==
  /\ lib = l /\ at = "asked" /\ at' = "over"
  /\ \E events \in {None, Scan(body)[Len(body)].events} : End("unset", events)
  /\ UNCHANGED <<server, streams, reading>>

AnthropicAsk == Ask("anthropic")
AnthropicAnswer ==
  \/ Failed("anthropic", "error")
  \/ Failed("anthropic", "unset")    \* neither an error nor a body
  \/ Streaming("anthropic")          \* by its type, or because it was asked for
  \/ Whole("anthropic")

OpenAIAnswer(l) == Failed(l, "error") \/ Streaming(l) \/ Whole(l)

OpenAIv1Ask == Ask("openai")
OpenAIv1Answer == OpenAIAnswer("openai")
OpenAIv2ChatAsk == Ask("openai-v2 chat")
OpenAIv2ChatAnswer == OpenAIAnswer("openai-v2 chat")
OpenAIv2CompletionAsk == Ask("openai-v2 completion")
OpenAIv2CompletionAnswer == OpenAIAnswer("openai-v2 completion")
OpenAIv3ChatAsk == Ask("openai-v3 chat")
OpenAIv3ChatAnswer == OpenAIAnswer("openai-v3 chat")
OpenAIv3CompletionAsk == Ask("openai-v3 completion")
OpenAIv3CompletionAnswer == OpenAIAnswer("openai-v3 completion")
-----------------------------------------------------------------------------
(* Reading a wrapped body.                                                 *)

\* Mutant: each piece is split on its own, without the rest of the last one.
SplitEachPiece(data) ==
  LET last == Scan(data)[Len(data)]
  IN  counted' = counted \o last.events /\ lineBuffer' = last.line

\* processSSELines: the complete lines are taken from the line buffer and the
\* new data, what follows the last NL is kept.
ProcessSSELines(data) ==
  LET all == lineBuffer \o data
      last == Scan(all)[Len(all)]
  IN  counted' = counted \o last.events /\ lineBuffer' = last.line

\* The reader below returns k bytes and e.  It may return bytes along with an
\* error, returns no bytes only with one, and repeats its error.
Returns(k, e) ==
  /\ k = 0 => e # "none"
  /\ e = "eof" => pos + k = Len(body)
  /\ heard.err # "none" => k = 0 /\ e = heard.err
  /\ pos' = pos + k
  /\ heard' = [bytes |-> k > 0, err |-> e]

\* Mutant: the events that come along with the error are recorded too late.
AnthropicReadEndsFirst(k, e) ==
  /\ lib = "anthropic" /\ at = "stream" /\ Returns(k, e)
  /\ ProcessSSELines(SubSeq(body, pos + 1, pos + k))
  /\ IF e = "none" THEN UNCHANGED <<span, status, recorded>>
     ELSE End(IF e = "eof" THEN "unset" ELSE "error", counted)
  /\ UNCHANGED <<server, at, streams>>

\* streamingReader.Read and finalize.
AnthropicRead(k, e) ==
  /\ lib = "anthropic" /\ at = "stream" /\ Returns(k, e)
  /\ ProcessSSELines(SubSeq(body, pos + 1, pos + k))
  /\ IF e = "none" THEN UNCHANGED <<span, status, recorded>>
     ELSE End(IF e = "eof" THEN "unset" ELSE "error", counted')
  /\ UNCHANGED <<server, at, streams>>

\* Mutant: Close leaves the span alone.
AnthropicCloseOnly ==
  /\ lib = "anthropic" /\ at = "stream" /\ at' = "over"
  /\ UNCHANGED <<server, streams, span, status, recorded, reading>>

\* streamingReader.Close and finalize.
AnthropicClose ==
  /\ lib = "anthropic" /\ at = "stream" /\ at' = "over"
  /\ End("unset", counted)
  /\ UNCHANGED <<server, streams, reading>>

\* The span ends with the first Read that returns no bytes, whatever the error.
OpenAIRead(l, k, e) ==
  /\ lib = l /\ at = "stream" /\ Returns(k, e)
  /\ IF k > 0
     THEN /\ ProcessSSELines(SubSeq(body, pos + 1, pos + k))
          /\ UNCHANGED <<span, status, recorded>>
     ELSE /\ End(status, counted)
          /\ UNCHANGED <<lineBuffer, counted>>
  /\ UNCHANGED <<server, at, streams>>

OpenAIv1Read(k, e) == OpenAIRead("openai", k, e)
OpenAIv2ChatRead(k, e) == OpenAIRead("openai-v2 chat", k, e)
OpenAIv2CompletionRead(k, e) == OpenAIRead("openai-v2 completion", k, e)
OpenAIv3ChatRead(k, e) == OpenAIRead("openai-v3 chat", k, e)
OpenAIv3CompletionRead(k, e) == OpenAIRead("openai-v3 completion", k, e)

\* The wrappers of openai-go and deepseek only pass Close on.
PlainClose(l) ==
  /\ lib = l /\ at = "stream" /\ at' = "over"
  /\ UNCHANGED <<server, streams, span, status, recorded, reading>>

\* The application leaves a stream that told it an error, without Close.
Leave ==
  /\ at = "stream" /\ lib \in OfBodies \union DeepSeek
  /\ heard.err # "none" /\ at' = "over"
  /\ UNCHANGED <<server, streams, span, status, recorded, reading>>
-----------------------------------------------------------------------------
(* Wrapped streams: deepseek.                                              *)

\* Without a stream to wrap the span ends, and the error is not recorded.
DeepSeekExit(l) == Failed(l, "unset") \/ Streaming(l)

\* The next chunk, or an error and no chunk.  The error is repeated.
Recv(l, e) ==
  /\ lib = l /\ at = "stream"
  /\ e = "eof" => pos = Len(body)
  /\ heard.err # "none" => e = heard.err
  /\ heard' = [bytes |-> e = "none", err |-> e]
  /\ IF e = "none"
     THEN /\ pos < Len(body)
          /\ pos' = pos + 1
          /\ counted' = Append(counted, body[pos + 1])
          /\ UNCHANGED <<span, status, recorded>>
     ELSE /\ End(IF e = "eof" THEN "unset" ELSE "error", counted)
          /\ UNCHANGED <<pos, counted>>
  /\ UNCHANGED <<server, at, streams, lineBuffer>>

DeepSeekChatEnter == Ask("deepseek")
DeepSeekChatExit == DeepSeekExit("deepseek")
DeepSeekChatRecv(e) == Recv("deepseek", e)
DeepSeekFIMEnter == Ask("deepseek fim")
DeepSeekFIMExit == DeepSeekExit("deepseek fim")
DeepSeekFIMRecv(e) == Recv("deepseek fim", e)
-----------------------------------------------------------------------------
(* Chunks seen within the call: ollama and new-api.                        *)

Chunk(l) ==
  /\ lib = l /\ at = "asked" /\ pos < Len(body)
  /\ pos' = pos + 1
  /\ UNCHANGED <<server, at, streams, span, status, recorded, lineBuffer, heard>>

\* wrappedFn: recordChunk, and finalize with the last one.  Without streams
\* there is one response, which has the whole text.
OllamaChunk(l) ==
  \/ streams /\ Chunk(l) /\ counted' = Append(counted, body[pos + 1])
  \/ /\ ~streams /\ lib = l /\ at = "asked" /\ pos < Len(body)
     /\ pos' = Len(body)
     /\ UNCHANGED <<server, at, streams, span, status, recorded, lineBuffer,
                    counted, heard>>

\* The call returns an error of its own or of the callback, or when the last
\* response was seen.
OllamaExit(l) ==
  /\ lib = l /\ at = "asked" /\ at' = "over"
  /\ \/ End("error", None)
     \/ /\ pos = Len(body)
        /\ End("unset", IF streams THEN counted ELSE SubSeq(body, 1, pos))
  /\ UNCHANGED <<server, streams, reading>>

OllamaGenerateEnter == Ask("ollama generate")
OllamaGenerateChunk == OllamaChunk("ollama generate")
OllamaGenerateExit == OllamaExit("ollama generate")
OllamaChatEnter == Ask("ollama chat")
OllamaChatChunk == OllamaChunk("ollama chat")
OllamaChatExit == OllamaExit("ollama chat")

\* The hook finds the trace info of the helper in the gin context; the audio
\* helper relays no chunks.
HandleStreamFormat ==
  /\ \E l \in NewAPI \ {"new-api audio"} : Chunk(l)
  /\ counted' = Append(counted, body[pos + 1])

\* The helper returns, with an error or without, after any number of chunks.
NewAPIExit(l) ==
  /\ lib = l /\ at = "asked" /\ at' = "over"
  /\ \E how \in {"unset", "error"} : End(how, counted)
  /\ UNCHANGED <<server, streams, reading>>

TextHelperEnter == Ask("new-api text")
TextHelperExit == NewAPIExit("new-api text")
ClaudeHelperEnter == Ask("new-api claude")
ClaudeHelperExit == NewAPIExit("new-api claude")
GeminiHelperEnter == Ask("new-api gemini")
GeminiHelperExit == NewAPIExit("new-api gemini")
AudioHelperEnter == Ask("new-api audio")
AudioHelperExit == NewAPIExit("new-api audio")
-----------------------------------------------------------------------------
(* A span that ends with the call: go-openai.                              *)

CreateStreamEnter == Ask("go-openai")
CreateStreamExit ==
  \/ Failed("go-openai", "error")
  \/ /\ lib = "go-openai" /\ at = "asked" /\ at' = "stream"
     /\ End("unset", <<>>)
     /\ UNCHANGED <<server, streams, reading>>
UnseenRecv ==
  /\ lib = "go-openai" /\ at = "stream"
  /\ IF pos < Len(body) THEN pos' = pos + 1 /\ UNCHANGED at
                          ELSE at' = "over" /\ UNCHANGED pos
  /\ UNCHANGED <<server, streams, span, status, recorded, lineBuffer, counted, heard>>
-----------------------------------------------------------------------------
AnthropicNext ==
  \/ AnthropicAsk \/ AnthropicAnswer \/ AnthropicClose
  \/ \E k \in 0..Len(body) - pos, e \in {"none", "eof", "broken"} : AnthropicRead(k, e)
OpenAINext ==
  \/ OpenAIv1Ask \/ OpenAIv1Answer
  \/ OpenAIv2ChatAsk \/ OpenAIv2ChatAnswer
  \/ OpenAIv2CompletionAsk \/ OpenAIv2CompletionAnswer
  \/ OpenAIv3ChatAsk \/ OpenAIv3ChatAnswer
  \/ OpenAIv3CompletionAsk \/ OpenAIv3CompletionAnswer
  \/ \E k \in 0..Len(body) - pos, e \in {"none", "eof", "broken"} :
       \/ OpenAIv1Read(k, e)
       \/ OpenAIv2ChatRead(k, e) \/ OpenAIv2CompletionRead(k, e)
       \/ OpenAIv3ChatRead(k, e) \/ OpenAIv3CompletionRead(k, e)
  \/ \E l \in OpenAI : PlainClose(l)
DeepSeekNext ==
  \/ DeepSeekChatEnter \/ DeepSeekChatExit \/ DeepSeekFIMEnter \/ DeepSeekFIMExit
  \/ \E e \in {"none", "eof", "broken"} : DeepSeekChatRecv(e) \/ DeepSeekFIMRecv(e)
  \/ \E l \in DeepSeek : PlainClose(l)
OllamaNext ==
  \/ OllamaGenerateEnter \/ OllamaGenerateChunk \/ OllamaGenerateExit
  \/ OllamaChatEnter \/ OllamaChatChunk \/ OllamaChatExit
NewAPINext ==
  \/ TextHelperEnter \/ TextHelperExit \/ ClaudeHelperEnter \/ ClaudeHelperExit
  \/ GeminiHelperEnter \/ GeminiHelperExit \/ AudioHelperEnter \/ AudioHelperExit
  \/ HandleStreamFormat
GoOpenAINext == CreateStreamEnter \/ CreateStreamExit \/ UnseenRecv

Next == AnthropicNext \/ OpenAINext \/ DeepSeekNext \/ OllamaNext \/ NewAPINext
          \/ GoOpenAINext \/ Leave

Spec == Init /\ [][Next]_vars
-----------------------------------------------------------------------------
(* Properties.                                                             *)

\* The variables have their types, and a span exists exactly for observed calls.
TypeOK ==
  /\ lib \in Library /\ body \in (IF lib \in OfBodies THEN Bodies ELSE Chunks)
  /\ at \in {"idle", "asked", "stream", "over", "plain"} /\ streams \in BOOLEAN
  /\ span \in {"none", "open", "ended"}
  /\ span = "none" <=> at \in {"idle", "plain"}
  /\ status \in {"unset", "error"}
  /\ recorded = None \/ recorded \in Seq(Event)
  /\ pos \in 0 .. Len(body)
  /\ lineBuffer \in Seq(Nat) /\ counted \in Seq(Event)
  /\ heard \in [bytes : BOOLEAN, err : {"none", "eof", "broken"}]

\* What the application received so far, as events: of a body those whose lines
\* end within the bytes read, read in one piece.
Received == IF lib \in OfBodies THEN Scan(body)[pos].events ELSE SubSeq(body, 1, pos)

\* However the bytes of the body are cut into reads, the wrapper has accumulated
\* exactly the events whose lines the application has received, in their order.
Reassembled ==
  lib # "go-openai" /\ (lib \in Ollama => streams) => counted = Received

\* The span of a stream that ended carries every event the application received,
\* those that came along with the error too, and a broken stream of anthropic and
\* deepseek shows on it; afterwards the application receives nothing more.  An
\* answer in one piece has its events without the application reading it.
RecordedAll ==
  span = "ended" /\ lib # "go-openai" /\ recorded # None
    => /\ recorded = Received \/ (lib \in OfBodies /\ at = "over" /\ pos = 0)
       /\ lib \in {"anthropic"} \union DeepSeek /\ heard.err = "broken"
            => status = "error"

\* A span is there for observed calls, and once the application is done with a
\* response it has ended, but for one way out: openai-go and deepseek end it in a
\* read without data, so a stream that is closed, or told its end along with its
\* last bytes, keeps it open.
EndedWhenDone ==
  /\ TypeOK
  /\ at = "over" /\ span # "ended"
       => /\ lib \in OpenAI \union DeepSeek
          /\ heard.err = "none" \/ (lib \in OpenAI /\ heard.bytes)
=============================================================================
