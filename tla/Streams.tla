------------------------------ MODULE Streams -------------------------------
(***************************************************************************)
(* What the models of the hooks for streamed answers have in common: one   *)
(* call of one library, the answer to it, and its span, which carries what *)
(* the hook has accumulated of the answer when it ends.  StreamChannels has*)
(* the hooks that observe the stream from a goroutine, StreamedResponse    *)
(* those that observe it in the calls of the application.                  *)
(***************************************************************************)
EXTENDS Integers, Sequences

CONSTANT None

VARIABLES
  lib,        \* the library of the call, or which of its functions
  body,       \* the answer of the server
  pos,        \* how much of it the application, or producer, went past
  counted,    \* what the hook accumulated of it
  span,       \* "none", "open", "ended"
  status,     \* "unset", "ok", "error"
  recorded    \* what is on the span, None without any

\* The span ends with what is recorded on it; an ended span takes nothing more.
End(how, chunks) ==
  /\ span' = "ended"
  /\ IF span = "open"
     THEN status' = how /\ recorded' = chunks
     ELSE UNCHANGED <<status, recorded>>
=============================================================================
