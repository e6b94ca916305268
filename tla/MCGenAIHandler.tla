--------------------------- MODULE MCGenAIHandler ---------------------------
(* One invocation: the handler keeps nothing, so that invocations share only *)
(* the clock, which may move at any time.                                    *)
EXTENDS GenAIHandler

Env(experimental, capture, emit) ==
  [experimental |-> experimental, capture |-> capture, emit |-> emit]

\* All that can be asked for without the experimental mode, and each place for
\* content with it, events being asked for or not.
MCEnvironments == {Env(FALSE, "both", TRUE), Env(TRUE, "span", TRUE),
                   Env(TRUE, "event", TRUE), Env(TRUE, "both", FALSE)}
=============================================================================
