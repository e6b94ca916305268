------------------------- MODULE MCStreamedResponse -------------------------
(* Small bodies: events, lines that are none, half of an event, nothing, the *)
(* last line with NL and without; and streams of up to three events.       *)
EXTENDS StreamedResponse, SequencesExt

MCEvent == {1, 2}
Other == 9
Lines == {<<>>, <<Text(1)>>, <<Text(1), <<>>, Text(2)>>, <<Text(2), <<Other>>>>,
          <<<<Other>>, Text(1), Text(1)>>, <<<<1>>, Text(2)>>}
Bytes(lines) == FoldLeft(LAMBDA acc, line : acc \o line \o <<NL>>, <<>>, lines)
MCBodies == UNION {{Bytes(lines), Front(Bytes(lines))} : lines \in Lines \ {<<>>}} \union {<<>>}
MCChunks == {<<>>, <<1>>, <<1, 2>>, <<2, 1, 1>>}
=============================================================================
