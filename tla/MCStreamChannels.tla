-------------------------- MODULE MCStreamChannels --------------------------
(* Channels of two, streams of up to four items with an error anywhere.    *)
EXTENDS StreamChannels

CONSTANTS c1, c2
MCAnswers == {<<>>, <<c1, c2>>, <<c1, c2, c1, c2>>, <<Bad, c1, c2, c1>>,
             <<c1, Bad>>, <<c1, Torn, c2>>, <<Torn>>}
=============================================================================
