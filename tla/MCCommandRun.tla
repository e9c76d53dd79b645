---------------------------- MODULE MCCommandRun ----------------------------
(* The instance of CommandRun for TLC.                                       *)
EXTENDS CommandRun

\* Outputs whose characters, line ends and last line a read can cut: a blank
\* stream, a wide character, a lone lead byte, a carriage return inside and at
\* the end of a line, and a last line without its newline.
Outputs ==
  {<<>>, <<"lead", "tail", "nl">>, <<"x", "cr", "nl", "x">>,
   <<"cr", "cr", "nl", "lead">>}
===========================================================================
