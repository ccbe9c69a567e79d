------------------------------- MODULE MCPipe -------------------------------
(* Two lines, one longer than what the C++ side reads at once, and a pipe  *)
(* smaller than a line with its newline.                                   *)
EXTENDS PipeReaders

MCChars == {"a", "b"}
MCLines == {<<"a">>, <<"b", "a", "b">>}
=============================================================================
