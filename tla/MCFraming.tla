------------------------------- MODULE MCFraming -------------------------------
(***************************************************************************)
(* Messages whose length line has one digit and two, one with the end of a *)
(* line and a length inside it, and one that the server's limit admits and *)
(* the client's does not.                                                  *)
(***************************************************************************)
EXTENDS Framing

x == 120

MCPayloads == {<<x>>, <<CR, LF, 51, CR, LF, x, x, x>>}

(* A blank line, a line of text, and a length that is no INT32. *)
MCForeign == {CRLF, <<x>> \o CRLF, <<49, 48, 48>> \o CRLF}

MCMaxLen == [server |-> 10, client |-> 10]
================================================================================
