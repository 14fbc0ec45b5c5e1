--------------------------- MODULE MCHttpRequest ---------------------------
(***************************************************************************)
(* An instance of HttpRequest for TLC: deadlines of two and three ticks, a *)
(* response in two parts.                                                  *)
(***************************************************************************)
EXTENDS HttpRequest
===========================================================================
