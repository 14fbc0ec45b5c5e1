---------------------------- MODULE MCSubprocess ----------------------------
(***************************************************************************)
(* An instance of Subprocess for TLC: every order of up to four writes to  *)
(* the two streams, through pipes that hold two.                           *)
(***************************************************************************)
EXTENDS Subprocess, SequencesExt

MCOutputs == SeqOf(Stream, 4)
===========================================================================
