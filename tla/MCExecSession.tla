---------------------------- MODULE MCExecSession ----------------------------
(* Small instances of ExecSession for TLC.                                 *)
EXTENDS ExecSession

\* Two chunks of stdout may overtake or overwrite each other; stderr has one.
TwoAndOne == [stdout |-> 2, stderr |-> 1]
OneEach == [stdout |-> 1, stderr |-> 1]
=============================================================================
