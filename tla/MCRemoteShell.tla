--------------------------- MODULE MCRemoteShell ---------------------------
(* The files RemoteShell is model-checked with. *)
EXTENDS RemoteShell

CONSTANTS s1, s2, s3

Says(text) == [op |-> "run", says |-> text]
Quits      == [op |-> "exit", says |-> <<>>]
Later      == [op |-> "later", says |-> <<>>]
Out(k)     == <<"out", k>>

MCSessions  == {s1, s2, s3}
MCProcesses == 0 .. 4

(* A session that is as the course has it, with a line ... |N, one whose      *)
(* command prints what looks like a prompt, and one that has no file.          *)
MCFile == [s \in MCSessions |->
             CASE s = s1 -> <<Says(<<Out(1)>>), Later, Quits>>
               [] s = s2 -> <<Says(Prompt \o <<Out(1)>>), Quits>>
               [] s = s3 -> <<>>]

MCProxied == {s1}
=============================================================================
