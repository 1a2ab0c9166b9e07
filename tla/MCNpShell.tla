----------------------------- MODULE MCNpShell -----------------------------
(* The programs, and the menus of lines NpShell is model-checked with. *)
EXTENDS NpShell, TLC

Source(k) == [reads |-> FALSE, says |-> k, known |-> TRUE]
Filter    == [reads |-> TRUE,  says |-> 0, known |-> TRUE]
Unknown   == [reads |-> TRUE,  says |-> 0, known |-> FALSE]

Normal(cmds)     == [op |-> "run", kind |-> "normal", num |-> 0, cmds |-> cmds]
ToFile(cmds)     == [op |-> "run", kind |-> "file", num |-> 0, cmds |-> cmds]
Number(cmds, k)  == [op |-> "run", kind |-> "number", num |-> k, cmds |-> cmds]
BuiltinLine      == [op |-> "builtin"]
EmptyLine        == [op |-> "empty"]
ExitLine         == [op |-> "exit"]

MCKinds == {"normal", "file", "number"}
MCNormalFile == {"normal", "file"}

(* Every way to be joined: one to four commands, |1 and |2, into a file.   *)
RouteLines == {Number(<<Source(1)>>, 1), Number(<<Source(1)>>, 2),
               Number(<<Filter>>, 1), Normal(<<Filter>>),
               Number(<<Filter, Unknown, Filter>>, 1),
               Normal(<<Source(1), Filter, Filter, Filter>>),
               ToFile(<<Source(1), Filter>>),
               EmptyLine, ExitLine}

(* Lines whose output fits the pipe it waits in. *)
EndLines == {Number(<<Source(1)>>, 1), Number(<<Source(1)>>, 2), Number(<<Source(2), Filter>>, 1),
             Normal(<<Source(2), Filter>>), Normal(<<Filter>>), BuiltinLine}

(* Output larger than a pipe, into a number pipe that is read later. *)
LargeLines == {Number(<<Source(1)>>, 2), Number(<<Source(2)>>, 2), Normal(<<Filter>>)}
=============================================================================
