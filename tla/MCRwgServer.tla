---------------------------- MODULE MCRwgServer ----------------------------
(* The menus of command lines RwgServer is model-checked with. *)
EXTENDS RwgServer, TLC

MCNames == {"amy"}
MCVars  == {"PATH", "LANG"}
MCValues == {"bin:.", "zh"}

MCZero == {0}

(* An uninitialised max_fd below, among and above the descriptors in use. *)
MCGarbage == {-1, 5, 99}

Exits == {Bare("exit")}

ChatLines == Exits \cup {NameLine("amy"), GetLine("PATH"), RunLine(None, 1, 0, 1)}

(* Pipes to one another, through lines that fail half-way too. *)
PipeLines == Exits \cup {Bare("yell"), NameLine("amy"), RunLine(None, 1, 0, 1), RunLine(1, None, 0, 1),
                         RunLine(1, 2, 0, 2), RunLine(2, 1, 0, 1)}

(* A line of each kind but printenv and name, and lines refused              *)
(* for one user pipe while they hold another or a number pipe.               *)
ServiceLines == Exits \cup {Bare("who"), TellLine(1),
                            SetLine("PATH", "zh"), RunLine(None, 1, 0, 1),
                            RunLine(1, 1, 0, 1), RunLine(2, None, 2, 1),
                            RunLine(None, None, 1, 1)}

HangupLines == Exits \cup {Bare("yell"), RunLine(None, 1, 0, 1), RunLine(None, None, 1, 1)}

AnySymmetry == Permutations(Clients)
=============================================================================
