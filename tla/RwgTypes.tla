------------------------------ MODULE RwgTypes ------------------------------
(***************************************************************************)
(* The vocabulary shared by the remote working group server of             *)
(* src/Project2/np_single_proc.cpp (RwgServer) and by the service it       *)
(* offers (RwgService): clients, IDs, nicknames, environment variables,    *)
(* the command lines a user may send and the texts the server writes.      *)
(***************************************************************************)
EXTENDS Integers, FiniteSets, Sequences

CONSTANTS
  Clients,      \* TCP connections; each one connects at most once
  NoClient,     \* not a client
  MaxID,        \* the largest user ID: 30 in the code
  Names,        \* nicknames a user may ask for
  EnvVars,      \* environment variables, PATH among them
  Values,       \* values of environment variables
  MaxNum,       \* the largest N of a number pipe |N
  Lines         \* the command lines users send in a run

PATH == "PATH"
BinDot == "bin:."             \* the initial PATH
Unset == "unset"              \* the variable is not in the map
NoName == "(no name)"
None == -1                    \* no user pipe on this side of the line

ID  == 0 .. MaxID             \* indices of the per-user tables
UID == 1 .. MaxID             \* IDs the server gives to users

(***************************************************************************)
(* A command line, after split() and find_command_type(): the built-in it  *)
(* names, or a pipeline ("run") of one or two stages that may read user    *)
(* pipe <in in its first stage and end in user pipe >out or number pipe    *)
(* |num (0: none).                                                         *)
(***************************************************************************)
LineType ==
  [op : {"exit", "empty", "yell", "who"}]
    \cup [op : {"name"}, name : Names]
    \cup [op : {"tell"}, to : ID]
    \cup [op : {"setenv"}, var : EnvVars, val : Values]
    \cup [op : {"printenv"}, var : EnvVars]
    \cup [op : {"run"}, in : {None} \cup ID, out : {None} \cup UID,
          num : 0 .. MaxNum, stages : 1 .. 2]

Bare(op)          == [op |-> op]
NameLine(n)       == [op |-> "name", name |-> n]
TellLine(n)       == [op |-> "tell", to |-> n]
SetLine(v, x)     == [op |-> "setenv", var |-> v, val |-> x]
GetLine(v)        == [op |-> "printenv", var |-> v]
RunLine(in, out, num, stages) ==
  [op |-> "run", in |-> in, out |-> out, num |-> num, stages |-> stages]

NoLine    == Bare("none")     \* nothing to read from this client
EmptyLine == Bare("empty")    \* what an end of file is taken for

(* The environment of a new user: PATH alone. *)
InitialEnv == [v \in EnvVars |-> IF v = PATH THEN BinDot ELSE Unset]

(* A text written to a set of clients; about is what its wording depends on. *)
Msg(kind, to, about) == [msg |-> kind, to |-> to, about |-> about]
Prompt(c) == Msg("prompt", {c}, <<>>)

ASSUME IDAssumption   == MaxID \in Nat \ {0} /\ MaxNum \in Nat
ASSUME ClientAssumption == NoClient \notin Clients
ASSUME NameAssumption == NoName \notin Names
ASSUME EnvAssumption  == PATH \in EnvVars /\ BinDot \in Values /\ Unset \notin Values
ASSUME LineAssumption == Lines \subseteq LineType
=============================================================================
