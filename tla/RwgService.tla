---------------------------- MODULE RwgService ----------------------------
(***************************************************************************)
(* What the remote working group server promises its users, without        *)
(* descriptors, tables indexed by ID, or a select loop: a session per      *)
(* client, the user pipes that wait for a session, and the texts each      *)
(* login and each command causes.  RwgServer implements it (ServiceSpec)   *)
(* for users who keep to Promised.                                         *)
(***************************************************************************)
EXTENDS RwgTypes, FiniteSetsExt

VARIABLES
  session,     \* a client's ID, nickname and environment while logged in
  pipes,       \* <<n, c>>: user #n has piped something to client c
  mail,        \* what the last login or command had written, to whom
  failures     \* how often the system has had no process for a command

vars == <<session, pipes, mail, failures>>

Absent == [id |-> 0]
Session == [id : UID, name : Names \cup {NoName},
            env : [EnvVars -> Values \cup {Unset}]]

TypeOK == /\ session \in [Clients -> Session \cup {Absent}]
          /\ pipes \subseteq UID \X Clients

Users     == {c \in Clients : session[c] # Absent}
Holder(n) == {c \in Users : session[c].id = n}
NameOf(n) == session[CHOOSE c \in Holder(n) : TRUE].name
Exists(n) == Holder(n) # {}
Unused    == {n \in UID : Holder(n) = {}}

Init ==
  session = [c \in Clients |-> Absent] /\ pipes = {} /\ mail = <<>> /\ failures = 0

Say(c, ms) == mail' = Append(ms, Prompt(c))

(* A new user gets the smallest unused ID and a fresh session; everybody,   *)
(* the user too, is told.                                                   *)
Login(c) ==
  /\ session[c] = Absent /\ Unused # {}
  /\ session' = [session EXCEPT ![c] =
                   [id |-> Min(Unused), name |-> NoName, env |-> InitialEnv]]
  /\ mail' = <<Msg("welcome", {c}, <<>>), Msg("entered", Users \cup {c}, <<c>>), Prompt(c)>>
  /\ UNCHANGED pipes

(* The others are told; what was piped to the user and not read is gone.    *)
Leave(c) ==
  /\ session' = [session EXCEPT ![c] = Absent]
  /\ pipes' = {p \in pipes : p[2] # c}
  /\ mail' = <<Msg("left", Users \ {c}, <<session[c].name>>)>>

Nothing(c) == Say(c, <<>>) /\ UNCHANGED <<session, pipes>>

Yell(c) ==
  /\ Say(c, <<Msg("yelled", Users, <<session[c].name>>)>>)
  /\ UNCHANGED <<session, pipes>>

Name(c, name) ==
  IF \E d \in Users : session[d].name = name
  THEN Say(c, <<Msg("name exists", {c}, <<name>>)>>) /\ UNCHANGED <<session, pipes>>
  ELSE /\ session' = [session EXCEPT ![c].name = name]
       /\ Say(c, <<Msg("named", Users, <<c, name>>)>>)
       /\ UNCHANGED pipes

Who(c) ==
  /\ Say(c, <<Msg("users", {c}, {<<session[d].id, session[d].name, d, d = c>> : d \in Users})>>)
  /\ UNCHANGED <<session, pipes>>

Tell(c, n) ==
  /\ Say(c, IF Exists(n) THEN <<Msg("told", Holder(n), <<session[c].name>>)>>
            ELSE <<Msg("no user", {c}, <<n>>)>>)
  /\ UNCHANGED <<session, pipes>>

Setenv(c, var, val) ==
  /\ session' = [session EXCEPT ![c].env[var] = val]
  /\ Say(c, <<>>)
  /\ UNCHANGED pipes

Printenv(c, var) ==
  /\ LET val == session[c].env[var] IN
     Say(c, IF val = Unset THEN <<>> ELSE <<Msg("value", {c}, <<var, val>>)>>)
  /\ UNCHANGED <<session, pipes>>

(* A pipeline takes what #in piped to the user, and what was announced as   *)
(* received is gone; then it leaves a new pipe to #out.  Where the new pipe *)
(* cannot be made, a single command has taken nothing yet, and the first of *)
(* several has.                                                             *)
InError(c, in) == IF in = None THEN "none"
                  ELSE IF ~Exists(in) THEN "no user"
                  ELSE IF <<in, c>> \notin pipes THEN "no pipe" ELSE "none"

After(c, in) == pipes \ {<<in, c>>}

Left(c, l) == IF l.stages = 1 THEN pipes ELSE After(c, l.in)

To(out) == CHOOSE d \in Holder(out) : TRUE

OutError(c, l) == IF l.out = None THEN "none"
                  ELSE IF ~Exists(l.out) THEN "no user"
                  ELSE IF <<session[c].id, To(l.out)>> \in Left(c, l)
                       THEN "pipe exists" ELSE "none"

Announce(c, kind, n) ==
  IF n = None THEN <<>>
  ELSE <<Msg(kind, Users, <<session[c].name, session[c].id, NameOf(n), n>>)>>

Refusal(c, l) == Msg(OutError(c, l), {c}, <<session[c].id, l.out>>)

Made(c, l) == IF l.out = None THEN {} ELSE {<<session[c].id, To(l.out)>>}

Pipeline(c, l) ==
  /\ UNCHANGED session
  /\ \/ /\ InError(c, l.in) # "none"
        /\ Say(c, <<Msg(InError(c, l.in), {c}, <<l.in, session[c].id>>)>>)
        /\ UNCHANGED pipes
     \/ /\ InError(c, l.in) = "none" /\ OutError(c, l) # "none"
        /\ pipes' = Left(c, l)
        /\ Say(c, Append(Announce(c, "received", l.in), Refusal(c, l)))
     \/ /\ InError(c, l.in) = "none" /\ OutError(c, l) = "none"
        /\ pipes' = After(c, l.in) \cup Made(c, l)
        /\ Say(c, Announce(c, "received", l.in) \o Announce(c, "piped", l.out))

(* The system has no process for one of the commands.  What is announced    *)
(* may be announced again, and the line may end in an error or without a    *)
(* prompt.  But what has been announced holds, and neither a session nor a  *)
(* pipe of anybody else is touched.                                         *)
OutOfProcesses(c, l) ==
  LET received == Range(Announce(c, "received", l.in))
      piped    == Range(Announce(c, "piped", l.out))
  IN
  /\ c \in Users /\ l.op = "run" /\ InError(c, l.in) = "none"
  /\ failures' > failures
  /\ UNCHANGED session
  /\ \/ /\ OutError(c, l) # "none"
        /\ pipes' = Left(c, l)
        /\ Range(mail') = received \cup {Refusal(c, l), Prompt(c)}
     \/ /\ OutError(c, l) = "none"
        /\ pipes' \in {Left(c, l) \cup Made(c, l), After(c, l.in) \cup Made(c, l)}
        /\ received \cup piped \subseteq Range(mail')
        /\ Range(mail') \subseteq received \cup piped \cup
             {Msg("pipe exists", {c}, <<session[c].id, l.out>>), Prompt(c)}

Command(c, l) ==
  /\ c \in Users
  /\ \/ l.op = "exit" /\ Leave(c)
     \/ l.op = "empty" /\ Nothing(c)
     \/ l.op = "yell" /\ Yell(c)
     \/ l.op = "name" /\ Name(c, l.name)
     \/ l.op = "who" /\ Who(c)
     \/ l.op = "tell" /\ Tell(c, l.to)
     \/ l.op = "setenv" /\ Setenv(c, l.var, l.val)
     \/ l.op = "printenv" /\ Printenv(c, l.var)
     \/ l.op = "run" /\ Pipeline(c, l)

(* A connection that breaks sends empty lines.                              *)
Next == \E c \in Clients :
  \/ (Login(c) \/ \E l \in Lines \cup {EmptyLine} : Command(c, l)) /\ UNCHANGED failures
  \/ \E l \in Lines : OutOfProcesses(c, l)

Spec == Init /\ [][Next]_vars
=============================================================================
