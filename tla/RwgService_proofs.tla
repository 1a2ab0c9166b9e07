------------------------- MODULE RwgService_proofs -------------------------
(***************************************************************************)
(* RwgServer implements RwgService: while no more clients are connected    *)
(* than there are IDs and their lines are those of Promised, every step of *)
(* the server, seen through the tables as sessions and waiting pipes, is a *)
(* login or a command of the service, one for which it lacked a process,   *)
(* or changes nothing.                                                     *)
(***************************************************************************)
EXTENDS RwgServer_proofs

(* #0 is in the tables and nobody's: it has no name.                        *)
ZeroNameless == vecUserNames[0] = NoName

(* Every session has a PATH, so that setenv always finds it in the map.     *)
PathKnown == \A n \in ID : env_map[n][PATH] # Unset

LinesWait == \A c \in Clients : inbox[c] \in Lines \cup {NoLine}

ServiceInv ==
  /\ Promised /\ SessionInv /\ ZeroNameless /\ PathKnown /\ LinesWait
  /\ failures \in 0 .. ForkFailures

LEMMA IDsApart == /\ 0 \in ID /\ 0 \notin UID /\ \A n \in UID : n \in ID
                  /\ \A n \in ID : n \in UID \/ n = 0
BY IDAssumption DEF ID, UID

LEMMA ZeroStep ==
  ASSUME SessionInv, ZeroNameless, [Next]_vars
  PROVE  ZeroNameless'
<1> USE DEF SessionInv, SlotsInv
<1>1. vecUserNames \in [ID -> Names \cup {NoName}]
  BY DEF TablesInv, TablesType, UsersType
<1>2. CASE UNCHANGED vecUserNames
  BY <1>2 DEF ZeroNameless
<1>3. CASE Exit \/ Name
  <2>1. PICK name : vecUserNames' = [vecUserNames EXCEPT ![user_id] = name]
    BY <1>3 DEF Exit, UserLeaves, Name
  <2>2. user_id # 0
    BY <1>3, ServingHolder, IDsApart DEF Exit, Name
  <2> QED BY <1>1, <2>1, <2>2, IDsApart DEF ZeroNameless
<1>4. CASE Pipeline
  BY <1>2, <1>4, PipelineFrame
<1>5. CASE Accept \/ Select \/ ScanSkip \/ ScanEnd \/ Client \/ UNCHANGED vars
  BY <1>2, <1>5 DEF Accept, Select, ScanSkip, ScanEnd, Client, Connect, HangUp, Type, server,
                    vars, users
<1>6. CASE Empty \/ Yell \/ NameRefused \/ Who \/ Tell \/ TellNobody \/ Setenv \/ Printenv
  BY <1>2, <1>6 DEF Empty, Yell, NameRefused, Who, Tell, TellNobody, Setenv, Printenv
<1> QED BY <1>3, <1>4, <1>5, <1>6 DEF Next, Server, Builtin

LEMMA PathStep ==
  ASSUME TablesInv, PathKnown, [Next]_vars
  PROVE  PathKnown'
<1>1. /\ env_map \in [ID -> [EnvVars -> Values \cup {Unset}]]
      /\ PATH \in EnvVars /\ BinDot # Unset /\ Unset \notin Values
  BY EnvAssumption DEF TablesInv, TablesType, SessionType
<1>2. CASE UNCHANGED env_map
  BY <1>2 DEF PathKnown
<1>3. CASE Exit
  <2>1. env_map' = [env_map EXCEPT ![user_id] = InitialEnv]
    BY <1>3 DEF Exit, SessionEnds
  <2>2. InitialEnv[PATH] # Unset
    BY <1>1 DEF InitialEnv
  <2> QED BY <1>1, <2>1, <2>2 DEF PathKnown
<1>4. CASE Setenv
  <2>1. /\ Handling("setenv")
        /\ env_map' = [env_map EXCEPT ![user_id] = SetIn(@, Received.var, Received.val)]
    BY <1>4 DEF Setenv
  <2>2. user_id \in ID /\ Received.var \in EnvVars /\ Received.val \in Values
    BY <2>1, ServingFacts, LineFields DEF TablesInv
  <2>3. SetIn(env_map[user_id], Received.var, Received.val)[PATH] # Unset
    BY <1>1, <2>2 DEF SetIn, PathKnown
  <2> QED BY <1>1, <2>1, <2>2, <2>3 DEF PathKnown
<1>5. CASE Pipeline
  BY <1>2, <1>5, PipelineFrame
<1>6. CASE Accept \/ Select \/ ScanSkip \/ ScanEnd \/ Client \/ UNCHANGED vars
  BY <1>2, <1>6 DEF Accept, Select, ScanSkip, ScanEnd, Client, Connect, HangUp, Type, server,
                    vars, session
<1>7. CASE Empty \/ Yell \/ NameRefused \/ Name \/ Who \/ Tell \/ TellNobody \/ Printenv
  BY <1>2, <1>7 DEF Empty, Yell, NameRefused, Name, Who, Tell, TellNobody, Printenv, session
<1> QED BY <1>3, <1>4, <1>5, <1>6, <1>7 DEF Next, Server, Builtin

LEMMA LinesStep ==
  ASSUME TablesInv, LinesWait, [Next]_vars
  PROVE  LinesWait'
<1>1. inbox \in [Clients -> LineType \cup {NoLine}]
  BY DEF TablesInv, TablesType, NetType
<1>2. CASE inbox' = inbox
  BY <1>2 DEF LinesWait
<1>3. CASE Builtin \/ Pipeline
  <2>1. inbox' = [inbox EXCEPT ![me] = NoLine]
    BY <1>3, ShellReplies DEF Exit, Answered, Handled, Next_i
  <2> QED BY <1>1, <2>1 DEF LinesWait
<1>4. CASE Client
  BY <1>1, <1>4 DEF Client, Connect, HangUp, Type, LinesWait
<1>5. CASE Accept \/ Select \/ ScanSkip \/ ScanEnd \/ UNCHANGED vars
  BY <1>2, <1>5 DEF Accept, Select, ScanSkip, ScanEnd, net, vars
<1> QED BY <1>3, <1>4, <1>5 DEF Next, Server

LEMMA NextService == MaxOnline <= MaxID /\ ServiceInv /\ [Next]_vars => ServiceInv'
<1> SUFFICES ASSUME MaxOnline <= MaxID, ServiceInv, [Next]_vars PROVE ServiceInv'
  OBVIOUS
<1>1. SessionInv' /\ ZeroNameless' /\ PathKnown' /\ LinesWait'
  BY NextSession, ZeroStep, PathStep, LinesStep DEF ServiceInv, SessionInv
<1>2. failures' \in 0 .. ForkFailures
  BY CountedFailures DEF ServiceInv, SessionInv
<1>3. Promised'
  BY DEF ServiceInv, Promised
<1> QED BY <1>1, <1>2, <1>3 DEF ServiceInv

LEMMA InitService == Promised /\ Init => ServiceInv
<1> SUFFICES ASSUME Promised, Init PROVE ServiceInv
  OBVIOUS
<1>1. ZeroNameless
  BY IDsApart DEF Init, ZeroNameless
<1>2. PathKnown
  BY EnvAssumption DEF Init, PathKnown, InitialEnv
<1>3. LinesWait /\ failures \in 0 .. ForkFailures
  BY FdAssumption DEF Init, LinesWait
<1> QED BY <1>1, <1>2, <1>3, InitSession DEF ServiceInv

-----------------------------------------------------------------------------
(* The service and the server speak of the same things.                     *)
LEMMA SameWords ==
  /\ Service!UID = UID /\ Service!ID = ID /\ Service!EmptyLine = EmptyLine
  /\ Service!None = None /\ Service!NoName = NoName /\ Service!Unset = Unset
  /\ Service!InitialEnv = InitialEnv
  /\ \A c : Service!Prompt(c) = Prompt(c)
  /\ \A kind, to, about : Service!Msg(kind, to, about) = Msg(kind, to, about)
  /\ \A S : Service!Min(S) = Min(S)
  /\ \A f : Service!Range(f) = Range(f)
BY DEF Service!UID, UID, Service!ID, ID, Service!EmptyLine, EmptyLine, Service!Bare, Bare,
       Service!None, None, Service!NoName, NoName, Service!Unset, Unset,
       Service!InitialEnv, InitialEnv, Service!PATH, PATH, Service!BinDot, BinDot,
       Service!Prompt, Prompt, Service!Msg, Msg, Service!Min, Min, Service!Range, Range

-----------------------------------------------------------------------------
(* The tables seen as sessions. *)

SessionAt(fd) == [id |-> mapUser[fd].ID, name |-> mapUser[fd].nickname,
                  env |-> env_map[mapUser[fd].ID]]

LEMMA SessionsFacts ==
  TablesInv => /\ Sessions = [c \in Clients |-> Sessions[c]]
               /\ \A fd \in LoggedIn : Sessions[conn[fd]] = SessionAt(fd)
               /\ \A c \in Clients \ Online : Sessions[c] = [id |-> 0]
<1> SUFFICES ASSUME TablesInv
             PROVE  /\ \A fd \in LoggedIn : Sessions[conn[fd]] = SessionAt(fd)
                    /\ \A c \in Clients \ Online : Sessions[c] = [id |-> 0]
  BY DEF Sessions
<1>1. ASSUME NEW fd \in LoggedIn PROVE Sessions[conn[fd]] = SessionAt(fd)
  <2> DEFINE c == conn[fd]
  <2>1. fd \in Fds /\ c \in Clients /\ c \in Online
    BY LoggedInFacts DEF TablesInv, FdsAgree
  <2>2. ASSUME NEW gd \in Fds, conn[gd] = c PROVE gd = fd
    <3>1. mapUser[gd].addr \in Clients
      BY <2>1, <2>2 DEF TablesInv, FdsAgree
    <3>2. gd \in LoggedIn
      BY <3>1, ClientAssumption DEF LoggedIn, NoUser
    <3> QED BY <2>2, <3>2 DEF TablesInv, FdsAgree
  <2>3. (CHOOSE f \in Fds : conn[f] = c) = fd
    BY <2>1, <2>2
  <2>4. SessionOf(c) = SessionAt(fd)
    BY <2>1, <2>3 DEF SessionOf, SessionAt
  <2> QED BY <2>1, <2>4 DEF Sessions
<1>2. ASSUME NEW c \in Clients \ Online PROVE Sessions[c] = [id |-> 0]
  BY DEF Sessions, SessionOf
<1> QED BY <1>1, <1>2

(* ... and the service's view of them: who is in, who holds an ID, which    *)
(* IDs are free.                                                            *)
LEMMA UsersFacts ==
  ServiceInv => /\ Service!Users = Online
                /\ \A n \in UID : Service!Holder(n) = IF user_list[n] THEN {conn[fd_table[n]]}
                                                      ELSE {}
                /\ \A n \in UID : Service!Exists(n) <=> user_list[n]
                /\ Service!Unused = Free
<1> SUFFICES ASSUME ServiceInv
             PROVE  /\ Service!Users = Online
                    /\ \A n \in UID : Service!Holder(n) = IF user_list[n]
                                          THEN {conn[fd_table[n]]} ELSE {}
                    /\ \A n \in UID : Service!Exists(n) <=> user_list[n]
                    /\ Service!Unused = Free
  OBVIOUS
<1> USE DEF ServiceInv, SessionInv, SlotsInv
<1>1. /\ \A fd \in LoggedIn : Sessions[conn[fd]] = SessionAt(fd)
      /\ \A c \in Clients \ Online : Sessions[c] = [id |-> 0]
  BY SessionsFacts
<1>2. /\ Online = {conn[fd] : fd \in LoggedIn} /\ Online \subseteq Clients
      /\ \A fd, gd \in LoggedIn : conn[fd] = conn[gd] => fd = gd
  BY DEF TablesInv, FdsAgree, Online
<1>3. \A fd \in LoggedIn : /\ SessionAt(fd).id = mapUser[fd].ID
                           /\ mapUser[fd].ID \in UID /\ SessionAt(fd) # [id |-> 0]
  <2> TAKE fd \in LoggedIn
  <2>1. SessionAt(fd).id = mapUser[fd].ID /\ mapUser[fd].ID \in UID
    BY HolderFacts DEF SessionAt
  <2> QED BY <2>1, IDsApart
<1>4. Service!Users = Online
  BY <1>1, <1>2, <1>3 DEF Service!Users, Service!Absent
<1>5. ASSUME NEW n \in UID, user_list[n] PROVE Service!Holder(n) = {conn[fd_table[n]]}
  <2> DEFINE fd == fd_table[n]
  <2>1. fd \in LoggedIn /\ mapUser[fd].ID = n
    BY <1>5 DEF TablesInv, SlotsAgree
  <2>2. \A gd \in LoggedIn : mapUser[gd].ID = n => gd = fd
    BY <2>1, HolderFacts
  <2> HIDE DEF fd
  <2>3. \A c \in Online : Sessions[c].id = n <=> c = conn[fd]
    BY <1>1, <1>2, <1>3, <2>1, <2>2
  <2>4. conn[fd] \in Online
    BY <1>2, <2>1
  <2> QED BY <1>4, <2>3, <2>4 DEF Service!Holder, fd
<1>6. ASSUME NEW n \in ID, n \in UID => ~user_list[n] PROVE Service!Holder(n) = {}
  <2>1. \A gd \in LoggedIn : mapUser[gd].ID # n
    BY <1>3, <1>6, HolderFacts
  <2>2. \A c \in Online : Sessions[c].id # n
    BY <1>1, <1>2, <1>3, <2>1
  <2> QED BY <1>4, <2>2 DEF Service!Holder
<1>8. \A n \in UID : Service!Holder(n) = IF user_list[n] THEN {conn[fd_table[n]]} ELSE {}
  BY <1>5, <1>6, IDsApart
<1>9. \A n \in UID : Service!Exists(n) <=> user_list[n]
  BY <1>8 DEF Service!Exists
<1>10. Service!Unused = Free
  BY <1>8, SameWords DEF Service!Unused, Free
<1> QED BY <1>4, <1>8, <1>9, <1>10

(* An ID in use, seen from the service.                                     *)
LEMMA InUseFacts ==
  ASSUME ServiceInv, NEW n \in UID, user_list[n]
  PROVE  /\ fd_table[n] \in LoggedIn /\ conn[fd_table[n]] \in Online
         /\ Service!Holder(n) = {conn[fd_table[n]]} /\ Service!To(n) = conn[fd_table[n]]
         /\ Service!NameOf(n) = mapUser[fd_table[n]].nickname
         /\ mapUser[fd_table[n]].ID = n
<1>1. fd_table[n] \in LoggedIn /\ mapUser[fd_table[n]].ID = n
  BY DEF ServiceInv, SessionInv, TablesInv, SlotsAgree
<1>2. Service!Holder(n) = {conn[fd_table[n]]}
  BY UsersFacts
<1>3. (CHOOSE c \in Service!Holder(n) : TRUE) = conn[fd_table[n]]
  BY <1>2
<1>4. Sessions[conn[fd_table[n]]].name = mapUser[fd_table[n]].nickname
  <2>1. Sessions[conn[fd_table[n]]] = SessionAt(fd_table[n])
    BY <1>1, SessionsFacts DEF ServiceInv, SessionInv
  <2> QED BY <2>1 DEF SessionAt
<1>5. conn[fd_table[n]] \in Online
  BY <1>1 DEF ServiceInv, SessionInv, TablesInv, FdsAgree
<1> QED BY <1>1, <1>2, <1>3, <1>4, <1>5 DEF Service!To, Service!NameOf

(* The user pipes of a table, seen from the service.                        *)
LEMMA PipesFacts ==
  ASSUME ServiceInv, NEW table, \A s, r \in UID : table[s][r] => user_list[r],
         NEW s, NEW r \in UID, user_list[r]
  PROVE  <<s, conn[fd_table[r]]>> \in PipesOf(table) <=> s \in UID /\ table[s][r]
<1>1. ASSUME NEW q \in UID, user_list[q], conn[fd_table[q]] = conn[fd_table[r]] PROVE q = r
  <2>1. /\ fd_table[q] \in LoggedIn /\ fd_table[r] \in LoggedIn
        /\ mapUser[fd_table[q]].ID = q /\ mapUser[fd_table[r]].ID = r
    BY <1>1, InUseFacts
  <2> QED BY <1>1, <2>1 DEF ServiceInv, SessionInv, TablesInv, FdsAgree
<1>2. <<s, conn[fd_table[r]]>> \in PipesOf(table) => s \in UID /\ table[s][r]
  <2> SUFFICES ASSUME NEW t \in UID, NEW q \in UID, table[t][q],
                      <<s, conn[fd_table[r]]>> = <<t, conn[fd_table[q]]>>
               PROVE  s \in UID /\ table[s][r]
    BY DEF PipesOf
  <2> QED BY <1>1
<1>3. s \in UID /\ table[s][r] => <<s, conn[fd_table[r]]>> \in PipesOf(table)
  <2> SUFFICES ASSUME s \in UID, table[s][r] PROVE <<s, conn[fd_table[r]]>> \in PipesOf(table)
    OBVIOUS
  <2> DEFINE p == <<s, r>>
  <2>1. p \in UID \X UID /\ p[1] = s /\ p[2] = r
    OBVIOUS
  <2>2. p \in {q \in UID \X UID : table[q[1]][q[2]]}
    BY <2>1
  <2> QED BY <2>1, <2>2 DEF PipesOf
<1> QED BY <1>2, <1>3

(* Every waiting pipe is such a pair.                                       *)
LEMMA PipesShape ==
  ASSUME NEW table, NEW p \in PipesOf(table)
  PROVE  \E s, r \in UID : table[s][r] /\ p = <<s, conn[fd_table[r]]>>
BY DEF PipesOf

-----------------------------------------------------------------------------
(* What every command of the service starts from. *)

LEMMA CommandFacts ==
  ASSUME ServiceInv, NEW op, Handling(op)
  PROVE  /\ me \in Clients /\ me \in Service!Users /\ me \in Online
         /\ Received \in Lines \cup {EmptyLine} /\ Received.op = op
         /\ Received \in LineType
         /\ Sessions[me] = SessionAt(sender_fd)
         /\ Sessions[me] = [id |-> user_id, name |-> nickname, env |-> env_map[user_id]]
         /\ user_id \in UID /\ user_id \in ID /\ user_list[user_id]
         /\ fd_table[user_id] = sender_fd /\ sender_fd \in LoggedIn
<1> USE DEF ServiceInv, SessionInv, SlotsInv
<1>1. /\ sender_fd \in LoggedIn /\ me \in Clients /\ cli[me] \in Connected
      /\ Received \in LineType /\ Received.op = op
  BY ServingFacts DEF TablesInv
<1>2. me \in Online
  BY <1>1 DEF Online, Connected
<1>3. Received \in Lines \cup {EmptyLine}
  BY <1>1 DEF Received, LinesWait
<1>4. Sessions[me] = SessionAt(sender_fd)
  BY <1>1, SessionsFacts DEF me
<1>5. SessionAt(sender_fd) = [id |-> user_id, name |-> nickname, env |-> env_map[user_id]]
  BY DEF SessionAt, user_id, nickname
<1> QED BY <1>1, <1>2, <1>3, <1>4, <1>5, UsersFacts, ServingHolder

(* A handler that touches neither users nor environments nor user pipes     *)
(* changes nothing the service sees.                                        *)
LEMMA QuietView ==
  ASSUME Online' = Online, UNCHANGED <<conn, mapUser, env_map>>
  PROVE  Sessions' = Sessions
BY DEF Sessions, SessionOf

LEMMA ReplyMail ==
  ASSUME NEW ms, Reply(ms)
  PROVE  Service!Say(me, ms)
BY SameWords DEF Reply, Send, Deliver, Service!Say

LEMMA CommandStep ==
  ASSUME ServiceInv, NEW op, Handling(op), Service!Command(me, Received), UNCHANGED failures
  PROVE  Service!Next
BY CommandFacts, SameWords DEF Service!Next

-----------------------------------------------------------------------------
(* Handlers that talk and change nothing but their own user's entries.      *)

LEMMA TalkView ==
  ASSUME ServiceInv, NEW op, Handling(op), NEW ms, Reply(ms),
         UNCHANGED <<mapUser, user_list, fd_table, env_map, upipes>>
  PROVE  /\ Sessions' = Sessions
         /\ PipesOf(user_pipe_bool)' = PipesOf(user_pipe_bool)
         /\ Service!Say(me, ms)
<1>1. Online' = Online /\ conn' = conn
  BY Answers, ReplyFacts DEF ServiceInv, SessionInv
<1>2. Sessions' = Sessions
  BY <1>1, QuietView
<1>3. PipesOf(user_pipe_bool)' = PipesOf(user_pipe_bool)
  BY <1>1 DEF PipesOf, upipes
<1> QED BY <1>2, <1>3, ReplyMail

LEMMA EmptyService == ServiceInv /\ Empty /\ UNCHANGED failures => Service!Next
<1> SUFFICES ASSUME ServiceInv, Empty, UNCHANGED failures PROVE Service!Next
  OBVIOUS
<1>1. /\ Handling("empty") /\ Reply(<<>>)
      /\ UNCHANGED <<mapUser, user_list, fd_table, env_map, upipes>>
  BY DEF Empty, session
<1>2. Service!Nothing(me)
  BY <1>1, TalkView DEF Service!Nothing
<1> QED BY <1>1, <1>2, CommandFacts, CommandStep DEF Service!Command

LEMMA YellService == ServiceInv /\ Yell /\ UNCHANGED failures => Service!Next
<1> SUFFICES ASSUME ServiceInv, Yell, UNCHANGED failures PROVE Service!Next
  OBVIOUS
<1>1. /\ Handling("yell") /\ Reply(<<Msg("yelled", Everyone, <<nickname>>)>>)
      /\ UNCHANGED <<mapUser, user_list, fd_table, env_map, upipes>>
  BY DEF Yell, session
<1>2. Everyone = Service!Users /\ Sessions[me].name = nickname
  <2>1. Everyone = Online
    BY EveryoneFacts DEF ServiceInv, SessionInv
  <2>2. Sessions[me] = [id |-> user_id, name |-> nickname, env |-> env_map[user_id]]
    BY <1>1, CommandFacts
  <2> QED BY <2>1, <2>2, UsersFacts
<1>3. Service!Yell(me)
  BY <1>1, <1>2, TalkView, SameWords DEF Service!Yell
<1> QED BY <1>1, <1>3, CommandFacts, CommandStep DEF Service!Command

LEMMA WhoService == ServiceInv /\ Who /\ UNCHANGED failures => Service!Next
<1> SUFFICES ASSUME ServiceInv, Who, UNCHANGED failures PROVE Service!Next
  OBVIOUS
<1> USE DEF ServiceInv, SessionInv, SlotsInv
<1>1. /\ Handling("who") /\ Reply(<<Msg("users", {me}, WhoTable)>>)
      /\ UNCHANGED <<mapUser, user_list, fd_table, env_map, upipes>>
  BY DEF Who, session
<1> DEFINE Row(fd) == <<mapUser[fd].ID, mapUser[fd].nickname, conn[fd], fd = sender_fd>>
           Line(d) == <<Sessions[d].id, Sessions[d].name, d, d = me>>
<1>2. WhoTable = {Row(fd) : fd \in LoggedIn}
  <2> DEFINE WhoRow(n) == <<n, mapUser[fd_table[n]].nickname, mapUser[fd_table[n]].addr,
                            fd_table[n] = sender_fd>>
             used == {m \in UID : fd_table[m] # -1}
  <2>1. \A n \in used : fd_table[n] \in LoggedIn /\ WhoRow(n) = Row(fd_table[n])
    <3> TAKE n \in used
    <3>1. /\ fd_table[n] \in LoggedIn /\ mapUser[fd_table[n]].ID = n
          /\ fd_table[n] \in Fds
      BY DEF TablesInv, SlotsAgree, LoggedIn
    <3>2. mapUser[fd_table[n]].addr = conn[fd_table[n]]
      BY <3>1 DEF TablesInv, FdsAgree
    <3> QED BY <3>1, <3>2
  <2>2. \A fd \in LoggedIn : mapUser[fd].ID \in used /\ fd_table[mapUser[fd].ID] = fd
    BY HolderFacts, FdAssumption DEF TablesInv, SlotsAgree
  <2> HIDE DEF WhoRow, Row, used
  <2>3. {WhoRow(n) : n \in used} = {Row(fd) : fd \in LoggedIn}
    BY <2>1, <2>2
  <2> QED BY <2>3 DEF WhoTable, WhoRow, used
<1>3. {Row(fd) : fd \in LoggedIn} = {Line(d) : d \in Service!Users}
  <2>1. \A fd \in LoggedIn : conn[fd] \in Service!Users /\ Line(conn[fd]) = Row(fd)
    <3> TAKE fd \in LoggedIn
    <3>1. Sessions[conn[fd]].id = mapUser[fd].ID /\ Sessions[conn[fd]].name = mapUser[fd].nickname
      <4>1. Sessions[conn[fd]] = SessionAt(fd)
        BY SessionsFacts
      <4> QED BY <4>1 DEF SessionAt
    <3>2. conn[fd] = me <=> fd = sender_fd
      BY <1>1, ServingFacts DEF TablesInv, FdsAgree, me
    <3>3. conn[fd] \in Service!Users
      BY UsersFacts DEF TablesInv, FdsAgree
    <3> QED BY <3>1, <3>2, <3>3
  <2>2. \A d \in Service!Users : \E fd \in LoggedIn : d = conn[fd]
    BY UsersFacts DEF TablesInv, FdsAgree
  <2> HIDE DEF Line, Row
  <2> QED BY <2>1, <2>2
<1>4. Reply(<<Msg("users", {me}, {Line(d) : d \in Service!Users})>>)
  BY <1>1, <1>2, <1>3
<1>5. Service!Who(me)
  BY <1>1, <1>4, TalkView, SameWords DEF Service!Who
<1> QED BY <1>1, <1>5, CommandFacts, CommandStep DEF Service!Command

LEMMA TellService == ServiceInv /\ (Tell \/ TellNobody) /\ UNCHANGED failures => Service!Next
<1> SUFFICES ASSUME ServiceInv, Tell \/ TellNobody, UNCHANGED failures PROVE Service!Next
  OBVIOUS
<1> DEFINE n == Received.to
           ms == IF user_list[n] THEN <<Msg("told", At({fd_table[n]}), <<nickname>>)>>
                                 ELSE <<Msg("no user", {me}, <<n>>)>>
<1>1. /\ Handling("tell") /\ Reply(ms)
      /\ UNCHANGED <<mapUser, user_list, fd_table, env_map, upipes>>
  BY DEF Tell, TellNobody, session
<1>2. n \in UID
  <2>1. Received \in LineType /\ Received.op = "tell" /\ Received \in Lines \cup {EmptyLine}
    BY <1>1, CommandFacts
  <2>2. n \in ID
    BY <2>1, LineFields
  <2>3. Received \in Lines
    BY <2>1 DEF EmptyLine, Bare
  <2> QED BY <2>1, <2>2, <2>3, IDsApart DEF ServiceInv, Promised
<1>3. user_list[n] => At({fd_table[n]}) = Service!Holder(n)
  <2> SUFFICES ASSUME user_list[n] PROVE At({fd_table[n]}) = Service!Holder(n)
    OBVIOUS
  <2>1. /\ fd_table[n] \in LoggedIn /\ Service!Holder(n) = {conn[fd_table[n]]}
    BY <1>2, InUseFacts
  <2>2. fd_table[n] \in Fds /\ conn[fd_table[n]] \in Clients
    BY <2>1, LoggedInFacts DEF ServiceInv, SessionInv, TablesInv
  <2> HIDE DEF n
  <2> QED BY <2>1, <2>2 DEF At
<1>4. Service!Exists(n) <=> user_list[n]
  BY <1>2, UsersFacts
<1>5. Sessions[me].name = nickname
  <2>1. Sessions[me] = [id |-> user_id, name |-> nickname, env |-> env_map[user_id]]
    BY <1>1, CommandFacts
  <2> QED BY <2>1
<1> HIDE DEF n
<1>6. Service!Tell(me, n)
  <2>1. ms = IF Service!Exists(n) THEN <<Msg("told", Service!Holder(n), <<Sessions[me].name>>)>>
             ELSE <<Msg("no user", {me}, <<n>>)>>
    BY <1>3, <1>4, <1>5
  <2> QED BY <1>1, <2>1, TalkView, SameWords DEF Service!Tell
<1> QED BY <1>1, <1>6, CommandFacts, CommandStep DEF Service!Command, n

LEMMA PrintenvService == ServiceInv /\ Printenv /\ UNCHANGED failures => Service!Next
<1> SUFFICES ASSUME ServiceInv, Printenv, UNCHANGED failures PROVE Service!Next
  OBVIOUS
<1> DEFINE val == env_map[user_id][Received.var]
           ms  == IF val = Unset THEN <<>> ELSE <<Msg("value", {me}, <<Received.var, val>>)>>
<1>1. /\ Handling("printenv") /\ Reply(ms)
      /\ UNCHANGED <<mapUser, user_list, fd_table, env_map, upipes>>
  BY DEF Printenv, session
<1>2. Sessions[me].env = env_map[user_id]
  <2>1. Sessions[me] = [id |-> user_id, name |-> nickname, env |-> env_map[user_id]]
    BY <1>1, CommandFacts
  <2> QED BY <2>1
<1>3. Service!Printenv(me, Received.var)
  BY <1>1, <1>2, TalkView, SameWords DEF Service!Printenv
<1> QED BY <1>1, <1>3, CommandFacts, CommandStep DEF Service!Command

LEMMA SessionsNext ==
  TablesInv' => /\ Sessions' = [c \in Clients |-> Sessions'[c]]
                /\ \A fd \in LoggedIn' : Sessions'[conn'[fd]] = SessionAt(fd)'
                /\ \A c \in Clients \ Online' : Sessions'[c] = [id |-> 0]
<1>1. (TablesInv => /\ Sessions = [c \in Clients |-> Sessions[c]]
                    /\ \A fd \in LoggedIn : Sessions[conn[fd]] = SessionAt(fd)
                    /\ \A c \in Clients \ Online : Sessions[c] = [id |-> 0])'
  BY SessionsFacts, PTL
<1> QED BY <1>1

(* The entries of one user change and nobody enters or leaves: so does his  *)
(* session, and no other.                                                   *)
LEMMA OneSession ==
  ASSUME ServiceInv, TablesInv', NEW op, Handling(op), NEW new,
         Online' = Online, LoggedIn' = LoggedIn, conn' = conn,
         NEW own, own = sender_fd, SessionAt(own)' = new,
         \A fd \in LoggedIn \ {own} : SessionAt(fd)' = SessionAt(fd)
  PROVE  Sessions' = [Sessions EXCEPT ![me] = new]
<1>1. me \in Clients /\ own \in LoggedIn
  BY CommandFacts
<1>2. Sessions = [c \in Clients |-> Sessions[c]] /\ Sessions' = [c \in Clients |-> Sessions'[c]]
  BY SessionsFacts, SessionsNext DEF ServiceInv, SessionInv
<1> SUFFICES ASSUME NEW c \in Clients PROVE Sessions'[c] = IF c = me THEN new ELSE Sessions[c]
  BY <1>1, <1>2
<1>3. CASE c \notin Online
  <2>1. me \in Online
    BY CommandFacts
  <2> QED BY <1>3, <2>1, SessionsFacts, SessionsNext DEF ServiceInv, SessionInv
<1>4. CASE c \in Online
  <2>1. PICK fd \in LoggedIn : c = conn[fd]
    BY <1>4 DEF ServiceInv, SessionInv, TablesInv, FdsAgree
  <2>2. c = me <=> fd = own
    BY <1>1, <2>1 DEF ServiceInv, SessionInv, TablesInv, FdsAgree, me
  <2>3. Sessions[c] = SessionAt(fd) /\ Sessions'[c] = SessionAt(fd)'
    BY <2>1, SessionsFacts, SessionsNext DEF ServiceInv, SessionInv
  <2>4. CASE fd = own
    BY <1>1, <2>2, <2>3, <2>4
  <2>5. CASE fd # own
    BY <2>2, <2>3, <2>5
  <2> QED BY <2>4, <2>5
<1> QED BY <1>3, <1>4

(* A name is in use where the table of names says so.                       *)
LEMMA NamesSeen ==
  ASSUME ServiceInv, NEW name \in Names
  PROVE  NameExists(name) <=> \E d \in Service!Users : Sessions[d].name = name
<1> USE DEF ServiceInv, SessionInv, SlotsInv
<1>1. \A fd \in LoggedIn : /\ conn[fd] \in Service!Users
                           /\ Sessions[conn[fd]].name = mapUser[fd].nickname
  <2> TAKE fd \in LoggedIn
  <2>1. Sessions[conn[fd]] = SessionAt(fd)
    BY SessionsFacts
  <2>2. Sessions[conn[fd]].name = mapUser[fd].nickname
    BY <2>1 DEF SessionAt
  <2> QED BY <2>2, UsersFacts DEF TablesInv, FdsAgree
<1>2. ASSUME NEW m \in ID, vecUserNames[m] = name
      PROVE  \E d \in Service!Users : Sessions[d].name = name
  <2>1. name # NoName
    BY NameAssumption
  <2>2. m \in UID /\ user_list[m]
    BY <1>2, <2>1, IDsApart DEF SlotsClean, ZeroNameless
  <2>3. fd_table[m] \in LoggedIn /\ mapUser[fd_table[m]].ID = m
    BY <2>2 DEF TablesInv, SlotsAgree
  <2>4. mapUser[fd_table[m]].nickname = name
    BY <1>2, <2>3 DEF NamesDistinct
  <2> QED BY <1>1, <2>3, <2>4
<1>3. ASSUME NEW d \in Service!Users, Sessions[d].name = name PROVE NameExists(name)
  <2>1. PICK fd \in LoggedIn : d = conn[fd]
    BY UsersFacts DEF TablesInv, FdsAgree
  <2>2. mapUser[fd].nickname = name /\ mapUser[fd].ID \in ID
    BY <1>1, <1>3, <2>1, HolderFacts
  <2> QED BY <2>2 DEF NamesDistinct, NameExists
<1> QED BY <1>2, <1>3 DEF NameExists

LEMMA NameRefusedService == ServiceInv /\ NameRefused /\ UNCHANGED failures => Service!Next
<1> SUFFICES ASSUME ServiceInv, NameRefused, UNCHANGED failures PROVE Service!Next
  OBVIOUS
<1>1. /\ Handling("name") /\ NameExists(Received.name)
      /\ Reply(<<Msg("name exists", {me}, <<Received.name>>)>>)
      /\ UNCHANGED <<mapUser, user_list, fd_table, env_map, upipes>>
  BY DEF NameRefused, session
<1>2. Received.name \in Names
  BY <1>1, CommandFacts, LineFields
<1>3. Service!Name(me, Received.name)
  BY <1>1, <1>2, NamesSeen, TalkView, SameWords DEF Service!Name
<1> QED BY <1>1, <1>3, CommandFacts, CommandStep DEF Service!Command

LEMMA NameService == ServiceInv /\ Name /\ UNCHANGED failures => Service!Next
<1> SUFFICES ASSUME ServiceInv, Name, UNCHANGED failures PROVE Service!Next
  OBVIOUS
<1> USE DEF ServiceInv, SessionInv
<1> DEFINE name == Received.name
<1> PICK fd : fd = sender_fd
  OBVIOUS
<1>1. /\ Handling("name") /\ ~NameExists(name)
      /\ Reply(<<Msg("named", Everyone, <<me, name>>)>>)
      /\ mapUser' = [mapUser EXCEPT ![fd].nickname = name]
      /\ UNCHANGED <<user_list, fd_table, session, upipes>>
  BY DEF Name
<1>2. name \in Names /\ fd \in LoggedIn /\ fd \in Fds /\ mapUser[fd] \in User
  BY <1>1, CommandFacts, LineFields, ServingFacts DEF TablesInv
<1>3. Online' = Online /\ conn' = conn /\ Everyone = Online
  BY <1>1, Answers, ReplyFacts, EveryoneFacts
<1>4. /\ mapUser'[fd].ID = mapUser[fd].ID /\ mapUser'[fd].nickname = name
      /\ \A gd \in Fds : gd # fd => mapUser'[gd] = mapUser[gd]
  BY <1>1, <1>2 DEF TablesInv, TablesType, UsersType, User
<1>5. LoggedIn' = LoggedIn
  <2>1. mapUser'[fd] # NoUser
    BY <1>2, <1>4, IDAssumption DEF NoUser, None, User, ID
  <2> QED BY <1>2, <1>4, <2>1 DEF LoggedIn
<1>6. TablesInv'
  BY NameTables
<1>7. /\ SessionAt(fd)' = [SessionAt(fd) EXCEPT !.name = name]
      /\ \A gd \in LoggedIn \ {fd} : SessionAt(gd)' = SessionAt(gd)
  BY <1>1, <1>4 DEF SessionAt, session, LoggedIn
<1>8. Sessions[me] = SessionAt(fd) /\ me \in Clients
  BY <1>1, CommandFacts
<1> HIDE DEF name
<1>9. Sessions' = [Sessions EXCEPT ![me] = [SessionAt(fd) EXCEPT !.name = name]]
  BY <1>1, <1>3, <1>5, <1>6, <1>7, OneSession
<1>10. Sessions' = [Sessions EXCEPT ![me].name = name]
  BY <1>8, <1>9
<1>11. PipesOf(user_pipe_bool)' = PipesOf(user_pipe_bool)
  BY <1>1, <1>3 DEF PipesOf, upipes
<1>12. Service!Say(me, <<Msg("named", Service!Users, <<me, name>>)>>)
  BY <1>1, <1>3, ReplyMail, UsersFacts
<1>13. ~\E d \in Service!Users : Sessions[d].name = name
  BY <1>1, <1>2, NamesSeen
<1>14. Service!Name(me, name)
  BY <1>10, <1>11, <1>12, <1>13, SameWords DEF Service!Name
<1> QED BY <1>1, <1>14, CommandFacts, CommandStep DEF Service!Command, name

LEMMA SetenvService == ServiceInv /\ Setenv /\ UNCHANGED failures => Service!Next
<1> SUFFICES ASSUME ServiceInv, Setenv, UNCHANGED failures PROVE Service!Next
  OBVIOUS
<1> USE DEF ServiceInv, SessionInv, SlotsInv
<1> DEFINE var == Received.var
           val == Received.val
<1> PICK fd : fd = sender_fd
  OBVIOUS
<1>1. /\ Handling("setenv") /\ Reply(<<>>)
      /\ env_map' = [env_map EXCEPT ![user_id] = SetIn(@, var, val)]
      /\ UNCHANGED <<mapUser, user_list, fd_table, upipes>>
  BY DEF Setenv
<1>2. /\ user_id = mapUser[fd].ID /\ user_id \in ID /\ fd \in LoggedIn
      /\ me \in Clients /\ Sessions[me] = SessionAt(fd) /\ var = PATH
  <2>1. Received \in Lines
    BY <1>1, CommandFacts DEF EmptyLine, Bare
  <2> QED BY <1>1, <2>1, CommandFacts DEF user_id, Promised
<1>3. Online' = Online /\ conn' = conn /\ LoggedIn' = LoggedIn
  BY <1>1, Answers, ReplyFacts DEF LoggedIn
<1>4. TablesInv'
  BY SetenvTables
<1> HIDE DEF var, val
<1>5. /\ env_map'[user_id] = SetIn(env_map[user_id], var, val)
      /\ \A n \in ID : n # user_id => env_map'[n] = env_map[n]
      /\ env_map[user_id] \in [EnvVars -> Values \cup {Unset}]
      /\ env_map[user_id][var] # Unset
  BY <1>1, <1>2 DEF TablesInv, TablesType, SessionType, PathKnown
<1> DEFINE new == [id |-> mapUser[fd].ID, name |-> mapUser[fd].nickname,
                   env |-> SetIn(env_map[user_id], var, val)]
<1>6. SessionAt(fd)' = new
  BY <1>1, <1>2, <1>5 DEF SessionAt
<1>7. \A gd \in LoggedIn \ {fd} : SessionAt(gd)' = SessionAt(gd)
  <2> TAKE gd \in LoggedIn \ {fd}
  <2>1. mapUser[gd].ID \in ID /\ mapUser[gd].ID # user_id
    BY <1>2, HolderFacts
  <2> QED BY <1>1, <1>5, <2>1 DEF SessionAt
<1>8. Sessions' = [Sessions EXCEPT ![me] = new]
  <2> HIDE DEF new
  <2> QED BY <1>1, <1>3, <1>4, <1>6, <1>7, OneSession
<1>9. new = [Sessions[me] EXCEPT !.env[var] = val]
  BY <1>2, <1>5 DEF SessionAt, SetIn
<1>10. Sessions' = [Sessions EXCEPT ![me].env[var] = val]
  BY <1>2, <1>8, <1>9
<1>11. PipesOf(user_pipe_bool)' = PipesOf(user_pipe_bool)
  BY <1>1, <1>3 DEF PipesOf, upipes
<1>12. Service!Setenv(me, var, val)
  BY <1>1, <1>10, <1>11, ReplyMail, SameWords DEF Service!Setenv
<1> QED BY <1>1, <1>12, CommandFacts, CommandStep DEF Service!Command, var, val

-----------------------------------------------------------------------------
(* Logging in and leaving. *)

LEMMA AcceptService ==
  MaxOnline <= MaxID /\ ServiceInv /\ Accept /\ UNCHANGED failures => Service!Next
<1> SUFFICES ASSUME MaxOnline <= MaxID, ServiceInv, Accept, UNCHANGED failures
             PROVE  Service!Next
  OBVIOUS
<1> USE DEF ServiceInv, SessionInv, SlotsInv
<1>1. PICK c \in Clients, fd \in Fds, n \in NewIDs : Enters(c, fd, n)
  BY AcceptFacts
<1>2. Free # {} /\ n \in UID /\ n \in ID /\ ~user_list[n] /\ n = Min(Free)
  BY FreeForNext, NewIDFacts DEF NewIDs
<1>3. TablesInv'
  BY AcceptTables
<1>4. /\ c \notin Online /\ Online' = Online \cup {c}
      /\ fd \notin LoggedIn /\ LoggedIn' = LoggedIn \cup {fd}
      /\ UNCHANGED <<vecUserNames, env_map, user_pipe_bool>>
      /\ wrote' = Greeting(c, Everyone \cup {c})
  BY <1>1 DEF Enters, session, upipes
<1>5. /\ mapUser \in [Fds -> User \cup {NoUser}]
      /\ conn \in [Fds -> Clients \cup {NoClient}]
      /\ fd_table \in [ID -> Fds \cup {-1}]
  BY DEF TablesInv, TablesType, UsersType, NetType
<1>6. /\ mapUser'[fd].ID = n /\ mapUser'[fd].nickname = NoName /\ conn'[fd] = c
      /\ \A gd \in LoggedIn : /\ mapUser'[gd] = mapUser[gd] /\ conn'[gd] = conn[gd]
                              /\ gd # fd /\ gd \in Fds
  BY <1>1, <1>4, <1>5 DEF Enters, LoggedIn
<1> DEFINE new == [id |-> n, name |-> NoName, env |-> InitialEnv]
<1>7. SessionAt(fd)' = new
  <2>1. env_map[n] = InitialEnv
    BY <1>2 DEF SlotsClean
  <2> QED BY <1>4, <1>6, <2>1 DEF SessionAt
<1>8. \A gd \in LoggedIn : SessionAt(gd)' = SessionAt(gd)
  BY <1>4, <1>6 DEF SessionAt
<1> HIDE DEF new
<1>9. Sessions' = [Sessions EXCEPT ![c] = new]
  <2>1. Sessions = [d \in Clients |-> Sessions[d]] /\ Sessions' = [d \in Clients |-> Sessions'[d]]
    BY <1>3, SessionsFacts, SessionsNext
  <2> SUFFICES ASSUME NEW d \in Clients PROVE Sessions'[d] = IF d = c THEN new ELSE Sessions[d]
    BY <2>1
  <2>2. CASE d = c
    BY <1>3, <1>4, <1>6, <1>7, <2>2, SessionsNext
  <2>3. CASE d # c /\ d \in Online
    <3>1. PICK gd \in LoggedIn : d = conn[gd]
      BY <2>3 DEF TablesInv, FdsAgree
    <3>2. Sessions[d] = SessionAt(gd)
      BY <3>1, SessionsFacts
    <3>3. Sessions'[conn'[gd]] = SessionAt(gd)'
      BY <1>3, <1>4, SessionsNext
    <3> QED BY <1>6, <1>8, <2>3, <3>1, <3>2, <3>3
  <2>4. CASE d # c /\ d \notin Online
    BY <1>3, <1>4, <2>4, SessionsFacts, SessionsNext
  <2> QED BY <2>2, <2>3, <2>4
<1>10. PipesOf(user_pipe_bool)' = PipesOf(user_pipe_bool)
  <2>1. \A s, r \in UID : user_pipe_bool[s][r] => conn'[fd_table'[r]] = conn[fd_table[r]]
    <3> TAKE s, r \in UID
    <3> SUFFICES ASSUME user_pipe_bool[s][r] PROVE conn'[fd_table'[r]] = conn[fd_table[r]]
      OBVIOUS
    <3>1. user_list[r] /\ r # n /\ r \in ID
      BY <1>2, IDsApart DEF PipeReceiverIsHolder
    <3>2. fd_table'[r] = fd_table[r]
      BY <1>1, <1>5, <3>1 DEF Enters
    <3>3. fd_table[r] \in LoggedIn
      BY <3>1 DEF TablesInv, SlotsAgree
    <3> QED BY <1>6, <3>2, <3>3
  <2> DEFINE P == {q \in UID \X UID : user_pipe_bool[q[1]][q[2]]}
  <2>2. \A p \in P : conn'[fd_table'[p[2]]] = conn[fd_table[p[2]]]
    BY <2>1
  <2>3. PipesOf(user_pipe_bool) = {<<p[1], conn[fd_table[p[2]]]>> : p \in P}
    BY DEF PipesOf
  <2>4. PipesOf(user_pipe_bool)' = {<<p[1], conn'[fd_table'[p[2]]]>> : p \in P}
    BY <1>4 DEF PipesOf
  <2> QED BY <2>2, <2>3, <2>4
<1>11. Sessions[c] = [id |-> 0]
  BY <1>4, SessionsFacts
<1>12. Service!Unused = Free /\ Service!Users = Everyone
  BY UsersFacts, EveryoneFacts
<1>13. Service!Login(c)
  BY <1>2, <1>4, <1>9, <1>10, <1>11, <1>12, SameWords
     DEF Service!Login, Service!Absent, Greeting, new
<1> QED BY <1>13 DEF Service!Next

LEMMA ExitService == ServiceInv /\ Exit /\ UNCHANGED failures => Service!Next
<1> SUFFICES ASSUME ServiceInv, Exit, UNCHANGED failures PROVE Service!Next
  OBVIOUS
<1> USE DEF ServiceInv, SessionInv, SlotsInv
<1>1. PICK c, fd, n : c = me /\ fd = sender_fd /\ n = user_id
  OBVIOUS
<1>2. Handling("exit") /\ Leaves(c, fd, n)
  BY <1>1, ExitFacts DEF Exit
<1>3. /\ c \in Clients /\ c \in Online /\ fd \in LoggedIn /\ n \in UID /\ n \in ID
      /\ fd_table[n] = fd /\ conn[fd] = c /\ mapUser[fd].ID = n
      /\ Sessions[c].name = mapUser[fd].nickname
  <2>1. Sessions[c] = SessionAt(fd)
    BY <1>1, <1>2, CommandFacts
  <2>2. Sessions[c].name = mapUser[fd].nickname
    BY <2>1 DEF SessionAt
  <2> QED BY <1>2, <2>2, HolderFacts DEF Leaves
<1>4. TablesInv'
  BY ExitTables
<1>5. /\ mapUser \in [Fds -> User \cup {NoUser}]
      /\ conn \in [Fds -> Clients \cup {NoClient}]
      /\ fd_table \in [ID -> Fds \cup {-1}]
      /\ env_map \in [ID -> [EnvVars -> Values \cup {Unset}]]
      /\ user_pipe_bool \in [ID -> [ID -> BOOLEAN]]
  BY DEF TablesInv, TablesType, UsersType, NetType, SessionType, PipesType
<1>6. /\ Online' = Online \ {c} /\ LoggedIn' = LoggedIn \ {fd}
      /\ \A gd \in LoggedIn' : /\ mapUser'[gd] = mapUser[gd] /\ conn'[gd] = conn[gd]
                               /\ gd \in LoggedIn /\ conn[gd] # c
  BY <1>2, <1>5 DEF Leaves, UserLeaves, LoggedIn
<1>7. /\ \A m \in ID : m # n => fd_table'[m] = fd_table[m] /\ env_map'[m] = env_map[m]
      /\ \A s, r \in ID : user_pipe_bool'[s][r] <=> user_pipe_bool[s][r] /\ r # n
  BY <1>2, <1>3, <1>5 DEF Leaves, UserLeaves, SessionEnds, ClearUserPipes
<1>8. \A gd \in LoggedIn' : SessionAt(gd)' = SessionAt(gd)
  <2> TAKE gd \in LoggedIn'
  <2>1. mapUser[gd].ID \in ID /\ mapUser[gd].ID # n
    BY <1>3, <1>6, HolderFacts
  <2> QED BY <1>6, <1>7, <2>1 DEF SessionAt
<1>9. Sessions' = [Sessions EXCEPT ![c] = [id |-> 0]]
  <2>1. Sessions = [d \in Clients |-> Sessions[d]] /\ Sessions' = [d \in Clients |-> Sessions'[d]]
    BY <1>4, SessionsFacts, SessionsNext
  <2> SUFFICES ASSUME NEW d \in Clients
               PROVE  Sessions'[d] = IF d = c THEN [id |-> 0] ELSE Sessions[d]
    BY <2>1
  <2>2. CASE d \notin Online'
    BY <1>4, <1>6, <2>2, SessionsFacts, SessionsNext
  <2>3. CASE d \in Online'
    <3>1. PICK gd \in LoggedIn' : d = conn'[gd]
      BY <1>4, <2>3 DEF TablesInv, FdsAgree
    <3>2. Sessions'[d] = SessionAt(gd)'
      BY <1>4, <3>1, SessionsNext
    <3>3. Sessions[conn[gd]] = SessionAt(gd)
      BY <1>6, SessionsFacts
    <3> QED BY <1>6, <1>8, <2>3, <3>1, <3>2, <3>3
  <2> QED BY <2>2, <2>3
<1>10. PipesOf(user_pipe_bool)' = {p \in PipesOf(user_pipe_bool) : p[2] # c}
  <2>1. \A r \in UID : user_list[r] /\ r # n => /\ conn'[fd_table'[r]] = conn[fd_table[r]]
                                               /\ conn[fd_table[r]] # c
    <3> TAKE r \in UID
    <3> SUFFICES ASSUME user_list[r], r # n
                 PROVE  conn'[fd_table'[r]] = conn[fd_table[r]] /\ conn[fd_table[r]] # c
      OBVIOUS
    <3>1. fd_table[r] \in LoggedIn /\ mapUser[fd_table[r]].ID = r
      BY DEF TablesInv, SlotsAgree
    <3>2. fd_table[r] \in LoggedIn'
      BY <1>3, <1>6, <3>1
    <3> QED BY <1>6, <1>7, <3>2, IDsApart
  <2>2. \A s, r \in UID : user_pipe_bool[s][r] => user_list[r]
    BY IDsApart DEF PipeReceiverIsHolder
  <2>3. \A p \in PipesOf(user_pipe_bool)' : p \in PipesOf(user_pipe_bool) /\ p[2] # c
    <3> TAKE p \in PipesOf(user_pipe_bool)'
    <3>1. PICK s \in UID, r \in UID : user_pipe_bool'[s][r] /\ p = <<s, conn'[fd_table'[r]]>>
      BY DEF PipesOf
    <3>2. user_pipe_bool[s][r] /\ r # n /\ user_list[r]
      BY <1>7, <2>2, <3>1, IDsApart
    <3>3. p = <<s, conn[fd_table[r]]>> /\ p[2] # c
      BY <2>1, <3>1, <3>2
    <3> QED BY <2>2, <3>2, <3>3, PipesFacts
  <2>4. \A p \in PipesOf(user_pipe_bool) : p[2] # c => p \in PipesOf(user_pipe_bool)'
    <3> TAKE p \in PipesOf(user_pipe_bool)
    <3> SUFFICES ASSUME p[2] # c PROVE p \in PipesOf(user_pipe_bool)'
      OBVIOUS
    <3>1. PICK s \in UID, r \in UID : user_pipe_bool[s][r] /\ p = <<s, conn[fd_table[r]]>>
      BY PipesShape
    <3>2. r # n /\ user_list[r]
      BY <1>3, <2>2, <3>1
    <3>3. user_pipe_bool'[s][r] /\ p = <<s, conn'[fd_table'[r]]>>
      BY <1>7, <2>1, <3>1, <3>2, IDsApart
    <3> DEFINE q == <<s, r>>
    <3>4. q \in UID \X UID /\ user_pipe_bool'[q[1]][q[2]] /\ p = <<q[1], conn'[fd_table'[q[2]]]>>
      BY <3>3
    <3> QED BY <3>4 DEF PipesOf
  <2> QED BY <2>3, <2>4
<1>11. wrote' = <<Msg("left", Service!Users \ {c}, <<Sessions[c].name>>)>>
  <2>1. At(LoggedIn') = Online \ {c}
    <3>1. /\ Online = {conn[gd] : gd \in LoggedIn}
          /\ \A gd \in LoggedIn : gd \in Fds /\ conn[gd] \in Clients
      BY LoggedInFacts DEF TablesInv, FdsAgree
    <3> QED BY <1>3, <1>6, <3>1 DEF At
  <2> QED BY <1>2, <1>3, <2>1, UsersFacts DEF Leaves
<1>12. Service!Leave(c)
  BY <1>9, <1>10, <1>11, SameWords DEF Service!Leave, Service!Absent
<1>13. Service!Command(me, Received)
  BY <1>1, <1>2, <1>12, CommandFacts DEF Service!Command
<1> QED BY <1>2, <1>13, CommandStep

-----------------------------------------------------------------------------
(* Pipelines. *)

LEMMA RunFacts ==
  ASSUME ServiceInv, Handling("run")
  PROVE  /\ Received.in \in {None} \cup UID /\ Received.out \in {None} \cup UID
         /\ Received.stages \in 1 .. 2
         /\ user_id \in UID /\ user_id \in ID /\ user_list[user_id]
         /\ conn[fd_table[user_id]] = me
         /\ Sessions[me].id = user_id /\ Sessions[me].name = nickname
         /\ user_pipe_bool \in [ID -> [ID -> BOOLEAN]]
         /\ \A s, r \in UID : user_pipe_bool[s][r] => user_list[r]
<1>1. Sessions[me] = [id |-> user_id, name |-> nickname, env |-> env_map[user_id]]
  BY CommandFacts
<1>2. Sessions[me].id = user_id /\ Sessions[me].name = nickname
  BY <1>1
<1>3. fd_table[user_id] = sender_fd /\ user_id \in UID /\ user_id \in ID
      /\ user_list[user_id]
  BY CommandFacts
<1>4. conn[fd_table[user_id]] = me
  BY <1>3 DEF me
<1>5. user_pipe_bool \in [ID -> [ID -> BOOLEAN]]
  BY DEF ServiceInv, SessionInv, TablesInv, TablesType, PipesType
<1>6. \A s, r \in UID : user_pipe_bool[s][r] => user_list[r]
  BY IDsApart DEF ServiceInv, SessionInv, SlotsInv, PipeReceiverIsHolder
<1>7. /\ Received.in \in {None} \cup ID /\ Received.out \in {None} \cup UID
      /\ Received.stages \in 1 .. 2
  BY CommandFacts, LineFields
<1>8. Received.in # 0
  <2>1. Received \in Lines
    BY CommandFacts DEF EmptyLine, Bare
  <2> QED BY <2>1, CommandFacts DEF ServiceInv, Promised
<1> QED BY <1>2, <1>3, <1>4, <1>5, <1>6, <1>7, <1>8, IDsApart

LEMMA InputSeen ==
  ASSUME ServiceInv, Handling("run")
  PROVE  Service!InError(me, Received.in) = InputError
<1> DEFINE in == Received.in
<1>1. CASE in = None
  BY <1>1, SameWords DEF Service!InError, InputError
<1>2. CASE in # None
  <2>1. in \in UID
    BY <1>2, RunFacts
  <2>2. <<in, me>> \in PipesOf(user_pipe_bool) <=> in \in UID /\ user_pipe_bool[in][user_id]
    <3>1. /\ user_id \in UID /\ user_list[user_id] /\ conn[fd_table[user_id]] = me
          /\ \A s, r \in UID : user_pipe_bool[s][r] => user_list[r]
      BY RunFacts
    <3> HIDE DEF in
    <3>2. <<in, conn[fd_table[user_id]]>> \in PipesOf(user_pipe_bool)
            <=> in \in UID /\ user_pipe_bool[in][user_id]
      BY <3>1, PipesFacts
    <3> QED BY <3>1, <3>2
  <2>3. Service!Exists(in) <=> user_list[in]
    BY <2>1, UsersFacts
  <2> QED BY <1>2, <2>1, <2>2, <2>3, SameWords DEF Service!InError, InputError
<1> QED BY <1>1, <1>2

(* A good <in names a user.                                                 *)
LEMMA GoodInput ==
  ASSUME ServiceInv, Handling("run"), InputError = "none", Received.in # None
  PROVE  Received.in \in UID /\ user_list[Received.in]
BY RunFacts DEF InputError

LEMMA ConsumedSeen ==
  ASSUME ServiceInv, Handling("run"), InputError = "none"
  PROVE  /\ PipesOf(Consumed) = Service!After(me, Received.in)
         /\ Consumed \in [ID -> [ID -> BOOLEAN]]
         /\ \A s, r \in UID : Consumed[s][r] => user_list[r]
<1> DEFINE in == Received.in
<1>1. CASE in = None
  <2>1. Consumed = user_pipe_bool
    BY <1>1 DEF Consumed
  <2>2. <<in, me>> \notin PipesOf(user_pipe_bool)
    <3>1. in \notin UID
      BY <1>1 DEF None, UID
    <3> QED BY <3>1, RunFacts, PipesFacts
  <2>3. Service!After(me, in) = PipesOf(user_pipe_bool)
    BY <2>2 DEF Service!After
  <2> QED BY <2>1, <2>3, RunFacts
<1>2. CASE in # None
  <2>1. in \in UID /\ in \in ID
    BY <1>2, GoodInput, IDsApart
  <2>2. Consumed = [user_pipe_bool EXCEPT ![in][user_id] = FALSE]
    BY <1>2 DEF Consumed
  <2> HIDE DEF in
  <2>3. /\ Consumed \in [ID -> [ID -> BOOLEAN]]
        /\ \A s, r \in ID : Consumed[s][r] <=> user_pipe_bool[s][r] /\ ~(s = in /\ r = user_id)
    BY <2>1, <2>2, RunFacts
  <2>4. \A s, r \in UID : Consumed[s][r] => user_list[r]
    BY <2>3, RunFacts, IDsApart
  <2>5. \A s, r \in UID : user_list[r] =>
          (<<s, conn[fd_table[r]]>> \in PipesOf(Consumed) <=> Consumed[s][r])
    BY <2>4, PipesFacts
  <2>6. \A s, r \in UID : user_list[r] =>
          (<<s, conn[fd_table[r]]>> \in PipesOf(user_pipe_bool) <=> user_pipe_bool[s][r])
    BY RunFacts, PipesFacts
  <2>7. \A r \in UID : user_list[r] /\ conn[fd_table[r]] = me => r = user_id
    <3> TAKE r \in UID
    <3> SUFFICES ASSUME user_list[r], conn[fd_table[r]] = me PROVE r = user_id
      OBVIOUS
    <3>1. me \in Service!Holder(r) /\ Sessions[me].id = r
      BY InUseFacts DEF Service!Holder
    <3> QED BY <3>1, RunFacts
  <2>8. \A p \in PipesOf(Consumed) : p \in PipesOf(user_pipe_bool) /\ p # <<in, me>>
    <3> TAKE p \in PipesOf(Consumed)
    <3>1. PICK s \in UID, r \in UID : Consumed[s][r] /\ p = <<s, conn[fd_table[r]]>>
      BY PipesShape
    <3>2. user_list[r] /\ user_pipe_bool[s][r] /\ ~(s = in /\ r = user_id)
      BY <2>3, <2>4, <3>1, IDsApart
    <3>3. p \in PipesOf(user_pipe_bool)
      BY <2>6, <3>1, <3>2
    <3> QED BY <2>7, <3>1, <3>2, <3>3
  <2>9. \A p \in PipesOf(user_pipe_bool) : p # <<in, me>> => p \in PipesOf(Consumed)
    <3> TAKE p \in PipesOf(user_pipe_bool)
    <3> SUFFICES ASSUME p # <<in, me>> PROVE p \in PipesOf(Consumed)
      OBVIOUS
    <3>1. PICK s \in UID, r \in UID : user_pipe_bool[s][r] /\ p = <<s, conn[fd_table[r]]>>
      BY PipesShape
    <3>2. user_list[r] /\ ~(s = in /\ r = user_id)
      BY <3>1, RunFacts
    <3>3. Consumed[s][r]
      BY <2>3, <3>1, <3>2, IDsApart
    <3> QED BY <2>5, <3>1, <3>2, <3>3
  <2>10. PipesOf(Consumed) = Service!After(me, in)
    BY <2>8, <2>9 DEF Service!After
  <2> QED BY <2>3, <2>4, <2>10 DEF in
<1> QED BY <1>1, <1>2

LEMMA SeenSeen ==
  ASSUME ServiceInv, Handling("run"), InputError = "none"
  PROVE  /\ PipesOf(Seen) = Service!Left(me, Received)
         /\ Seen \in [ID -> [ID -> BOOLEAN]]
         /\ \A s, r \in UID : Seen[s][r] => user_list[r]
BY ConsumedSeen, RunFacts DEF Seen, Service!Left

LEMMA OutputSeen ==
  ASSUME ServiceInv, Handling("run"), InputError = "none"
  PROVE  Service!OutError(me, Received) = OutputError
<1> DEFINE out == Received.out
<1>1. CASE out = None
  BY <1>1, SameWords DEF Service!OutError, OutputError
<1>2. CASE out # None
  <2>1. out \in UID
    BY <1>2, RunFacts
  <2>2. Service!Exists(out) <=> user_list[out]
    BY <2>1, UsersFacts, IDsApart
  <2>3. user_list[out] => (<<Sessions[me].id, Service!To(out)>> \in Service!Left(me, Received)
                             <=> Seen[user_id][out])
    BY <2>1, SeenSeen, RunFacts, InUseFacts, PipesFacts
  <2> QED BY <1>2, <2>2, <2>3, SameWords DEF Service!OutError, OutputError
<1> QED BY <1>1, <1>2

LEMMA AnnouncementsSeen ==
  ASSUME ServiceInv, Handling("run"), InputError = "none"
  PROVE  /\ Service!Announce(me, "received", Received.in) = ReceivedMsg(1)
         /\ OutputError = "none" => Service!Announce(me, "piped", Received.out) = PipedMsg
<1>1. Service!Users = Listed
  BY UsersFacts, ListedFacts DEF ServiceInv, SessionInv, SlotsInv
<1>2. Received.in # None =>
        Service!NameOf(Received.in) = mapUser[fd_table[Received.in]].nickname
  BY GoodInput, InUseFacts
<1>3. OutputError = "none" /\ Received.out # None =>
        Service!NameOf(Received.out) = mapUser[fd_table[Received.out]].nickname
  <2> SUFFICES ASSUME OutputError = "none", Received.out # None
               PROVE  Service!NameOf(Received.out) = mapUser[fd_table[Received.out]].nickname
    OBVIOUS
  <2>1. Received.out \in UID /\ user_list[Received.out]
    BY RunFacts DEF OutputError
  <2> QED BY <2>1, InUseFacts
<1>4. Sessions[me].id = user_id /\ Sessions[me].name = nickname
  BY RunFacts
<1>5. \A m : [k \in 1 .. 1 |-> m] = <<m>>
  OBVIOUS
<1>6. Service!Announce(me, "received", Received.in) = ReceivedMsg(1)
  BY <1>1, <1>2, <1>4, <1>5, SameWords DEF Service!Announce, ReceivedMsg
<1>7. OutputError = "none" => Service!Announce(me, "piped", Received.out) = PipedMsg
  BY <1>1, <1>3, <1>4, SameWords DEF Service!Announce, PipedMsg
<1> QED BY <1>6, <1>7

(* A new pipe to a user is one more pair.                                   *)
LEMMA OpenedSeen ==
  ASSUME ServiceInv, Handling("run"), OutputError = "none",
         NEW bools \in [ID -> [ID -> BOOLEAN]], \A s, r \in UID : bools[s][r] => user_list[r]
  PROVE  PipesOf(OpenedIn(bools)) = PipesOf(bools) \cup Service!Made(me, Received)
<1> DEFINE out == Received.out
           opened == OpenedIn(bools)
<1>1. CASE out = None
  BY <1>1, SameWords DEF OpenedIn, Service!Made
<1>2. CASE out # None
  <2>1. out \in UID /\ out \in ID /\ user_list[out]
    BY <1>2, RunFacts, IDsApart DEF OutputError
  <2>2. opened = [bools EXCEPT ![user_id][out] = TRUE]
    BY <1>2 DEF OpenedIn
  <2> HIDE DEF out, opened
  <2>3. \A s, r \in ID : opened[s][r] <=> bools[s][r] \/ (s = user_id /\ r = out)
    BY <2>1, <2>2, RunFacts
  <2>4. \A s, r \in UID : opened[s][r] => user_list[r]
    BY <2>1, <2>3, IDsApart
  <2>5. Sessions[me].id = user_id /\ Service!To(out) = conn[fd_table[out]] /\ user_id \in UID
    BY <2>1, RunFacts, InUseFacts
  <2> DEFINE new == <<user_id, conn[fd_table[out]]>>
  <2>6. \A s, r \in UID : user_list[r] =>
          /\ <<s, conn[fd_table[r]]>> \in PipesOf(opened) <=> opened[s][r]
          /\ <<s, conn[fd_table[r]]>> \in PipesOf(bools) <=> bools[s][r]
    BY <2>4, PipesFacts
  <2>7. \A p \in PipesOf(opened) : p \in PipesOf(bools) \cup {new}
    <3> TAKE p \in PipesOf(opened)
    <3>1. PICK s \in UID, r \in UID : opened[s][r] /\ p = <<s, conn[fd_table[r]]>>
      BY PipesShape
    <3>2. user_list[r] /\ (bools[s][r] \/ (s = user_id /\ r = out))
      BY <2>3, <2>4, <3>1, IDsApart
    <3> QED BY <2>6, <3>1, <3>2
  <2>8. \A p \in PipesOf(bools) : p \in PipesOf(opened)
    <3> TAKE p \in PipesOf(bools)
    <3>1. PICK s \in UID, r \in UID : bools[s][r] /\ p = <<s, conn[fd_table[r]]>>
      BY PipesShape
    <3>2. user_list[r] /\ opened[s][r]
      BY <2>3, <3>1, IDsApart
    <3> QED BY <2>6, <3>1, <3>2
  <2>9. new \in PipesOf(opened)
    BY <2>1, <2>3, <2>5, <2>6, IDsApart
  <2>10. PipesOf(opened) = PipesOf(bools) \cup {new}
    BY <2>7, <2>8, <2>9
  <2> QED BY <1>2, <2>5, <2>10, SameWords DEF out, opened, Service!Made
<1> QED BY <1>1, <1>2

(* What a list of messages holds.                                           *)
LEMMA ConcatRange ==
  ASSUME NEW S, NEW s \in Seq(S), NEW t \in Seq(S)
  PROVE  s \o t \in Seq(S) /\ Range(s \o t) = Range(s) \cup Range(t)
<1>1. /\ s \o t \in Seq(S) /\ Len(s) \in Nat /\ Len(t) \in Nat
      /\ DOMAIN s = 1 .. Len(s) /\ DOMAIN t = 1 .. Len(t)
      /\ DOMAIN (s \o t) = 1 .. Len(s) + Len(t)
      /\ \A k \in 1 .. Len(s) + Len(t) :
           (s \o t)[k] = IF k <= Len(s) THEN s[k] ELSE t[k - Len(s)]
  OBVIOUS
<1> DEFINE u == s \o t
<1> HIDE DEF u
<1>2. \A k \in DOMAIN u : u[k] \in Range(s) \cup Range(t)
  <2> TAKE k \in DOMAIN u
  <2>1. CASE k <= Len(s)
    BY <1>1, <2>1 DEF u, Range
  <2>2. CASE ~(k <= Len(s))
    <3>1. k - Len(s) \in DOMAIN t /\ u[k] = t[k - Len(s)]
      BY <1>1, <2>2 DEF u
    <3> QED BY <3>1 DEF Range
  <2> QED BY <2>1, <2>2
<1>3. \A k \in DOMAIN s : k \in DOMAIN u /\ u[k] = s[k]
  BY <1>1 DEF u
<1>4. \A k \in DOMAIN t : Len(s) + k \in DOMAIN u /\ u[Len(s) + k] = t[k]
  <2> TAKE k \in DOMAIN t
  <2>1. Len(s) + k \in DOMAIN u /\ ~(Len(s) + k <= Len(s)) /\ (Len(s) + k) - Len(s) = k
    BY <1>1 DEF u
  <2> QED BY <1>1, <2>1 DEF u
<1>5. Range(u) = Range(s) \cup Range(t)
  BY <1>2, <1>3, <1>4 DEF Range
<1> QED BY <1>1, <1>5 DEF u

LEMMA AppendRange ==
  ASSUME NEW S, NEW s \in Seq(S), NEW x \in S
  PROVE  Append(s, x) \in Seq(S) /\ Range(Append(s, x)) = Range(s) \cup {x}
<1> DEFINE one == <<x>>
<1>1. one \in Seq(S) /\ Range(one) = {x} /\ Append(s, x) = s \o one
  BY DEF Range
<1> HIDE DEF one
<1>2. s \o one \in Seq(S) /\ Range(s \o one) = Range(s) \cup Range(one)
  BY <1>1, ConcatRange
<1> QED BY <1>1, <1>2

(* A line for whose commands there was no process, seen from the service.   *)
LEMMA RefusalSeen ==
  ASSUME ServiceInv, Handling("run"), InputError = "none"
  PROVE  Service!Refusal(me, Received) = Msg(OutputError, {me}, <<user_id, Received.out>>)
BY OutputSeen, RunFacts, SameWords DEF Service!Refusal

LEMMA FailuresCounted ==
  ASSUME ServiceInv, NEW f \in Some, NEW g \in Some, Fails(f, g)
  PROVE  /\ failures' = failures + f + g /\ failures \in Nat /\ f \in Nat /\ g \in Nat
         /\ f + g > 0 => failures' > failures
         /\ f + g = 0 => failures' = failures
<1>1. failures \in Nat /\ f \in Nat /\ g \in Nat
  BY FdAssumption DEF ServiceInv, Some
<1> QED BY <1>1 DEF Fails

LEMMA RunService == ServiceInv /\ Pipeline => Service!Next
<1> SUFFICES ASSUME ServiceInv, Pipeline PROVE Service!Next
  OBVIOUS
<1>1. /\ Handling("run") /\ \E ms : Answered(ms)
      /\ UNCHANGED <<mapUser, user_list, fd_table, vecUserNames, env_map>>
  BY PipelineFrame
<1>2. Sessions' = Sessions /\ conn' = conn
  BY <1>1, ReplyFacts, QuietView DEF ServiceInv, SessionInv
<1>3. PipesOf(user_pipe_bool)' = PipesOf(user_pipe_bool')
  BY <1>1, <1>2 DEF PipesOf
<1>4. /\ Service!InError(me, Received.in) = InputError
      /\ Sessions[me].id = user_id
  BY <1>1, InputSeen, RunFacts
<1>5. Received \in Lines /\ Received.op = "run" /\ me \in Clients /\ me \in Service!Users
  BY <1>1, CommandFacts DEF EmptyLine, Bare
<1>6. ASSUME Service!Pipeline(me, Received), UNCHANGED failures PROVE Service!Next
  BY <1>1, <1>5, <1>6, CommandStep DEF Service!Command
<1>7. ASSUME Service!OutOfProcesses(me, Received) PROVE Service!Next
  BY <1>5, <1>7 DEF Service!Next
<1>8. CASE RunInputError
  <2>1. /\ InputError # "none" /\ user_pipe_bool' = user_pipe_bool /\ failures' = failures
        /\ Reply(<<Msg(InputError, {me}, <<Received.in, user_id>>)>>)
    BY <1>8 DEF RunInputError, upipes
  <2>2. Service!Pipeline(me, Received)
    BY <1>2, <1>3, <1>4, <2>1, ReplyMail, SameWords DEF Service!Pipeline
  <2> QED BY <1>6, <2>1, <2>2
(* What the lines that pass the check of <in announce.                      *)
<1> DEFINE r == Msg("received", Listed,
                    <<nickname, user_id, mapUser[fd_table[Received.in]].nickname, Received.in>>)
           p == Msg("piped", Listed,
                    <<nickname, user_id, mapUser[fd_table[Received.out]].nickname, Received.out>>)
           e == Msg(OutputError, {me}, <<user_id, Received.out>>)
           x == Msg("pipe exists", {me}, <<user_id, Received.out>>)
           q == Prompt(me)
           S == {r, p, e, x, q}
           Says(ms, M) == ms \in Seq(S) /\ Range(ms) = M
           R == IF Received.in = None THEN {} ELSE {r}
           P == IF Received.out = None THEN {} ELSE {p}
<1>9. \A tries \in Nat : ReceivedMsg(tries) = IF Received.in = None THEN <<>>
                                              ELSE [k \in 1 .. tries |-> r]
  BY DEF ReceivedMsg
<1>10. PipedMsg = IF Received.out = None THEN <<>> ELSE <<p>>
  BY DEF PipedMsg
<1>11. r \in S /\ p \in S /\ e \in S /\ x \in S /\ q \in S
  OBVIOUS
<1>12. \A ms : Reply(ms) => wrote' = Append(ms, q)
  BY DEF Reply, Send, Deliver
<1> HIDE DEF r, p, e, x, q, S
<1>13. Says(<<>>, {}) /\ Says(<<p>>, {p})
  BY <1>11 DEF Range
<1>14. \A tries \in Nat \ {0} : Says(ReceivedMsg(tries), R)
  <2> TAKE tries \in Nat \ {0}
  <2>1. [k \in 1 .. tries |-> r] \in Seq(S)
    BY <1>11
  <2>2. 1 \in 1 .. tries
    OBVIOUS
  <2>3. Range([k \in 1 .. tries |-> r]) = {r}
    BY <2>2 DEF Range
  <2> QED BY <1>9, <1>13, <2>1, <2>3
<1>15. Says(ReceivedMsg(0), {})
  <2>1. [k \in 1 .. 0 |-> r] = <<>>
    OBVIOUS
  <2> QED BY <1>9, <1>13, <2>1
<1>16. Says(PipedMsg, P)
  BY <1>10, <1>13
<1>17. ASSUME NEW s, NEW t, NEW M, NEW N, Says(s, M), Says(t, N) PROVE Says(s \o t, M \cup N)
  BY <1>17, ConcatRange
<1>18. ASSUME NEW s, NEW M, NEW m \in S, Says(s, M) PROVE Says(Append(s, m), M \cup {m})
  BY <1>18, AppendRange
<1>19. \A f \in Some : 1 + f \in Nat \ {0}
  BY FdAssumption DEF Some
<1> HIDE DEF Says, R, P
<1>20. CASE RunOutputError
  <2>1. PICK f \in Some : Fails(f, 0) /\ Reply(Append(ReceivedMsg(1 + f), e))
    BY <1>20 DEF RunOutputError, e
  <2>2. /\ InputError = "none" /\ OutputError # "none" /\ user_pipe_bool' = Seen
    BY <1>20 DEF RunOutputError
  <2>3. /\ Service!OutError(me, Received) = OutputError
        /\ PipesOf(Seen) = Service!Left(me, Received)
    BY <1>1, <2>2, OutputSeen, SeenSeen
  <2>4. /\ Service!Announce(me, "received", Received.in) = ReceivedMsg(1)
        /\ Service!Refusal(me, Received) = e
    BY <1>1, <2>2, AnnouncementsSeen, RefusalSeen DEF e
  <2>5. 0 \in Some
    BY FdAssumption DEF Some
  <2>6. CASE f = 0
    <3>1. failures' = failures /\ 1 + f = 1
      BY <2>1, <2>5, <2>6, FailuresCounted
    <3>2. Reply(Append(ReceivedMsg(1), e))
      BY <2>1, <3>1
    <3>3. Service!Say(me, Append(ReceivedMsg(1), e))
      BY <3>2, ReplyMail
    <3>4. Service!Pipeline(me, Received)
      BY <1>2, <1>3, <1>4, <2>2, <2>3, <2>4, <3>3, SameWords DEF Service!Pipeline
    <3> QED BY <1>6, <3>1, <3>4
  <2>7. CASE f # 0
    <3>1. failures' > failures
      BY <2>1, <2>5, <2>7, FailuresCounted
    <3>2. Says(ReceivedMsg(1 + f), R) /\ Says(ReceivedMsg(1), R)
      BY <1>14, <1>19
    <3>3. Says(Append(Append(ReceivedMsg(1 + f), e), q), (R \cup {e}) \cup {q})
      BY <1>11, <1>18, <3>2
    <3>4. Range(wrote') = R \cup {e, q} /\ Range(ReceivedMsg(1)) = R
      BY <1>12, <2>1, <3>2, <3>3 DEF Says
    <3>5. Service!OutOfProcesses(me, Received)
      BY <1>2, <1>3, <1>4, <1>5, <2>2, <2>3, <2>4, <3>1, <3>4, SameWords
      DEF Service!OutOfProcesses, q
    <3> QED BY <1>7, <3>5
  <2> QED BY <2>6, <2>7
(* From here on both checks have passed.                                    *)
<1>21. ASSUME Started
       PROVE  /\ InputError = "none" /\ Service!OutError(me, Received) = "none"
              /\ Service!Announce(me, "received", Received.in) = ReceivedMsg(1)
              /\ Service!Announce(me, "piped", Received.out) = PipedMsg
              /\ PipesOf(Consumed) = Service!After(me, Received.in)
              /\ PipesOf(OpenedIn(Consumed))
                   = Service!After(me, Received.in) \cup Service!Made(me, Received)
              /\ PipesOf(OpenedIn(Seen))
                   = Service!Left(me, Received) \cup Service!Made(me, Received)
  <2>1. InputError = "none" /\ OutputError = "none"
    BY <1>21 DEF Started
  <2>2. Service!OutError(me, Received) = "none"
    BY <1>1, <2>1, OutputSeen
  <2>3. /\ Consumed \in [ID -> [ID -> BOOLEAN]] /\ \A s, t \in UID : Consumed[s][t] => user_list[t]
        /\ PipesOf(Consumed) = Service!After(me, Received.in)
    BY <1>1, <2>1, ConsumedSeen
  <2>4. /\ Seen \in [ID -> [ID -> BOOLEAN]] /\ \A s, t \in UID : Seen[s][t] => user_list[t]
        /\ PipesOf(Seen) = Service!Left(me, Received)
    BY <1>1, <2>1, SeenSeen
  <2>5. PipesOf(OpenedIn(Consumed)) = PipesOf(Consumed) \cup Service!Made(me, Received)
    BY <1>1, <2>1, <2>3, OpenedSeen
  <2>6. PipesOf(OpenedIn(Seen)) = PipesOf(Seen) \cup Service!Made(me, Received)
    BY <1>1, <2>1, <2>4, OpenedSeen
  <2> QED BY <1>1, <2>1, <2>2, <2>3, <2>4, <2>5, <2>6, AnnouncementsSeen
<1>22. ASSUME Started,
              NEW f \in Some, NEW g \in Some, Fails(f, g), f + g > 0,
              user_pipe_bool' \in {OpenedIn(Consumed), OpenedIn(Seen)},
              R \cup P \subseteq Range(wrote'), Range(wrote') \subseteq R \cup P \cup {x, q}
       PROVE  Service!Next
  <2>1. failures' > failures
    BY <1>22, FailuresCounted
  <2>2. Range(ReceivedMsg(1)) = R /\ Range(PipedMsg) = P
    BY <1>14, <1>16 DEF Says
  <2>3. /\ InputError = "none" /\ Service!OutError(me, Received) = "none"
        /\ Service!Range(Service!Announce(me, "received", Received.in)) = R
        /\ Service!Range(Service!Announce(me, "piped", Received.out)) = P
        /\ Service!Range(wrote') = Range(wrote')
    BY <1>21, <1>22, <2>2, SameWords
  <2>4. PipesOf(user_pipe_bool)' \in
          {Service!Left(me, Received) \cup Service!Made(me, Received),
           Service!After(me, Received.in) \cup Service!Made(me, Received)}
    BY <1>3, <1>21, <1>22
  <2>5. /\ Msg("pipe exists", {me}, <<Sessions[me].id, Received.out>>) = x
        /\ Service!Prompt(me) = q
    BY <1>4, SameWords DEF x, q
  <2>6. Service!OutOfProcesses(me, Received)
    BY <1>2, <1>4, <1>5, <1>22, <2>1, <2>3, <2>4, <2>5, SameWords
    DEF Service!OutOfProcesses
  <2> QED BY <1>7, <2>6
<1>23. CASE Run
  <2>1. Started /\ user_pipe_bool' = OpenedIn(Consumed)
    BY <1>23 DEF Run
  <2>2. PICK f \in Some, g \in Some : Fails(f, g) /\ Reply(ReceivedMsg(1 + f) \o PipedMsg)
    BY <1>23 DEF Run
  <2>3. f \in Nat /\ g \in Nat
    BY <2>2, FailuresCounted
  <2>4. CASE f + g = 0
    <3>1. failures' = failures
      BY <2>2, <2>4, FailuresCounted
    <3>2. Reply(ReceivedMsg(1) \o PipedMsg)
      BY <2>2, <2>3, <2>4
    <3>3. Service!Say(me, ReceivedMsg(1) \o PipedMsg)
      BY <3>2, ReplyMail
    <3>4. Service!Pipeline(me, Received)
      BY <1>2, <1>3, <1>4, <1>21, <2>1, <3>3, SameWords DEF Service!Pipeline
    <3> QED BY <1>6, <3>1, <3>4
  <2>5. CASE f + g # 0
    <3>1. Says(ReceivedMsg(1 + f) \o PipedMsg, R \cup P)
      BY <1>14, <1>16, <1>17, <1>19
    <3>2. Says(Append(ReceivedMsg(1 + f) \o PipedMsg, q), (R \cup P) \cup {q})
      BY <1>11, <1>18, <3>1
    <3>3. Range(wrote') = (R \cup P) \cup {q}
      BY <1>12, <2>2, <3>2 DEF Says
    <3>4. f + g > 0
      BY <2>3, <2>5
    <3> QED BY <1>22, <2>1, <2>2, <3>3, <3>4
  <2> QED BY <2>4, <2>5
<1>24. CASE RunRetried
  <2> DEFINE again == IF Received.stages = 1 THEN 1 ELSE 0
             A == IF Received.stages = 1 THEN R ELSE {}
  <2>1. Started /\ user_pipe_bool' = OpenedIn(Seen)
    BY <1>24 DEF RunRetried
  <2>2. PICK f \in Some : /\ Fails(f, 1)
                          /\ Reply((ReceivedMsg(1 + f) \o PipedMsg)
                                   \o Append(ReceivedMsg(again), x))
    BY <1>24 DEF RunRetried, x
  <2>3. 1 \in Some /\ f \in Nat /\ f + 1 > 0
    <3>1. /\ failures' = failures + f + 1 /\ failures' <= ForkFailures
          /\ failures \in Nat /\ f \in Nat /\ ForkFailures \in Nat
      BY <2>2, FdAssumption DEF Fails, ServiceInv, Some
    <3> QED BY <3>1 DEF Some
  <2>4. Says(ReceivedMsg(again), A)
    BY <1>14, <1>15
  <2> HIDE DEF again
  <2>5. Says(ReceivedMsg(1 + f) \o PipedMsg, R \cup P)
    BY <1>14, <1>16, <1>17, <1>19
  <2>6. Says(Append(ReceivedMsg(again), x), A \cup {x})
    BY <1>11, <1>18, <2>4
  <2>7. Says((ReceivedMsg(1 + f) \o PipedMsg) \o Append(ReceivedMsg(again), x),
             (R \cup P) \cup (A \cup {x}))
    BY <1>17, <2>5, <2>6
  <2>8. Says(Append((ReceivedMsg(1 + f) \o PipedMsg) \o Append(ReceivedMsg(again), x), q),
             ((R \cup P) \cup (A \cup {x})) \cup {q})
    BY <1>11, <1>18, <2>7
  <2>9. Range(wrote') = ((R \cup P) \cup (A \cup {x})) \cup {q}
    BY <1>12, <2>2, <2>8 DEF Says
  <2> QED BY <1>22, <2>1, <2>2, <2>3, <2>9
<1>25. CASE RunStops
  <2>1. Started /\ user_pipe_bool' = Consumed /\ Received.out = None
    BY <1>25 DEF RunStops
  <2>2. PICK f \in Some, g \in Some :
          /\ Fails(f, g) /\ (g >= Received.stages \/ g = 1)
          /\ Stop(ReceivedMsg(1 + IF Received.stages = 1 THEN g ELSE f))
    BY <1>25 DEF RunStops
  <2> DEFINE tries == 1 + IF Received.stages = 1 THEN g ELSE f
  <2>3. wrote' = ReceivedMsg(tries) /\ tries \in Nat \ {0}
    BY <1>19, <2>2 DEF Stop, Deliver
  <2> HIDE DEF tries
  <2>4. Range(wrote') = R
    BY <1>14, <2>3 DEF Says
  <2>5. P = {} /\ OpenedIn(Consumed) = Consumed
    BY <2>1 DEF P, OpenedIn
  <2>6. f + g > 0
    <3>1. f \in Nat /\ g \in Nat
      BY <2>2, FailuresCounted
    <3>2. Received.stages \in 1 .. 2
      BY <1>1, RunFacts
    <3> QED BY <2>2, <3>1, <3>2
  <2> QED BY <1>22, <2>1, <2>2, <2>4, <2>5, <2>6
<1> QED BY <1>8, <1>20, <1>23, <1>24, <1>25 DEF Pipeline

-----------------------------------------------------------------------------
(* Every step. *)

LEMMA StepService ==
  MaxOnline <= MaxID /\ ServiceInv /\ [Next]_vars => [Service!Next]_(Service!vars)
<1> SUFFICES ASSUME MaxOnline <= MaxID, ServiceInv, [Next]_vars
             PROVE  Service!Next \/ UNCHANGED Service!vars
  OBVIOUS
<1>1. CASE ((Select \/ ScanSkip \/ ScanEnd \/ Client) /\ UNCHANGED failures) \/ UNCHANGED vars
  <2>1. /\ UNCHANGED <<mapUser, user_list, fd_table, env_map, user_pipe_bool, conn, wrote>>
        /\ UNCHANGED failures /\ cli \in [Clients -> States]
    BY <1>1 DEF Select, ScanSkip, ScanEnd, Client, Connect, HangUp, Type, server, net, users,
                session, upipes, vars, ServiceInv, SessionInv, TablesInv, TablesType, NetType
  <2>2. Online' = Online
    BY <1>1, <2>1 DEF Select, ScanSkip, ScanEnd, Client, Connect, HangUp, Type, net, vars,
                      Online
  <2>3. Sessions' = Sessions
    BY <2>1, <2>2, QuietView
  <2>4. PipesOf(user_pipe_bool)' = PipesOf(user_pipe_bool)
    BY <2>1 DEF PipesOf
  <2> QED BY <2>1, <2>3, <2>4 DEF Service!vars
<1>2. CASE Accept /\ UNCHANGED failures
  BY <1>2, AcceptService
<1>3. CASE Builtin /\ UNCHANGED failures
  BY <1>3, ExitService, EmptyService, YellService, NameRefusedService, NameService, WhoService,
     TellService, SetenvService, PrintenvService DEF Builtin
<1>4. CASE Pipeline
  BY <1>4, RunService
<1> QED BY <1>1, <1>2, <1>3, <1>4 DEF Next, Server

LEMMA StartService == Init => Service!Init
<1> SUFFICES ASSUME Init PROVE Service!Init
  OBVIOUS
<1>1. Online = {}
  BY DEF Init, Online
<1>2. Sessions = [c \in Clients |-> [id |-> 0]]
  BY <1>1 DEF Sessions, SessionOf
<1>3. \A s, r \in UID : ~user_pipe_bool[s][r]
  BY IDsApart DEF Init
<1>4. PipesOf(user_pipe_bool) = {}
  BY <1>3 DEF PipesOf
<1>5. wrote = <<>> /\ failures = 0
  BY DEF Init
<1> QED BY <1>2, <1>4, <1>5 DEF Service!Init, Service!Absent

(* np_single_proc implements the service for users whose lines are those of *)
(* Promised: whatever the clients do, however select(), accept() and the    *)
(* scan interleave and wherever fork() fails, what users are told, the IDs  *)
(* they get and the pipes and environments they find are those of the       *)
(* service.                                                                 *)
THEOREM ServiceCorrect ==
  ASSUME MaxOnline <= MaxID, Promised PROVE Spec => ServiceSpec
<1>1. Init => ServiceInv /\ Service!Init
  BY InitService, StartService
<1>2. ServiceInv /\ [Next]_vars => ServiceInv' /\ [Service!Next]_(Service!vars)
  BY NextService, StepService
<1> QED BY <1>1, <1>2, PTL DEF Spec, ServiceSpec, Service!Spec
=============================================================================
