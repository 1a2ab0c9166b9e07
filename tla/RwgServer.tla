----------------------------- MODULE RwgServer -----------------------------
(***************************************************************************)
(* The single-process remote working group server,                         *)
(* src/Project2/np_single_proc.cpp: the select() loop of main(), the       *)
(* tables that tie sockets, user IDs and sessions together, and what       *)
(* shell() does to them for every built-in and for the user pipes and      *)
(* number pipes of a pipeline.  One iteration of the loop over user_fds    *)
(* (shell() included) is one step: the process is single-threaded, and     *)
(* clients only add to the sockets' queues meanwhile.  What the commands   *)
(* of a pipeline do with their file descriptors is left out; they are      *)
(* taken to end while shell() waits for them, unless a failed fork() has   *)
(* left the write end of their own pipe with them (RunStops).              *)
(***************************************************************************)
EXTENDS RwgTypes, FiniteSetsExt

CONSTANTS
  MaxOnline,   \* connections clients hold at once (the project says 30)
  Fds,         \* descriptors accept() may return
  SockFd,      \* the listening socket
  Garbage,     \* what the uninitialised max_fd of main() may hold
  MaxLines,    \* bound: command lines typed in a behaviour
  Hangups,     \* whether clients may disconnect without exit
  ForkFailures \* bound: failures of fork() in a behaviour

ASSUME FdAssumption ==
  /\ SockFd \in Nat /\ Fds \subseteq Nat /\ SockFd \notin Fds
  /\ Garbage \subseteq Int /\ Garbage # {}
  /\ MaxOnline \in Nat /\ MaxLines \in Nat /\ Hangups \in BOOLEAN
  /\ ForkFailures \in Nat

VARIABLES
  \* the server's memory
  alive,                        \* FALSE once the process has died or waits for good
  pc, ready, i,                 \* where main() is: read_fds and the scan of user_fds
  max_fd, user_fds, mapUser, user_list, fd_table, vecUserNames,
  instr_cnt, NP_sender_map, NP_receiver_map, env_map,
  user_pipe_bool, user_pipe_table,
  \* the sockets
  conn,                         \* the client at the other end of an open descriptor
  backlog,                      \* connections not yet accepted
  inbox,                        \* the line waiting in a client's socket
  cli,                          \* how far a client's connection has come
  typed,                        \* lines typed so far
  wrote,                        \* what the last handler had to write
  failures                      \* failures of fork() so far

loop    == <<pc, ready, i>>
users   == <<user_fds, mapUser, user_list, fd_table, vecUserNames>>
session == <<instr_cnt, NP_sender_map, NP_receiver_map, env_map>>
upipes  == <<user_pipe_bool, user_pipe_table>>
net     == <<conn, backlog, inbox, cli, typed>>
vars    == <<alive, loop, max_fd, users, session, upipes, net, wrote, failures>>

-----------------------------------------------------------------------------
(* Tables and their initial contents. *)

NoUser == [ID |-> None, nickname |-> NoName, addr |-> NoClient]
User   == [ID : ID, nickname : Names \cup {NoName}, addr : Clients]

Pipe   == [from : Clients, to : Clients]       \* the sessions a user pipe joins
NoPipe == [from |-> NoClient, to |-> NoClient]
NumberPipe == [by : Clients, line : Nat]       \* who made it, for which line

States == {"new", "waiting", "online", "closed", "reset", "left"}

Init ==
  /\ alive = TRUE /\ pc = "select" /\ ready = {} /\ i = 1
  /\ max_fd \in Garbage
  /\ user_fds = <<>>
  /\ mapUser = [fd \in Fds |-> NoUser]
  /\ user_list = [n \in ID |-> n = 0]
  /\ fd_table = [n \in ID |-> -1]
  /\ vecUserNames = [n \in ID |-> NoName]
  /\ instr_cnt = [n \in ID |-> 0]
  /\ NP_sender_map = [n \in ID |-> {}]
  /\ NP_receiver_map = [n \in ID |-> {}]
  /\ env_map = [n \in ID |-> InitialEnv]
  /\ user_pipe_bool = [s \in ID |-> [r \in ID |-> FALSE]]
  /\ user_pipe_table = [s \in ID |-> [r \in ID |-> NoPipe]]
  /\ conn = [fd \in Fds |-> NoClient]
  /\ backlog = <<>>
  /\ inbox = [c \in Clients |-> NoLine]
  /\ cli = [c \in Clients |-> "new"]
  /\ typed = 0 /\ wrote = <<>> /\ failures = 0

-----------------------------------------------------------------------------
(* The clients. *)

Online == {c \in Clients : cli[c] \in {"online", "closed", "reset"}}

server == <<alive, loop, max_fd, users, session, upipes, wrote>>

Connect(c) ==
  /\ cli[c] = "new"
  /\ Cardinality({d \in Clients : cli[d] = "waiting"} \cup Online) < MaxOnline
  /\ cli' = [cli EXCEPT ![c] = "waiting"]
  /\ backlog' = Append(backlog, c)
  /\ UNCHANGED <<server, conn, inbox, typed>>

(* A user types the next line once the server has read the last one. *)
Type(c, l) ==
  /\ cli[c] = "online" /\ inbox[c] = NoLine /\ typed < MaxLines
  /\ inbox' = [inbox EXCEPT ![c] = l]
  /\ typed' = typed + 1
  /\ UNCHANGED <<server, conn, backlog, cli>>

(* The client goes without exit: its FIN reaches the server, or an RST. *)
HangUp(c) ==
  /\ Hangups /\ cli[c] = "online"
  /\ \E s \in {"closed", "reset"} : cli' = [cli EXCEPT ![c] = s]
  /\ UNCHANGED <<server, conn, backlog, inbox, typed>>

-----------------------------------------------------------------------------
(* Slips of the kind this code invites.  Each replaces the definition named   *)
(* beside it to see that a property notices; none is part of the model.       *)

ListedButLast ==                           \* Listed: the loop ends at 29
  {c \in Clients : \E n \in 1 .. MaxID - 1 :
     user_list[n] /\ fd_table[n] \in Fds /\ conn[fd_table[n]] = c}

IDsByCount == {Len(user_fds) + 1}          \* NewIDs: the number of users, plus 1

NoLoopTop == max_fd                        \* LoopTop: no floor

Registered == Range(user_fds)              \* Readable: the set given to select()

EraseNext(s, k) == SubSeq(s, 1, k) \o SubSeq(s, k + 2, Len(s))   \* Erase: off by one

ResetMax(fds) == -1                        \* MaxOf: reset, not recomputed

KeepFd(n, fd) ==                           \* UserLeaves: fd_table not cleared
  /\ user_list' = [user_list EXCEPT ![n] = FALSE]
  /\ vecUserNames' = [vecUserNames EXCEPT ![n] = NoName]
  /\ mapUser' = [mapUser EXCEPT ![fd] = NoUser]
  /\ UNCHANGED fd_table

SentPipes(n) == [user_pipe_bool EXCEPT ![n] = [r \in ID |-> FALSE]]  \* ClearUserPipes: [n][i]

SwappedEnds ==                             \* NewPipe: ends swapped
  LET fd == user_fds[i] IN
  [from |-> conn[fd_table[inbox[conn[fd]].out]], to |-> conn[fd]]

Keep(n, cnt, snd, rcv, env) ==             \* SessionEnds: one table not cleared
  /\ instr_cnt' = [instr_cnt EXCEPT ![n] = cnt]
  /\ NP_sender_map' = [NP_sender_map EXCEPT ![n] = snd]
  /\ NP_receiver_map' = [NP_receiver_map EXCEPT ![n] = rcv]
  /\ env_map' = [env_map EXCEPT ![n] = env]
ToMinusOne(n)   == Keep(n, -1, {}, {}, InitialEnv)
KeepReceiver(n) == Keep(n, 0, {}, NP_receiver_map[n], InitialEnv)
KeepEnv(n)      == Keep(n, 0, {}, {}, env_map[n])

OneLineLate(n, num) ==                     \* Reader: counted from the next line
  instr_cnt[n] + 1 + num

LaterNames(name) ==                        \* NameExists: only the IDs above the user's
  \E n \in ID : n > mapUser[user_fds[i]].ID /\ vecUserNames[n] = name

-----------------------------------------------------------------------------
(* write() on sockets. *)

At(fds)  == {c \in Clients : \E fd \in fds \cap Fds : conn[fd] = c}
Everyone == At(Range(user_fds))
Listed == At({fd_table[n] : n \in {m \in UID : user_list[m]}})

Writes(ms, c) == Cardinality({k \in DOMAIN ms : c \in ms[k].to})

(* The first write to a closed peer is answered by an RST; once that is    *)
(* here the next write raises SIGPIPE, which the server does not handle.   *)
MayBreak(ms, c) ==
  \/ cli[c] = "reset"  /\ Writes(ms, c) >= 1
  \/ cli[c] = "closed" /\ Writes(ms, c) >= 2

Written(st, ms) ==
  [c \in Clients |-> IF st[c] = "closed" /\ Writes(ms, c) >= 1
                       THEN "reset" ELSE st[c]]

Deliver(ms, st) == wrote' = ms /\ cli' = Written(st, ms)

Send(ms, st) ==
  /\ Deliver(ms, st)
  /\ alive' \in IF \E c \in Clients : MayBreak(ms, c) THEN BOOLEAN ELSE {TRUE}

-----------------------------------------------------------------------------
(* main(): accept() and select(). *)

Free == {n \in UID : ~user_list[n]}

(* The smallest free ID; with none free u.ID keeps whatever its stack slot  *)
(* holds, the ID of an earlier user or 0.                                   *)
NewIDs == IF Free = {} THEN ID ELSE {Min(Free)}

(* max_fd is raised at the top of every round of the loop. *)
LoopTop == IF max_fd < SockFd THEN SockFd ELSE max_fd

Greeting(c, everyone) ==
  <<Msg("welcome", {c}, <<>>), Msg("entered", everyone, <<c>>), Prompt(c)>>

Accept ==
  /\ alive /\ pc = "select" /\ backlog # <<>> /\ SockFd <= LoopTop
  /\ \E fd \in {f \in Fds : conn[f] = NoClient}, n \in NewIDs :
       LET c == Head(backlog) IN
       /\ max_fd' = IF fd > LoopTop THEN fd ELSE LoopTop
       /\ user_fds' = Append(user_fds, fd)
       /\ user_list' = [user_list EXCEPT ![n] = (Free # {}) \/ @]
       /\ mapUser' = [mapUser EXCEPT ![fd] =
                        [ID |-> n, nickname |-> NoName, addr |-> c]]
       /\ fd_table' = [fd_table EXCEPT ![n] = fd]
       /\ conn' = [conn EXCEPT ![fd] = c]
       /\ backlog' = Tail(backlog)
       /\ Send(Greeting(c, Everyone \cup {c}), [cli EXCEPT ![c] = "online"])
  /\ UNCHANGED <<loop, vecUserNames, session, upipes, inbox, typed>>

HasInput(c) == inbox[c] # NoLine \/ cli[c] \in {"closed", "reset"}

Readable == {fd \in Range(user_fds) : fd <= LoopTop /\ HasInput(conn[fd])}

Select ==
  /\ alive /\ pc = "select" /\ backlog = <<>> /\ Readable # {}
  /\ max_fd' = LoopTop
  /\ ready' = Readable
  /\ pc' = "scan" /\ i' = 1
  /\ UNCHANGED <<alive, users, session, upipes, net, wrote>>

ScanSkip ==
  /\ alive /\ pc = "scan" /\ i <= Len(user_fds) /\ user_fds[i] \notin ready
  /\ i' = i + 1
  /\ UNCHANGED <<alive, pc, ready, max_fd, users, session, upipes, net, wrote>>

ScanEnd ==
  /\ alive /\ pc = "scan" /\ i > Len(user_fds)
  /\ pc' = "select" /\ ready' = {} /\ i' = 1
  /\ UNCHANGED <<alive, max_fd, users, session, upipes, net, wrote>>

-----------------------------------------------------------------------------
(* shell(): the line the scan reads, the user it belongs to, and what every *)
(* handler ends with.                                                       *)

sender_fd == user_fds[i]
me        == conn[sender_fd]
user_id   == mapUser[sender_fd].ID
nickname  == mapUser[sender_fd].nickname
Received  == IF inbox[me] = NoLine THEN EmptyLine ELSE inbox[me]

Handling(op) ==
  /\ alive /\ pc = "scan" /\ i <= Len(user_fds) /\ sender_fd \in ready
  /\ Received.op = op

(* The socket is read and the loop over user_fds goes on. *)
Next_i ==
  /\ inbox' = [inbox EXCEPT ![me] = NoLine]
  /\ i' = i + 1
  /\ UNCHANGED <<pc, backlog, typed>>

(* A handler that keeps the connection, and one the process never leaves. *)
Handled == Next_i /\ UNCHANGED <<ready, max_fd, user_fds, conn>>

Reply(ms) == Send(Append(ms, Prompt(me)), cli) /\ Handled

Stop(ms) == Deliver(ms, cli) /\ alive' = FALSE /\ Handled

Position(s, x) == CHOOSE k \in DOMAIN s : s[k] = x /\ \A j \in 1 .. k - 1 : s[j] # x
Erase(s, k)    == SubSeq(s, 1, k - 1) \o SubSeq(s, k + 1, Len(s))

MaxOf(fds) == Max(Range(fds) \cup {-1})

UserLeaves(n, fd) ==
  /\ user_list' = [user_list EXCEPT ![n] = FALSE]
  /\ fd_table' = [fd_table EXCEPT ![n] = -1]
  /\ vecUserNames' = [vecUserNames EXCEPT ![n] = NoName]
  /\ mapUser' = [mapUser EXCEPT ![fd] = NoUser]

SessionEnds(n) ==
  /\ instr_cnt' = [instr_cnt EXCEPT ![n] = 0]
  /\ NP_sender_map' = [NP_sender_map EXCEPT ![n] = {}]
  /\ NP_receiver_map' = [NP_receiver_map EXCEPT ![n] = {}]
  /\ env_map' = [env_map EXCEPT ![n] = InitialEnv]

(* Only the pipes to the user are cleared, not those it sends. *)
ClearUserPipes(n) == [s \in ID |-> [user_pipe_bool[s] EXCEPT ![n] = FALSE]]

Exit ==
  /\ Handling("exit")
  /\ user_fds' = Erase(user_fds, Position(user_fds, sender_fd))
  /\ max_fd' = IF max_fd = sender_fd THEN MaxOf(user_fds') ELSE max_fd
  /\ ready' = ready \ {sender_fd}
  /\ conn' = [conn EXCEPT ![sender_fd] = NoClient]
  /\ UserLeaves(user_id, sender_fd)
  /\ SessionEnds(user_id)
  /\ user_pipe_bool' = ClearUserPipes(user_id)
  /\ Send(<<Msg("left", At(Range(user_fds')), <<nickname>>)>>,
          [cli EXCEPT ![me] = "left"])
  /\ Next_i
  /\ UNCHANGED user_pipe_table

Empty ==
  /\ Handling("empty")
  /\ Reply(<<>>)
  /\ UNCHANGED <<mapUser, user_list, fd_table, vecUserNames, session, upipes>>

Yell ==
  /\ Handling("yell")
  /\ Reply(<<Msg("yelled", Everyone, <<nickname>>)>>)
  /\ UNCHANGED <<mapUser, user_list, fd_table, vecUserNames, session, upipes>>

NameExists(name) == \E n \in ID : vecUserNames[n] = name

NameRefused ==
  /\ Handling("name") /\ NameExists(Received.name)
  /\ Reply(<<Msg("name exists", {me}, <<Received.name>>)>>)
  /\ UNCHANGED <<mapUser, user_list, fd_table, vecUserNames, session, upipes>>

Name ==
  /\ Handling("name") /\ ~NameExists(Received.name)
  /\ vecUserNames' = [vecUserNames EXCEPT ![user_id] = Received.name]
  /\ mapUser' = [mapUser EXCEPT ![sender_fd].nickname = Received.name]
  /\ Reply(<<Msg("named", Everyone, <<me, Received.name>>)>>)
  /\ UNCHANGED <<user_list, fd_table, session, upipes>>

WhoTable ==
  {<<n, mapUser[fd_table[n]].nickname, mapUser[fd_table[n]].addr,
     fd_table[n] = sender_fd>> : n \in {m \in UID : fd_table[m] # -1}}

Who ==
  /\ Handling("who")
  /\ Reply(<<Msg("users", {me}, WhoTable)>>)
  /\ UNCHANGED <<mapUser, user_list, fd_table, vecUserNames, session, upipes>>

(* user_list[0] is TRUE and fd_table[0] is -1: tell 0 writes to nobody. *)
Tell ==
  /\ Handling("tell") /\ user_list[Received.to]
  /\ Reply(<<Msg("told", At({fd_table[Received.to]}), <<nickname>>)>>)
  /\ UNCHANGED <<mapUser, user_list, fd_table, vecUserNames, session, upipes>>

TellNobody ==
  /\ Handling("tell") /\ ~user_list[Received.to]
  /\ Reply(<<Msg("no user", {me}, <<Received.to>>)>>)
  /\ UNCHANGED <<mapUser, user_list, fd_table, vecUserNames, session, upipes>>

(* setenv changes a variable that is in the map and adds none. *)
SetIn(env, var, val) == IF env[var] # Unset THEN [env EXCEPT ![var] = val] ELSE env

Setenv ==
  /\ Handling("setenv")
  /\ env_map' = [env_map EXCEPT ![user_id] = SetIn(@, Received.var, Received.val)]
  /\ Reply(<<>>)
  /\ UNCHANGED <<mapUser, user_list, fd_table, vecUserNames, instr_cnt,
                 NP_sender_map, NP_receiver_map, upipes>>

Printenv ==
  /\ Handling("printenv")
  /\ LET val == env_map[user_id][Received.var] IN
     Reply(IF val = Unset THEN <<>> ELSE <<Msg("value", {me}, <<Received.var, val>>)>>)
  /\ UNCHANGED <<mapUser, user_list, fd_table, vecUserNames, session, upipes>>

-----------------------------------------------------------------------------
(* shell(): pipelines.                                                      *)

(* The last stage of ... |N takes the pipe already made for line cnt + N,   *)
(* or makes it; map::insert keeps an entry that is there.                   *)
Insert(m, key, p) == IF \E q \in m : q[1] = key THEN m ELSE m \cup {<<key, p>>}

Reader(n, num) == instr_cnt[n] + num          \* the line that is to read

Target(n, num) ==
  LET known == {q \in NP_receiver_map[n] : q[1] = Reader(n, num)}
  IN  IF known = {} THEN [by |-> me, line |-> Reader(n, num)]
      ELSE (CHOOSE q \in known : TRUE)[2]

NPInsert(n, num) ==
  IF num = 0 THEN UNCHANGED <<NP_sender_map, NP_receiver_map>>
  ELSE /\ NP_sender_map' = [NP_sender_map EXCEPT ![n] =
                              Insert(@, instr_cnt[n], Target(n, num))]
       /\ NP_receiver_map' = [NP_receiver_map EXCEPT ![n] =
                              Insert(@, Reader(n, num), Target(n, num))]

(* <in: what the check says, the broadcast of success, and the consumption  *)
(* after the first command has been forked.                                 *)
InputError ==
  LET in == Received.in IN
  IF in = None THEN "none"
  ELSE IF ~user_list[in] THEN "no user"
  ELSE IF ~user_pipe_bool[in][user_id] THEN "no pipe"
  ELSE "none"

ReceivedMsg(tries) ==
  IF Received.in = None THEN <<>>
  ELSE [k \in 1 .. tries |-> Msg("received", Listed,
          <<nickname, user_id, mapUser[fd_table[Received.in]].nickname, Received.in>>)]

Consumed == IF Received.in = None THEN user_pipe_bool
            ELSE [user_pipe_bool EXCEPT ![Received.in][user_id] = FALSE]

(* >out is checked before the first fork of a one-stage line and after it   *)
(* in a two-stage line.                                                     *)
Seen == IF Received.stages = 1 THEN user_pipe_bool ELSE Consumed

OutputError ==
  LET out == Received.out IN
  IF out = None THEN "none"
  ELSE IF ~user_list[out] THEN "no user"
  ELSE IF Seen[user_id][out] THEN "pipe exists"
  ELSE "none"

PipedMsg ==
  IF Received.out = None THEN <<>>
  ELSE <<Msg("piped", Listed,
             <<nickname, user_id, mapUser[fd_table[Received.out]].nickname, Received.out>>)>>

OpenedIn(bools) == IF Received.out = None THEN bools
                   ELSE [bools EXCEPT ![user_id][Received.out] = TRUE]

NewPipe == [from |-> me, to |-> conn[fd_table[Received.out]]]

PipeRecorded ==
  user_pipe_table' = IF Received.out = None THEN user_pipe_table
                     ELSE [user_pipe_table EXCEPT ![user_id][Received.out] = NewPipe]

(* Early return of a bad <in: a one-stage line has already entered its      *)
(* number pipe, and the line counter stays.                                 *)
RunInputError ==
  /\ Handling("run") /\ InputError # "none"
  /\ NPInsert(user_id, IF Received.stages = 1 THEN Received.num ELSE 0)
  /\ Reply(<<Msg(InputError, {me}, <<Received.in, user_id>>)>>)
  /\ UNCHANGED <<mapUser, user_list, fd_table, vecUserNames, instr_cnt, env_map, upipes,
                 failures>>

(* When fork() fails, pipe_table loses its last element and the stage is    *)
(* tried again, with all its checks and announcements.  f failures are in a *)
(* stage before the last, g in the last; the checks of <in are made in the  *)
(* first stage.                                                             *)
Fails(f, g) ==
  /\ Received.stages = 1 => f = 0
  /\ failures' = failures + f + g /\ failures' <= ForkFailures

Some == 0 .. ForkFailures

(* Early return of a bad >out, in the last stage: <in has been announced,   *)
(* and consumed only when its command was forked before; the number pipe    *)
(* has been entered.                                                        *)
RunOutputError ==
  /\ Handling("run") /\ InputError = "none" /\ OutputError # "none"
  /\ NPInsert(user_id, Received.num)
  /\ user_pipe_bool' = Seen
  /\ \E f \in Some :
       /\ Fails(f, 0)
       /\ Reply(Append(ReceivedMsg(1 + f), Msg(OutputError, {me}, <<user_id, Received.out>>)))
  /\ UNCHANGED <<mapUser, user_list, fd_table, vecUserNames, instr_cnt, env_map,
                 user_pipe_table>>

Started == Handling("run") /\ InputError = "none" /\ OutputError = "none"

(* The last fork() of a line of two stages may fail once: the pipe that is  *)
(* taken off pipe_table stays open, and the memory still has its numbers.   *)
Run ==
  /\ Started
  /\ NPInsert(user_id, Received.num)
  /\ user_pipe_bool' = OpenedIn(Consumed) /\ PipeRecorded
  /\ instr_cnt' = [instr_cnt EXCEPT ![user_id] = @ + 1]
  /\ \E f, g \in Some :
       /\ Fails(f, g)
       /\ g < Received.stages /\ (Received.out # None => g = 0)
       /\ Reply(ReceivedMsg(1 + f) \o PipedMsg)
  /\ UNCHANGED <<mapUser, user_list, fd_table, vecUserNames, env_map>>

(* A last stage that is tried again finds the user pipe it has made itself, *)
(* and returns.                                                             *)
RunRetried ==
  /\ Started /\ Received.out # None
  /\ NPInsert(user_id, Received.num)
  /\ user_pipe_bool' = OpenedIn(Seen) /\ PipeRecorded
  /\ \E f \in Some :
       /\ Fails(f, 1)
       /\ Reply((ReceivedMsg(1 + f) \o PipedMsg)
                \o Append(ReceivedMsg(IF Received.stages = 1 THEN 1 ELSE 0),
                          Msg("pipe exists", {me}, <<user_id, Received.out>>)))
  /\ UNCHANGED <<mapUser, user_list, fd_table, vecUserNames, instr_cnt, env_map>>

(* pop_back() of an empty pipe_table makes its size wrap around: the loop   *)
(* that releases the pipes runs off it, and the server crashes.  With one   *)
(* failure less the command may read the pipe whose write end it has, and   *)
(* the server waits for it.                                                 *)
RunStops ==
  /\ Started /\ Received.out = None
  /\ NPInsert(user_id, Received.num)
  /\ user_pipe_bool' = Consumed
  /\ \E f, g \in Some :
       /\ Fails(f, g)
       /\ g >= Received.stages \/ (g = 1 /\ Received.num = 0)
       /\ Stop(ReceivedMsg(1 + IF Received.stages = 1 THEN g ELSE f))
  /\ UNCHANGED <<mapUser, user_list, fd_table, vecUserNames, instr_cnt, env_map,
                 user_pipe_table>>

-----------------------------------------------------------------------------
Builtin == \/ Exit \/ Empty \/ Yell \/ NameRefused \/ Name \/ Who \/ Tell \/ TellNobody
           \/ Setenv \/ Printenv

Pipeline == RunInputError \/ RunOutputError \/ Run \/ RunRetried \/ RunStops

Server == \/ (Accept \/ Select \/ ScanSkip \/ ScanEnd \/ Builtin) /\ UNCHANGED failures
          \/ Pipeline

Client == \E c \in Clients : Connect(c) \/ HangUp(c) \/ \E l \in Lines : Type(c, l)

Next == Server \/ (Client /\ UNCHANGED failures)

Spec == Init /\ [][Next]_vars

(* The process is never descheduled for good; users need not type.          *)
FairSpec == Spec /\ WF_vars(Server)

-----------------------------------------------------------------------------
(* What holds of the tables. *)

LoggedIn == {fd \in Fds : mapUser[fd] # NoUser}

(* Every variable stays within its type. *)
LoopType ==
  /\ alive \in BOOLEAN /\ pc \in {"select", "scan"}
  /\ ready \subseteq Fds /\ i \in Nat \ {0} /\ max_fd \in Int

UsersType ==
  /\ user_fds \in Seq(Fds)
  /\ mapUser \in [Fds -> User \cup {NoUser}]
  /\ user_list \in [ID -> BOOLEAN]
  /\ fd_table \in [ID -> Fds \cup {-1}]
  /\ vecUserNames \in [ID -> Names \cup {NoName}]

SessionType ==
  /\ instr_cnt \in [ID -> Nat]
  /\ NP_sender_map \in [ID -> SUBSET (Nat \X NumberPipe)]
  /\ NP_receiver_map \in [ID -> SUBSET (Nat \X NumberPipe)]
  /\ env_map \in [ID -> [EnvVars -> Values \cup {Unset}]]

PipesType ==
  /\ user_pipe_bool \in [ID -> [ID -> BOOLEAN]]
  /\ user_pipe_table \in [ID -> [ID -> Pipe \cup {NoPipe}]]

NetType ==
  /\ conn \in [Fds -> Clients \cup {NoClient}]
  /\ backlog \in Seq(Clients)
  /\ inbox \in [Clients -> LineType \cup {NoLine}]
  /\ cli \in [Clients -> States] /\ typed \in Nat

TablesType == LoopType /\ UsersType /\ SessionType /\ PipesType /\ NetType

TypeOK == TablesType /\ failures \in 0 .. ForkFailures

(* The slots of the ID tables agree with each other and with mapUser: an ID *)
(* is in use exactly when it has a descriptor, and that descriptor is the   *)
(* open socket of a user with that ID.  who and the user-pipe broadcasts    *)
(* dereference mapUser.find(fd_table[i]) unchecked; this also holds when    *)
(* more users connect than there are IDs.                                   *)
SlotsAgree ==
  \A n \in UID :
    /\ user_list[n] <=> fd_table[n] # -1
    /\ user_list[n] => fd_table[n] \in LoggedIn /\ mapUser[fd_table[n]].ID = n

(* The watched sockets are the open ones, each once and each of a different *)
(* client that has logged in and not left, and mapUser has an entry for     *)
(* each of them and for nothing else.                                       *)
FdsAgree ==
  /\ \A j, k \in DOMAIN user_fds : user_fds[j] = user_fds[k] => j = k
  /\ Range(user_fds) = LoggedIn
  /\ \A fd \in Fds : mapUser[fd].addr = conn[fd]
  /\ \A fd, gd \in LoggedIn : conn[fd] = conn[gd] => fd = gd
  /\ Online = {conn[fd] : fd \in LoggedIn}

(* With no more users than IDs, the way from a socket to its ID and back    *)
(* returns to the socket: nobody shares or loses an ID.                     *)
UserFindsSlot ==
  \A fd \in LoggedIn : /\ mapUser[fd].ID \in UID
                        /\ fd_table[mapUser[fd].ID] = fd

(* The names used to refuse a name are the nicknames of the users that are  *)
(* online, so no two of them share one; the name of a user that left is     *)
(* free again.                                                              *)
NamesDistinct ==
  /\ \A fd \in LoggedIn : vecUserNames[mapUser[fd].ID] = mapUser[fd].nickname
  /\ \A m, n \in ID : vecUserNames[m] = vecUserNames[n] /\ m # n
                       => vecUserNames[m] = NoName

(* An ID nobody holds carries nothing over to its next user: no name, line  *)
(* counter, number pipe, environment or waiting user pipe.                  *)
SlotsClean ==
  \A n \in UID : ~user_list[n] =>
    /\ vecUserNames[n] = NoName /\ instr_cnt[n] = 0
    /\ NP_sender_map[n] = {} /\ NP_receiver_map[n] = {}
    /\ env_map[n] = InitialEnv
    /\ \A s \in ID : ~user_pipe_bool[s][n]

(* A user pipe that exists was opened to the very session that holds its    *)
(* receiver's ID now: a newcomer with a reused ID never reads what was      *)
(* piped to somebody else.                                                  *)
PipeReceiverIsHolder ==
  \A s \in ID, r \in UID : user_pipe_bool[s][r] =>
    user_list[r] /\ user_pipe_table[s][r].to = conn[fd_table[r]]

(* The number pipes an ID's maps hold were made by the session that holds   *)
(* the ID now; a line writes to one of them at most and reads one at most,  *)
(* and the pipe a line writes to is one that a later line reads.  This      *)
(* holds through lines refused after they have entered a number pipe.       *)
NumberPipesAreOwn ==
  \A n \in UID :
    /\ \A q \in NP_sender_map[n] \cup NP_receiver_map[n] :
         user_list[n] /\ q[2].by = conn[fd_table[n]]
    /\ \A q, r \in NP_sender_map[n] : q[1] = r[1] => q = r
    /\ \A q, r \in NP_receiver_map[n] : q[1] = r[1] => q = r
    /\ \A q \in NP_sender_map[n] : \E r \in NP_receiver_map[n] :
         r[2] = q[2] /\ r[1] > q[1]

(* select() looks at every user's socket: none lies beyond max_fd, however  *)
(* users come and go and whatever max_fd started with.                      *)
MaxFdCovers == \A fd \in LoggedIn : fd <= LoopTop

(* A socket select() found readable still is when the scan comes to it, so  *)
(* no read() blocks the server although other handlers ran in between.      *)
ReadyIsReadable ==
  pc = "scan" =>
    \A k \in i .. Len(user_fds) : user_fds[k] \in ready => HasInput(conn[user_fds[k]])

-----------------------------------------------------------------------------
(* What users are told. *)

Broadcasts == {"entered", "left", "yelled", "named", "received", "piped"}

(* A broadcast, whether its loop runs over user_fds or over the ID tables,  *)
(* goes to everybody who is online, unless the process dies on the way.     *)
BroadcastReachesAll ==
  alive => \A k \in DOMAIN wrote : wrote[k].msg \in Broadcasts => wrote[k].to = Online

(* When a line ...|N is done, the pipe its last command writes to is the    *)
(* one that the N-th line after it will read, and from then on until the    *)
(* session ends neither map gives another pipe to a line that has one.      *)
(* Only a line refused before under the same number makes a difference: it  *)
(* may have entered a pipe, and that is the pipe the next line writes to,   *)
(* whatever its own N says.                                                 *)
Entry(m, line) == {q[2] : q \in {r \in m : r[1] = line}}

NumberPipeTarget ==
  [][\A n \in UID :
       /\ instr_cnt[n]' = instr_cnt[n] + 1 /\ Received.num > 0 =>
            LET before == Entry(NP_sender_map[n], instr_cnt[n])
                writes == Entry(NP_sender_map'[n], instr_cnt[n])
                reads  == Entry(NP_receiver_map'[n], instr_cnt[n] + Received.num)
            IN  writes # {} /\ writes = IF before = {} THEN reads ELSE before
       /\ user_list[n] /\ user_list'[n] =>
            /\ NP_sender_map[n] \subseteq NP_sender_map'[n]
            /\ NP_receiver_map[n] \subseteq NP_receiver_map'[n]]_vars

(* Whatever a user typed is read and answered, although the erasure of a    *)
(* leaving user makes the scan skip its neighbour and new connections come  *)
(* first, as long as no failed fork() has stopped the server: a line that   *)
(* waits does not wait for ever.                                            *)
LineServed == \A c \in Clients : []<>(inbox[c] = NoLine \/ ~alive)

(* Every connection is accepted: none waits for ever. *)
ConnectionAccepted == \A c \in Clients : []<>(cli[c] # "waiting" \/ ~alive)

(* A client that hangs up is taken off the tables. *)
DisconnectedUserLeaves ==
  \A c \in Clients : cli[c] \in {"closed", "reset"} ~> c \notin Online

-----------------------------------------------------------------------------
(* The server implements the service: a client's session is found through   *)
(* its socket and ID, a user pipe waits for the client that holds the       *)
(* receiver's ID.                                                           *)
SessionOf(c) ==
  LET fd == CHOOSE f \in Fds : conn[f] = c
      n  == mapUser[fd].ID
  IN  IF c \in Online
      THEN [id |-> n, name |-> mapUser[fd].nickname, env |-> env_map[n]]
      ELSE [id |-> 0]

Sessions == [c \in Clients |-> SessionOf(c)]

(* The user pipes of a table, each by the ID that sends and the client that *)
(* holds the ID it is for.                                                  *)
PipesOf(table) ==
  {<<p[1], conn[fd_table[p[2]]]>> : p \in {q \in UID \X UID : table[q[1]][q[2]]}}

Service ==
  INSTANCE RwgService WITH
    session <- Sessions, pipes <- PipesOf(user_pipe_bool), mail <- wrote

ServiceSpec == Service!Spec

(* Lines for which the code keeps the promise: nobody is #0, but tell 0 is  *)
(* not refused and <0 finds no pipe where there is no user; and setenv      *)
(* changes a variable that is in the map, which has PATH alone.             *)
Promised ==
  \A l \in Lines :
    /\ l.op = "tell" => l.to # 0
    /\ l.op = "run" => l.in # 0
    /\ l.op = "setenv" => l.var = PATH
=============================================================================
