-------------------------- MODULE RwgServer_proofs --------------------------
(***************************************************************************)
(* Proofs about RwgServer for every set of clients and descriptors, every  *)
(* number of IDs and every set of command lines.                           *)
(*                                                                         *)
(* The first part is about the tables and holds for any number of users.   *)
(* The second is about sessions: while no more clients are connected than  *)
(* there are IDs (MaxOnline <= MaxID; the project allows 30 users and the  *)
(* tables have 30 IDs), an ID, its name, its environment and its pipes     *)
(* belong to the client that holds it now, and to nobody else.             *)
(***************************************************************************)
EXTENDS RwgServer, DataFacts, FiniteSetTheorems

Connected == {"online", "closed", "reset"}

(* Waiting connections are distinct and have not been accepted.             *)
BacklogOK ==
  /\ \A k \in DOMAIN backlog : cli[backlog[k]] = "waiting"
  /\ \A j, k \in DOMAIN backlog : backlog[j] = backlog[k] => j = k

TablesInv == TablesType /\ FdsAgree /\ SlotsAgree /\ MaxFdCovers /\ BacklogOK

-----------------------------------------------------------------------------
(* Lemmas about the operators.                                              *)

(* A write leaves a connection where its handler put it, or broken.         *)
LEMMA SendFacts ==
  ASSUME NEW ms, NEW st \in [Clients -> States], Deliver(ms, st)
  PROVE  /\ cli' \in [Clients -> States]
         /\ \A c \in Clients : cli'[c] \in Connected <=> st[c] \in Connected
         /\ \A c \in Clients : cli'[c] = "waiting" <=> st[c] = "waiting"
BY DEF Deliver, Written, States, Connected

(* A logged-in descriptor has a user entry and a client.                    *)
LEMMA LoggedInFacts ==
  ASSUME TablesType, FdsAgree, NEW fd \in LoggedIn
  PROVE  /\ fd \in Fds /\ mapUser[fd] \in User /\ conn[fd] \in Clients
         /\ cli[conn[fd]] \in Connected
<1>1. fd \in Fds /\ mapUser[fd] \in User
  BY DEF TablesType, UsersType, LoggedIn
<1>2. conn[fd] \in Clients
  BY <1>1 DEF FdsAgree, User
<1>3. conn[fd] \in Online
  BY DEF FdsAgree
<1> QED BY <1>1, <1>2, <1>3 DEF Online, Connected

(* What a handler starts from.                                              *)
LEMMA ServingFacts ==
  ASSUME TablesType, FdsAgree, NEW op, Handling(op)
  PROVE  /\ sender_fd \in LoggedIn /\ sender_fd \in Fds /\ i \in DOMAIN user_fds
         /\ mapUser[sender_fd] \in User /\ user_id \in ID
         /\ nickname \in Names \cup {NoName}
         /\ me \in Clients /\ cli[me] \in Connected
         /\ Received \in LineType /\ Received.op = op
<1>1. i \in DOMAIN user_fds
  BY DEF Handling, TablesType, LoopType, UsersType
<1>2. sender_fd \in LoggedIn
  BY <1>1 DEF FdsAgree, sender_fd, Range
<1>3. /\ sender_fd \in Fds /\ mapUser[sender_fd] \in User
      /\ me \in Clients /\ cli[me] \in Connected
  BY <1>2, LoggedInFacts DEF me
<1>4. user_id \in ID /\ nickname \in Names \cup {NoName}
  BY <1>3 DEF User, user_id, nickname
<1>5. EmptyLine \in LineType
  BY DEF EmptyLine, Bare, LineType
<1>6. Received \in LineType
  BY <1>3, <1>5 DEF Received, TablesType, NetType
<1> QED BY <1>1, <1>2, <1>3, <1>4, <1>6 DEF Handling

(* The fields of a line, by its operation.                                  *)
LEMMA LineFields ==
  ASSUME NEW l \in LineType
  PROVE  /\ l.op = "name" => l.name \in Names
         /\ l.op = "tell" => l.to \in ID
         /\ l.op = "setenv" => l.var \in EnvVars /\ l.val \in Values
         /\ l.op = "run" => /\ l.in \in {None} \cup ID /\ l.out \in {None} \cup UID
                            /\ l.num \in 0 .. MaxNum /\ l.stages \in 1 .. 2
BY DEF LineType

(* Erasing a position keeps the type.                                       *)
LEMMA EraseType ==
  ASSUME NEW S, NEW s \in Seq(S), NEW k \in DOMAIN s
  PROVE  /\ Erase(s, k) \in Seq(S) /\ Len(Erase(s, k)) = Len(s) - 1
         /\ \A j \in 1 .. Len(s) - 1 : Erase(s, k)[j] = IF j < k THEN s[j] ELSE s[j + 1]
<1> DEFINE a == SubSeq(s, 1, k - 1)
           b == SubSeq(s, k + 1, Len(s))
<1>1. k \in 1 .. Len(s) /\ Len(s) \in Nat
  OBVIOUS
<1>2. a \in Seq(S) /\ Len(a) = k - 1 /\ \A j \in 1 .. k - 1 : a[j] = s[j]
  BY <1>1
<1>3. /\ b \in Seq(S) /\ Len(b) = Len(s) - k
      /\ \A j \in 1 .. Len(s) - k : b[j] = s[k + j]
  BY <1>1
<1> HIDE DEF a, b
<1>4. a \o b \in Seq(S) /\ Len(a \o b) = Len(s) - 1
  BY <1>1, <1>2, <1>3
<1>5. \A j \in 1 .. Len(s) - 1 :
        (a \o b)[j] = IF j <= Len(a) THEN a[j] ELSE b[j - Len(a)]
  BY <1>1, <1>2, <1>3
<1>6. ASSUME NEW j \in 1 .. Len(s) - 1
      PROVE  (a \o b)[j] = IF j < k THEN s[j] ELSE s[j + 1]
  <2>1. CASE j < k
    BY <1>1, <1>2, <1>5, <2>1
  <2>2. CASE ~(j < k)
    <3>1. j - (k - 1) \in 1 .. Len(s) - k /\ k + (j - (k - 1)) = j + 1
      BY <1>1, <2>2
    <3> QED BY <1>1, <1>2, <1>3, <1>5, <2>2, <3>1
  <2> QED BY <2>1, <2>2
<1>7. Erase(s, k) = a \o b
  BY DEF Erase, a, b
<1> QED BY <1>4, <1>6, <1>7

(* Erasing the one position that holds x leaves the other elements, each    *)
(* once.                                                                    *)
LEMMA EraseElement ==
  ASSUME NEW S, NEW s \in Seq(S), NEW x \in Range(s),
         \A j, k \in DOMAIN s : s[j] = s[k] => j = k
  PROVE  LET t == Erase(s, Position(s, x)) IN
         /\ t \in Seq(S)
         /\ Range(t) = Range(s) \ {x}
         /\ \A j, k \in DOMAIN t : t[j] = t[k] => j = k
<1> DEFINE p == Position(s, x)
           t == Erase(s, p)
<1>1. PICK k \in DOMAIN s : s[k] = x
  BY DEF Range
<1>2. s[k] = x /\ \A j \in 1 .. k - 1 : s[j] # x
  BY <1>1
<1>3. p \in DOMAIN s /\ s[p] = x
  BY <1>2 DEF Position
<1> HIDE DEF p
<1>4. /\ t \in Seq(S) /\ Len(t) = Len(s) - 1
      /\ \A j \in 1 .. Len(s) - 1 : t[j] = IF j < p THEN s[j] ELSE s[j + 1]
  BY <1>3, EraseType
<1> HIDE DEF t
<1>5. DOMAIN t = 1 .. Len(s) - 1 /\ DOMAIN s = 1 .. Len(s) /\ Len(s) \in Nat
  BY <1>4
<1>6. \A j, m \in DOMAIN t : t[j] = t[m] => j = m
  <2> TAKE j, m \in DOMAIN t
  <2> DEFINE u(n) == IF n < p THEN n ELSE n + 1
  <2>1. t[j] = s[u(j)] /\ t[m] = s[u(m)] /\ u(j) \in DOMAIN s /\ u(m) \in DOMAIN s
    BY <1>3, <1>4, <1>5
  <2>2. u(j) = u(m) => j = m
    BY <1>3, <1>5
  <2> QED BY <2>1, <2>2
<1>7. Range(t) \subseteq Range(s) \ {x}
  <2> SUFFICES ASSUME NEW j \in DOMAIN t PROVE t[j] \in Range(s) \ {x}
    BY DEF Range
  <2>1. CASE j < p
    BY <1>3, <1>4, <1>5, <2>1 DEF Range
  <2>2. CASE ~(j < p)
    <3>1. j + 1 \in DOMAIN s /\ j + 1 # p /\ t[j] = s[j + 1]
      BY <1>3, <1>4, <1>5, <2>2
    <3> QED BY <1>3, <3>1 DEF Range
  <2> QED BY <2>1, <2>2
<1>8. Range(s) \ {x} \subseteq Range(t)
  <2> SUFFICES ASSUME NEW j \in DOMAIN s, j # p PROVE s[j] \in Range(t)
    BY <1>3 DEF Range
  <2>1. CASE j < p
    <3>1. j \in DOMAIN t /\ t[j] = s[j]
      BY <1>3, <1>4, <1>5, <2>1
    <3> QED BY <3>1 DEF Range
  <2>2. CASE ~(j < p)
    <3>1. j - 1 \in DOMAIN t /\ t[j - 1] = s[j]
      BY <1>3, <1>4, <1>5, <2>2
    <3> QED BY <3>1 DEF Range
  <2> QED BY <2>1, <2>2
<1> QED BY <1>4, <1>6, <1>7, <1>8 DEF t, p

(* Descriptors are numbers.                                                 *)
LEMMA DescriptorSeq ==
  ASSUME NEW s \in Seq(Fds)
  PROVE  s \in Seq(Int) /\ \A fd \in Range(s) : fd \in Nat
<1>1. s \in Seq(Nat)
  BY FdAssumption, SeqMonotonic
<1>2. s \in Seq(Int)
  BY <1>1, SeqMonotonic
<1> QED BY <1>1, <1>2 DEF Range

(* A free ID is the least one; without one, any index.                      *)
LEMMA NewIDFacts ==
  ASSUME NEW n \in NewIDs
  PROVE  /\ n \in ID
         /\ Free # {} => n \in UID /\ ~user_list[n]
<1>1. CASE Free = {}
  BY <1>1 DEF NewIDs
<1>2. CASE Free # {}
  <2>1. Free \in SUBSET Nat
    BY IDAssumption DEF Free, UID
  <2>2. n \in Free
    BY <1>2, <2>1, NatMin DEF NewIDs
  <2> QED BY <2>2, IDAssumption DEF Free, UID, ID
<1> QED BY <1>1, <1>2

-----------------------------------------------------------------------------
(* The conjuncts of the invariant about the tables, and what a handler that *)
(* keeps the connection does to them.                                       *)

LEMMA UsersNotNoUser == NoUser \notin User
BY IDAssumption DEF NoUser, User, None, ID

(* A handler that keeps the connection ends with a prompt, or the process   *)
(* goes no further.                                                         *)
Answered(ms) == Deliver(ms, cli) /\ alive' \in BOOLEAN /\ Handled

LEMMA Answers ==
  /\ \A ms : Reply(ms) => Answered(Append(ms, Prompt(me)))
  /\ \A ms : Stop(ms) => Answered(ms)
BY DEF Answered, Reply, Send, Stop

LEMMA ReplyFacts ==
  ASSUME TablesInv, NEW op, Handling(op), NEW ms, Answered(ms)
  PROVE  /\ LoopType' /\ NetType' /\ BacklogOK' /\ Online' = Online
         /\ user_fds' = user_fds /\ conn' = conn /\ max_fd' = max_fd
<1> USE DEF TablesInv
<1>1. TablesType /\ cli \in [Clients -> States]
  BY DEF TablesType, NetType
<1>2. /\ alive' \in BOOLEAN /\ cli' \in [Clients -> States]
      /\ \A c \in Clients : cli'[c] \in Connected <=> cli[c] \in Connected
      /\ \A c \in Clients : cli'[c] = "waiting" <=> cli[c] = "waiting"
  BY <1>1, SendFacts DEF Answered
<1>3. UNCHANGED <<ready, max_fd, user_fds, conn, pc, backlog, typed>> /\ i' = i + 1
      /\ inbox' = [inbox EXCEPT ![me] = NoLine]
  BY DEF Answered, Handled, Next_i
<1>4. LoopType'
  BY <1>1, <1>2, <1>3 DEF TablesType, LoopType
<1>5. NetType'
  BY <1>1, <1>2, <1>3 DEF TablesType, NetType
<1>6. BacklogOK'
  <2>1. \A k \in DOMAIN backlog : backlog[k] \in Clients
    BY <1>1 DEF TablesType, NetType
  <2> QED BY <1>2, <1>3, <2>1 DEF BacklogOK
<1>7. Online' = Online
  BY <1>2 DEF Online, Connected
<1> QED BY <1>3, <1>4, <1>5, <1>6, <1>7

(* Every handler of shell() but exit ends with a reply.                     *)
LEMMA ShellReplies ==
  ASSUME Builtin \/ Pipeline, ~Exit
  PROVE  \E op, ms : Handling(op) /\ Answered(ms)
<1>1. CASE Builtin
  <2>1. \E op, ms : Handling(op) /\ Reply(ms)
    BY <1>1 DEF Builtin, Empty, Yell, NameRefused, Name, Who, Tell, TellNobody, Setenv, Printenv
  <2> QED BY <2>1, Answers
<1>2. CASE Pipeline
  <2>1. \E op, ms : Handling(op) /\ (Reply(ms) \/ Stop(ms))
    BY <1>2 DEF Pipeline, Started, RunInputError, RunOutputError, Run, RunRetried, RunStops
  <2> QED BY <2>1, Answers
<1> QED BY <1>1, <1>2

(* ... when it leaves the users alone.                                      *)
LEMMA QuietStep ==
  ASSUME TablesInv, NEW op, Handling(op), NEW ms, Answered(ms),
         UNCHANGED <<mapUser, user_list, fd_table, vecUserNames>>,
         SessionType', PipesType'
  PROVE  TablesInv'
<1>1. /\ LoopType' /\ NetType' /\ BacklogOK' /\ Online' = Online
      /\ user_fds' = user_fds /\ conn' = conn
  BY ReplyFacts
<1>2. TablesType'
  BY <1>1 DEF TablesInv, TablesType, UsersType
<1>3. FdsAgree'
  BY <1>1 DEF TablesInv, FdsAgree, LoggedIn
<1>4. SlotsAgree'
  BY DEF TablesInv, SlotsAgree, LoggedIn
<1>5. MaxFdCovers'
  <2>1. max_fd' = max_fd
    BY ReplyFacts
  <2> QED BY <2>1 DEF TablesInv, MaxFdCovers, LoggedIn, LoopTop
<1> QED BY <1>1, <1>2, <1>3, <1>4, <1>5 DEF TablesInv

-----------------------------------------------------------------------------
(* Every step keeps the tables in agreement.                                *)

LEMMA AcceptTables == TablesInv /\ Accept => TablesInv'
<1> SUFFICES ASSUME TablesInv, Accept PROVE TablesInv'
  OBVIOUS
<1>1. PICK fd \in {f \in Fds : conn[f] = NoClient}, n \in NewIDs :
        LET c == Head(backlog) IN
        /\ max_fd' = IF fd > LoopTop THEN fd ELSE LoopTop
        /\ user_fds' = Append(user_fds, fd)
        /\ user_list' = [user_list EXCEPT ![n] = (Free # {}) \/ @]
        /\ mapUser' = [mapUser EXCEPT ![fd] = [ID |-> n, nickname |-> NoName, addr |-> c]]
        /\ fd_table' = [fd_table EXCEPT ![n] = fd]
        /\ conn' = [conn EXCEPT ![fd] = c]
        /\ backlog' = Tail(backlog)
        /\ Send(Greeting(c, Everyone \cup {c}), [cli EXCEPT ![c] = "online"])
  BY DEF Accept
<1> DEFINE c == Head(backlog)
           st == [cli EXCEPT ![c] = "online"]
           new == [ID |-> n, nickname |-> NoName, addr |-> c]
<1>2. /\ UNCHANGED <<loop, vecUserNames, session, upipes, inbox, typed>>
      /\ backlog # <<>>
  BY DEF Accept
<1>3. n \in ID /\ (Free # {} => n \in UID /\ ~user_list[n])
  BY NewIDFacts
<1>4. /\ backlog \in Seq(Clients) /\ c \in Clients /\ cli[c] = "waiting"
      /\ c \notin Online
  BY <1>2 DEF TablesInv, TablesType, NetType, BacklogOK, Online
<1>5. fd \in Fds /\ fd \notin LoggedIn /\ fd \in Nat /\ fd # -1
  <2>1. fd \in Fds /\ fd \in Nat
    BY FdAssumption
  <2>2. fd \notin LoggedIn
    BY ClientAssumption, LoggedInFacts DEF TablesInv
  <2> QED BY <2>1, <2>2
<1>6. new \in User /\ new # NoUser /\ new.ID = n /\ new.addr = c
  BY <1>3, <1>4, UsersNotNoUser DEF User
<1>7. st \in [Clients -> States] /\ cli \in [Clients -> States]
  BY <1>4 DEF TablesInv, TablesType, NetType, States
<1>8. /\ alive' \in BOOLEAN /\ cli' \in [Clients -> States]
      /\ \A d \in Clients : cli'[d] \in Connected <=> st[d] \in Connected
      /\ \A d \in Clients : cli'[d] = "waiting" <=> st[d] = "waiting"
  BY <1>1, <1>7, SendFacts DEF Send
<1>9. LoggedIn' = LoggedIn \cup {fd}
  BY <1>1, <1>5, <1>6 DEF LoggedIn, TablesInv, TablesType, UsersType
<1>10. TablesType'
  <2>1. LoopType'
    BY <1>1, <1>2, <1>5, <1>8, FdAssumption DEF loop, LoopTop, TablesInv, TablesType, LoopType
  <2>2. UsersType'
    BY <1>1, <1>2, <1>3, <1>5, <1>6 DEF TablesInv, TablesType, UsersType
  <2>3. SessionType' /\ PipesType'
    BY <1>2 DEF session, upipes, TablesInv, TablesType, SessionType, PipesType
  <2>4. NetType'
    BY <1>1, <1>2, <1>4, <1>5, <1>8 DEF TablesInv, TablesType, NetType
  <2> QED BY <2>1, <2>2, <2>3, <2>4 DEF TablesType
<1>11. Online' = Online \cup {c}
  BY <1>4, <1>7, <1>8 DEF Online, Connected
<1>12. FdsAgree'
  <2>1. user_fds \in Seq(Fds) /\ mapUser \in [Fds -> User \cup {NoUser}]
    BY DEF TablesInv, TablesType, UsersType
  <2>2. fd \notin Range(user_fds)
    BY <1>5 DEF TablesInv, FdsAgree
  <2>3. /\ DOMAIN user_fds' = DOMAIN user_fds \cup {Len(user_fds) + 1}
        /\ user_fds'[Len(user_fds) + 1] = fd
        /\ \A k \in DOMAIN user_fds : user_fds'[k] = user_fds[k]
    BY <1>1, <2>1
  <2>4. \A j, k \in DOMAIN user_fds' : user_fds'[j] = user_fds'[k] => j = k
    BY <2>2, <2>3 DEF TablesInv, FdsAgree, Range
  <2>5. Range(user_fds') = LoggedIn'
    <3>1. Range(user_fds') = Range(user_fds) \cup {fd}
      BY <2>3 DEF Range
    <3> QED BY <3>1, <1>9 DEF TablesInv, FdsAgree
  <2>6. conn \in [Fds -> Clients \cup {NoClient}]
    BY DEF TablesInv, TablesType, NetType
  <2>7. \A gd \in Fds : mapUser'[gd].addr = conn'[gd]
    BY <1>1, <1>5, <1>6, <2>1, <2>6 DEF TablesInv, FdsAgree
  <2>8. \A gd \in LoggedIn : gd \in Fds /\ conn'[gd] = conn[gd] /\ conn[gd] \in Online
    BY <1>1, <1>5, <2>6 DEF TablesInv, FdsAgree, LoggedIn
  <2>9. conn'[fd] = c
    BY <1>1, <1>5, <2>6
  <2>10. \A gd, hd \in LoggedIn' : conn'[gd] = conn'[hd] => gd = hd
    BY <1>4, <1>9, <2>8, <2>9 DEF TablesInv, FdsAgree
  <2>11. Online' = {conn'[gd] : gd \in LoggedIn'}
    BY <1>9, <1>11, <2>8, <2>9 DEF TablesInv, FdsAgree
  <2> QED BY <2>4, <2>5, <2>7, <2>10, <2>11 DEF FdsAgree
<1>13. SlotsAgree'
  <2> SUFFICES ASSUME NEW m \in UID
               PROVE  /\ user_list'[m] <=> fd_table'[m] # -1
                      /\ user_list'[m] => /\ fd_table'[m] \in LoggedIn'
                                          /\ mapUser'[fd_table'[m]].ID = m
    BY DEF SlotsAgree
  <2>1. /\ user_list \in [ID -> BOOLEAN] /\ fd_table \in [ID -> Fds \cup {-1}]
        /\ mapUser \in [Fds -> User \cup {NoUser}] /\ m \in ID
    BY IDAssumption DEF TablesInv, TablesType, UsersType, UID, ID
  <2>2. CASE m = n
    <3>1. user_list'[m]
      BY <1>1, <1>3, <2>1, <2>2 DEF Free
    <3>2. fd_table'[m] = fd /\ mapUser'[fd].ID = m
      BY <1>1, <1>5, <1>6, <2>1, <2>2
    <3> QED BY <1>5, <1>9, <3>1, <3>2
  <2>3. CASE m # n
    <3>1. user_list'[m] = user_list[m] /\ fd_table'[m] = fd_table[m]
      BY <1>1, <1>3, <2>1, <2>3
    <3>2. user_list[m] => mapUser'[fd_table[m]] = mapUser[fd_table[m]]
      BY <1>1, <1>5, <2>1 DEF TablesInv, SlotsAgree, LoggedIn
    <3> QED BY <1>9, <3>1, <3>2 DEF TablesInv, SlotsAgree
  <2> QED BY <2>2, <2>3
<1>14. MaxFdCovers'
  <2>1. max_fd \in Int /\ SockFd \in Nat /\ LoopTop \in Int /\ LoopTop >= SockFd
    BY FdAssumption DEF TablesInv, TablesType, LoopType, LoopTop
  <2>2. \A gd \in LoggedIn : gd \in Nat
    BY FdAssumption DEF LoggedIn
  <2>3. LoopTop' = max_fd' /\ max_fd' >= LoopTop /\ max_fd' >= fd
    BY <1>1, <1>5, <2>1 DEF LoopTop
  <2> QED BY <1>1, <1>5, <1>9, <2>1, <2>2, <2>3 DEF TablesInv, MaxFdCovers
<1>15. BacklogOK'
  <2>1. /\ backlog' \in Seq(Clients)
        /\ \A k \in DOMAIN backlog' : k + 1 \in DOMAIN backlog /\ backlog'[k] = backlog[k + 1]
    BY <1>1, <1>2, <1>4
  <2>2. \A k \in DOMAIN backlog : k # 1 => backlog[k] # c
    BY <1>2, <1>4 DEF TablesInv, BacklogOK
  <2>3. \A k \in DOMAIN backlog' : cli'[backlog'[k]] = "waiting"
    <3> TAKE k \in DOMAIN backlog'
    <3>1. k \in Nat /\ k # 0 /\ k + 1 \in DOMAIN backlog /\ backlog'[k] = backlog[k + 1]
      BY <2>1
    <3>2. backlog[k + 1] \in Clients /\ backlog[k + 1] # c /\ cli[backlog[k + 1]] = "waiting"
      BY <1>4, <2>2, <3>1 DEF TablesInv, BacklogOK
    <3> QED BY <1>7, <1>8, <3>1, <3>2
  <2>4. \A j, k \in DOMAIN backlog' : backlog'[j] = backlog'[k] => j = k
    <3> TAKE j, k \in DOMAIN backlog'
    <3>1. /\ j \in Nat /\ k \in Nat /\ j + 1 \in DOMAIN backlog /\ k + 1 \in DOMAIN backlog
          /\ backlog'[j] = backlog[j + 1] /\ backlog'[k] = backlog[k + 1]
      BY <2>1
    <3>2. backlog[j + 1] = backlog[k + 1] => j + 1 = k + 1
      BY <3>1 DEF TablesInv, BacklogOK
    <3> QED BY <3>1, <3>2
  <2> QED BY <2>3, <2>4 DEF BacklogOK
<1> QED BY <1>10, <1>12, <1>13, <1>14, <1>15 DEF TablesInv

LEMMA ExitTables == TablesInv /\ Exit => TablesInv'
<1> SUFFICES ASSUME TablesInv, Exit PROVE TablesInv'
  OBVIOUS
<1> DEFINE fd == sender_fd
           n  == user_id
           st == [cli EXCEPT ![me] = "left"]
<1>1. /\ Handling("exit")
      /\ user_fds' = Erase(user_fds, Position(user_fds, fd))
      /\ max_fd' = IF max_fd = fd THEN MaxOf(user_fds') ELSE max_fd
      /\ ready' = ready \ {fd}
      /\ conn' = [conn EXCEPT ![fd] = NoClient]
      /\ UserLeaves(n, fd) /\ SessionEnds(n)
      /\ user_pipe_bool' = ClearUserPipes(n) /\ user_pipe_table' = user_pipe_table
      /\ inbox' = [inbox EXCEPT ![me] = NoLine] /\ i' = i + 1
      /\ UNCHANGED <<pc, backlog, typed>>
  BY DEF Exit, Next_i
<1>2. /\ fd \in LoggedIn /\ fd \in Fds /\ mapUser[fd] \in User /\ n \in ID
      /\ me \in Clients /\ cli[me] \in Connected /\ conn[fd] = me
      /\ mapUser[fd].ID = n
  BY <1>1, ServingFacts DEF TablesInv, me, user_id
<1> HIDE DEF fd, n
<1>3. cli \in [Clients -> States] /\ st \in [Clients -> States]
  BY DEF TablesInv, TablesType, NetType, States
<1>4. /\ alive' \in BOOLEAN /\ cli' \in [Clients -> States]
      /\ \A d \in Clients : cli'[d] \in Connected <=> st[d] \in Connected
      /\ \A d \in Clients : cli'[d] = "waiting" <=> st[d] = "waiting"
  <2>1. Send(<<Msg("left", At(Range(user_fds')), <<nickname>>)>>, st)
    BY DEF Exit
  <2> QED BY <1>3, <2>1, SendFacts DEF Send
<1>5. user_fds \in Seq(Fds) /\ fd \in Range(user_fds)
  BY <1>2 DEF TablesInv, TablesType, UsersType, FdsAgree
<1>6. /\ user_fds' \in Seq(Fds) /\ Range(user_fds') = Range(user_fds) \ {fd}
      /\ \A j, k \in DOMAIN user_fds' : user_fds'[j] = user_fds'[k] => j = k
  BY <1>1, <1>5, EraseElement DEF TablesInv, FdsAgree
<1>7. /\ mapUser' = [mapUser EXCEPT ![fd] = NoUser]
      /\ user_list' = [user_list EXCEPT ![n] = FALSE]
      /\ fd_table' = [fd_table EXCEPT ![n] = -1]
      /\ vecUserNames' = [vecUserNames EXCEPT ![n] = NoName]
  BY <1>1 DEF UserLeaves
<1>8. LoggedIn' = LoggedIn \ {fd}
  BY <1>2, <1>7 DEF LoggedIn, TablesInv, TablesType, UsersType
<1>9. user_fds' \in Seq(Int) /\ \A gd \in Range(user_fds') : gd \in Nat
  BY <1>6, DescriptorSeq
<1>10. /\ MaxOf(user_fds') \in Int
       /\ \A gd \in Range(user_fds') : gd <= MaxOf(user_fds')
  <2>1. /\ MaxOf(user_fds') \in Range(user_fds') \cup {-1}
        /\ \A gd \in Range(user_fds') : gd <= MaxOf(user_fds')
    BY <1>9, SeqMax DEF MaxOf
  <2> QED BY <1>9, <2>1
<1>11. max_fd \in Int /\ max_fd' \in Int
  BY <1>1, <1>10 DEF TablesInv, TablesType, LoopType
<1>12. TablesType'
  <2>1. LoopType'
    BY <1>1, <1>4, <1>11 DEF TablesInv, TablesType, LoopType
  <2>2. UsersType'
    BY <1>2, <1>6, <1>7 DEF TablesInv, TablesType, UsersType
  <2>3. SessionType'
    <3>1. InitialEnv \in [EnvVars -> Values \cup {Unset}]
      BY EnvAssumption DEF InitialEnv
    <3> QED BY <1>1, <3>1 DEF SessionEnds, TablesInv, TablesType, SessionType
  <2>4. PipesType'
    BY <1>1 DEF ClearUserPipes, TablesInv, TablesType, PipesType
  <2>5. NetType'
    BY <1>1, <1>4 DEF TablesInv, TablesType, NetType
  <2> QED BY <2>1, <2>2, <2>3, <2>4, <2>5 DEF TablesType
<1>13. Online' = Online \ {me}
  BY <1>3, <1>4, <1>2 DEF Online, Connected
<1>14. FdsAgree'
  <2>1. mapUser \in [Fds -> User \cup {NoUser}] /\ conn \in [Fds -> Clients \cup {NoClient}]
    BY DEF TablesInv, TablesType, UsersType, NetType
  <2>2. Range(user_fds') = LoggedIn'
    BY <1>6, <1>8 DEF TablesInv, FdsAgree
  <2>3. \A gd \in Fds : mapUser'[gd].addr = conn'[gd]
    BY <1>1, <1>7, <2>1 DEF TablesInv, FdsAgree, NoUser
  <2>4. \A gd \in LoggedIn' : /\ gd \in LoggedIn /\ conn'[gd] = conn[gd]
                              /\ conn[gd] # me
    BY <1>1, <1>2, <1>8, <2>1 DEF TablesInv, FdsAgree, LoggedIn
  <2>5. \A gd, hd \in LoggedIn' : conn'[gd] = conn'[hd] => gd = hd
    BY <2>4 DEF TablesInv, FdsAgree
  <2>6. Online' = {conn'[gd] : gd \in LoggedIn'}
    BY <1>2, <1>8, <1>13, <2>4 DEF TablesInv, FdsAgree
  <2> QED BY <1>6, <2>2, <2>3, <2>5, <2>6 DEF FdsAgree
<1>15. SlotsAgree'
  <2> SUFFICES ASSUME NEW m \in UID
               PROVE  /\ user_list'[m] <=> fd_table'[m] # -1
                      /\ user_list'[m] => /\ fd_table'[m] \in LoggedIn'
                                          /\ mapUser'[fd_table'[m]].ID = m
    BY DEF SlotsAgree
  <2>1. /\ user_list \in [ID -> BOOLEAN] /\ fd_table \in [ID -> Fds \cup {-1}]
        /\ mapUser \in [Fds -> User \cup {NoUser}] /\ m \in ID
    BY IDAssumption DEF TablesInv, TablesType, UsersType, UID, ID
  <2>2. CASE m = n
    BY <1>7, <2>1, <2>2
  <2>3. CASE m # n
    <3>1. user_list'[m] = user_list[m] /\ fd_table'[m] = fd_table[m]
      BY <1>7, <2>1, <2>3
    <3>2. user_list[m] => fd_table[m] # fd /\ fd_table[m] \in Fds
      BY <1>2, <2>3 DEF TablesInv, SlotsAgree, LoggedIn
    <3>3. user_list[m] => mapUser'[fd_table[m]] = mapUser[fd_table[m]]
      BY <1>7, <2>1, <3>2
    <3> QED BY <1>8, <3>1, <3>2, <3>3 DEF TablesInv, SlotsAgree
  <2> QED BY <2>2, <2>3
<1>16. MaxFdCovers'
  <2> SUFFICES ASSUME NEW gd \in LoggedIn' PROVE gd <= LoopTop'
    BY DEF MaxFdCovers
  <2>1. gd \in LoggedIn /\ gd \in Nat /\ gd \in Range(user_fds') /\ SockFd \in Nat
    BY <1>6, <1>8, <1>9, FdAssumption DEF TablesInv, FdsAgree
  <2>2. CASE max_fd = fd
    BY <1>1, <1>10, <1>11, <2>1, <2>2 DEF LoopTop
  <2>3. CASE max_fd # fd
    BY <1>1, <1>11, <2>1, <2>3 DEF LoopTop, TablesInv, MaxFdCovers
  <2> QED BY <2>2, <2>3
<1>17. BacklogOK'
  <2>1. \A k \in DOMAIN backlog : backlog[k] \in Clients
    BY DEF TablesInv, TablesType, NetType
  <2>2. \A k \in DOMAIN backlog : backlog[k] # me
    BY <1>2 DEF TablesInv, BacklogOK, Connected
  <2> QED BY <1>1, <1>3, <1>4, <2>1, <2>2 DEF TablesInv, BacklogOK
<1> QED BY <1>12, <1>14, <1>15, <1>16, <1>17 DEF TablesInv

LEMMA NameTables == TablesInv /\ Name => TablesInv'
<1> SUFFICES ASSUME TablesInv, Name PROVE TablesInv'
  OBVIOUS
<1> DEFINE fd == sender_fd
           ms == <<Msg("named", Everyone, <<me, Received.name>>)>>
<1>1. /\ Handling("name") /\ Reply(ms)
      /\ vecUserNames' = [vecUserNames EXCEPT ![user_id] = Received.name]
      /\ mapUser' = [mapUser EXCEPT ![fd].nickname = Received.name]
      /\ UNCHANGED <<user_list, fd_table, session, upipes>>
  BY DEF Name
<1> HIDE DEF ms
<1>2. /\ LoopType' /\ NetType' /\ BacklogOK' /\ Online' = Online
      /\ user_fds' = user_fds /\ conn' = conn /\ max_fd' = max_fd
  BY <1>1, Answers, ReplyFacts
<1>3. fd \in Fds /\ mapUser[fd] \in User /\ Received.name \in Names
  BY <1>1, ServingFacts, LineFields DEF TablesInv
<1> HIDE DEF fd
<1>4. /\ mapUser'[fd] \in User /\ mapUser'[fd].ID = mapUser[fd].ID
      /\ mapUser'[fd].addr = mapUser[fd].addr
      /\ \A gd \in Fds : gd # fd => mapUser'[gd] = mapUser[gd]
      /\ mapUser' \in [Fds -> User \cup {NoUser}]
  BY <1>1, <1>3 DEF TablesInv, TablesType, UsersType, User
<1>5. LoggedIn' = LoggedIn
  BY <1>3, <1>4, UsersNotNoUser DEF LoggedIn
<1>6. TablesType'
  BY <1>1, <1>2, <1>3, <1>4
  DEF TablesInv, TablesType, UsersType, SessionType, PipesType, session, upipes
<1>7. FdsAgree'
  BY <1>2, <1>3, <1>4, <1>5 DEF TablesInv, FdsAgree
<1>8. SlotsAgree'
  BY <1>1, <1>3, <1>4, <1>5 DEF TablesInv, SlotsAgree, LoggedIn
<1>9. MaxFdCovers'
  BY <1>2, <1>5 DEF TablesInv, MaxFdCovers, LoopTop
<1> QED BY <1>2, <1>6, <1>7, <1>8, <1>9 DEF TablesInv

(* Entering a number pipe keeps the types of the two maps.                  *)
LEMMA NPInsertType ==
  ASSUME TablesInv, me \in Clients, NEW n \in ID, NEW num \in Nat, NPInsert(n, num)
  PROVE  /\ NP_sender_map' \in [ID -> SUBSET (Nat \X NumberPipe)]
         /\ NP_receiver_map' \in [ID -> SUBSET (Nat \X NumberPipe)]
<1>1. /\ NP_sender_map \in [ID -> SUBSET (Nat \X NumberPipe)]
      /\ NP_receiver_map \in [ID -> SUBSET (Nat \X NumberPipe)]
      /\ instr_cnt[n] \in Nat /\ instr_cnt[n] + num \in Nat
  BY DEF TablesInv, TablesType, SessionType
<1>2. Target(n, num) \in NumberPipe
  <2> DEFINE key == instr_cnt[n] + num
             known == {q \in NP_receiver_map[n] : q[1] = key}
  <2>1. CASE known = {}
    BY <1>1, <2>1 DEF Target, Reader, NumberPipe
  <2>2. CASE known # {}
    <3>1. (CHOOSE q \in known : TRUE) \in known
      BY <2>2
    <3>2. (CHOOSE q \in known : TRUE) \in Nat \X NumberPipe
      BY <1>1, <3>1
    <3> QED BY <2>2, <3>2 DEF Target, Reader
  <2> QED BY <2>1, <2>2
<1>3. ASSUME NEW m \in SUBSET (Nat \X NumberPipe), NEW k \in Nat
      PROVE  Insert(m, k, Target(n, num)) \in SUBSET (Nat \X NumberPipe)
  BY <1>2 DEF Insert
<1>4. CASE num = 0
  BY <1>1, <1>4 DEF NPInsert
<1>5. CASE num # 0
  BY <1>1, <1>3, <1>5 DEF NPInsert, Reader
<1> QED BY <1>4, <1>5

(* A pipeline changes the pipes and the counter of its user only.           *)
LEMMA PipelineFrame ==
  ASSUME Pipeline
  PROVE  /\ Handling("run") /\ \E ms : Answered(ms)
         /\ UNCHANGED <<mapUser, user_list, fd_table, vecUserNames, env_map>>
         /\ \/ instr_cnt' = instr_cnt
            \/ instr_cnt' = [instr_cnt EXCEPT ![user_id] = @ + 1]
         /\ \E num \in {0, Received.num} : NPInsert(user_id, num)
         /\ user_pipe_bool' \in {user_pipe_bool, Consumed, Seen,
                                 OpenedIn(Consumed), OpenedIn(Seen)}
         /\ \/ user_pipe_table' = user_pipe_table
            \/ OutputError = "none" /\ PipeRecorded
<1>1. \E ms : Reply(ms) \/ Stop(ms)
  BY DEF Pipeline, RunInputError, RunOutputError, Run, RunRetried, RunStops
<1>2. \E ms : Answered(ms)
  BY <1>1, Answers
<1> QED BY <1>2 DEF Pipeline, RunInputError, RunOutputError, Run, RunRetried, RunStops,
                    Started, upipes

LEMMA RunTables == TablesInv /\ Pipeline => TablesInv'
<1> SUFFICES ASSUME TablesInv, Pipeline PROVE TablesInv'
  OBVIOUS
<1>1. /\ Handling("run")
      /\ UNCHANGED <<mapUser, user_list, fd_table, vecUserNames, env_map>>
  BY PipelineFrame
<1>2. /\ user_id \in ID /\ me \in Clients
      /\ Received.in \in {None} \cup ID /\ Received.out \in {None} \cup UID
      /\ Received.num \in Nat
  BY <1>1, ServingFacts, LineFields DEF TablesInv
<1>3. /\ user_pipe_bool \in [ID -> [ID -> BOOLEAN]]
      /\ user_pipe_table \in [ID -> [ID -> Pipe \cup {NoPipe}]]
      /\ Received.out # None => Received.out \in ID
      /\ env_map \in [ID -> [EnvVars -> Values \cup {Unset}]]
      /\ instr_cnt \in [ID -> Nat]
  BY <1>2, IDAssumption DEF TablesInv, TablesType, PipesType, SessionType, UID, ID
<1>4. /\ NP_sender_map' \in [ID -> SUBSET (Nat \X NumberPipe)]
      /\ NP_receiver_map' \in [ID -> SUBSET (Nat \X NumberPipe)]
  <2>1. PICK num \in {0, Received.num} : NPInsert(user_id, num)
    BY PipelineFrame
  <2> QED BY <1>2, <2>1, NPInsertType
<1>5. instr_cnt' \in [ID -> Nat]
  BY <1>2, <1>3, PipelineFrame
<1>6. user_pipe_bool' \in [ID -> [ID -> BOOLEAN]]
  <2>1. Consumed \in [ID -> [ID -> BOOLEAN]] /\ Seen \in [ID -> [ID -> BOOLEAN]]
    BY <1>2, <1>3 DEF Consumed, Seen
  <2>2. /\ OpenedIn(Consumed) \in [ID -> [ID -> BOOLEAN]]
        /\ OpenedIn(Seen) \in [ID -> [ID -> BOOLEAN]]
    BY <1>2, <1>3, <2>1 DEF OpenedIn
  <2> QED BY <1>3, <2>1, <2>2, PipelineFrame
<1>7. user_pipe_table' \in [ID -> [ID -> Pipe \cup {NoPipe}]]
  <2>1. CASE user_pipe_table' = user_pipe_table
    BY <1>3, <2>1
  <2>2. CASE OutputError = "none" /\ PipeRecorded
    <3>1. Received.out # None => NewPipe \in Pipe
      <4> SUFFICES ASSUME Received.out # None PROVE NewPipe \in Pipe
        OBVIOUS
      <4>1. user_list[Received.out]
        BY <2>2 DEF OutputError
      <4>2. fd_table[Received.out] \in LoggedIn
        BY <1>2, <4>1 DEF TablesInv, SlotsAgree
      <4>3. conn[fd_table[Received.out]] \in Clients
        BY <4>2, LoggedInFacts DEF TablesInv
      <4> QED BY <1>2, <4>3 DEF NewPipe, Pipe
    <3> QED BY <1>2, <1>3, <2>2, <3>1 DEF PipeRecorded
  <2> QED BY <2>1, <2>2, PipelineFrame
<1>8. SessionType' /\ PipesType'
  BY <1>1, <1>3, <1>4, <1>5, <1>6, <1>7 DEF SessionType, PipesType
<1>9. PICK ms : Answered(ms)
  BY PipelineFrame
<1> QED BY <1>1, <1>8, <1>9, QuietStep

LEMMA TalkTables ==
  TablesInv /\ (Empty \/ Yell \/ NameRefused \/ Who \/ Tell \/ TellNobody \/ Printenv)
    => TablesInv'
<1> SUFFICES ASSUME TablesInv,
                    Empty \/ Yell \/ NameRefused \/ Who \/ Tell \/ TellNobody \/ Printenv
             PROVE  TablesInv'
  OBVIOUS
<1>1. /\ \E op : Handling(op)
      /\ \E ms : Answered(ms)
      /\ UNCHANGED <<mapUser, user_list, fd_table, vecUserNames, session, upipes>>
  BY Answers DEF Empty, Yell, NameRefused, Who, Tell, TellNobody, Printenv
<1>2. SessionType' /\ PipesType'
  BY <1>1 DEF session, upipes, TablesInv, TablesType, SessionType, PipesType
<1> QED BY <1>1, <1>2, QuietStep

LEMMA SetenvTables == TablesInv /\ Setenv => TablesInv'
<1> SUFFICES ASSUME TablesInv, Setenv PROVE TablesInv'
  OBVIOUS
<1>1. /\ Handling("setenv") /\ Reply(<<>>)
      /\ env_map' = [env_map EXCEPT ![user_id] = SetIn(@, Received.var, Received.val)]
      /\ UNCHANGED <<mapUser, user_list, fd_table, vecUserNames, instr_cnt,
                     NP_sender_map, NP_receiver_map, upipes>>
  BY DEF Setenv
<1>2. user_id \in ID /\ Received.var \in EnvVars /\ Received.val \in Values
  BY <1>1, ServingFacts, LineFields DEF TablesInv
<1>3. env_map' \in [ID -> [EnvVars -> Values \cup {Unset}]]
  BY <1>1, <1>2 DEF SetIn, TablesInv, TablesType, SessionType
<1>4. SessionType' /\ PipesType'
  BY <1>1, <1>3 DEF upipes, TablesInv, TablesType, SessionType, PipesType
<1> QED BY <1>1, <1>4, Answers, QuietStep

LEMMA LoopTables == TablesInv /\ (Select \/ ScanSkip \/ ScanEnd) => TablesInv'
<1> SUFFICES ASSUME TablesInv, Select \/ ScanSkip \/ ScanEnd PROVE TablesInv'
  OBVIOUS
<1>1. UNCHANGED <<alive, users, session, upipes, net>>
  BY DEF Select, ScanSkip, ScanEnd
<1>2. max_fd \in Int /\ (max_fd' = max_fd \/ max_fd' = LoopTop) /\ SockFd \in Nat
  BY FdAssumption DEF Select, ScanSkip, ScanEnd, TablesInv, TablesType, LoopType
<1>3. LoopType'
  <2>1. Readable \subseteq Fds
    BY DEF Readable, TablesInv, FdsAgree, LoggedIn
  <2>2. i \in Nat /\ max_fd' \in Int
    BY <1>2 DEF LoopTop, TablesInv, TablesType, LoopType
  <2> QED BY <1>1, <2>1, <2>2 DEF Select, ScanSkip, ScanEnd, TablesInv, TablesType, LoopType
<1>4. TablesType'
  BY <1>1, <1>3 DEF users, session, upipes, net, TablesInv, TablesType, UsersType,
                    SessionType, PipesType, NetType
<1>5. FdsAgree' /\ SlotsAgree' /\ BacklogOK'
  BY <1>1 DEF users, net, TablesInv, FdsAgree, SlotsAgree, BacklogOK, LoggedIn, Online
<1>6. MaxFdCovers'
  <2>1. LoopTop' = LoopTop
    BY <1>2 DEF LoopTop
  <2> QED BY <1>1, <2>1 DEF users, TablesInv, MaxFdCovers, LoggedIn
<1> QED BY <1>4, <1>5, <1>6 DEF TablesInv

LEMMA ClientTables == TablesInv /\ Client => TablesInv'
<1> SUFFICES ASSUME TablesInv, NEW c \in Clients,
                    Connect(c) \/ HangUp(c) \/ \E l \in Lines : Type(c, l)
             PROVE  TablesInv'
  BY DEF Client
<1>1. UNCHANGED <<server, conn>>
  BY DEF Connect, HangUp, Type
<1>2. cli \in [Clients -> States] /\ backlog \in Seq(Clients) /\ typed \in Nat
      /\ inbox \in [Clients -> LineType \cup {NoLine}]
  BY DEF TablesInv, TablesType, NetType
<1>3. NetType' /\ BacklogOK' /\ Online' = Online
  <2>1. CASE Connect(c)
    <3>1. /\ cli' = [cli EXCEPT ![c] = "waiting"] /\ cli[c] = "new"
          /\ backlog' = Append(backlog, c) /\ UNCHANGED <<conn, inbox, typed>>
      BY <2>1 DEF Connect
    <3>2. NetType' /\ Online' = Online
      BY <1>2, <3>1 DEF States, TablesInv, TablesType, NetType, Online
    <3>3. \A k \in DOMAIN backlog : backlog[k] \in Clients /\ cli[backlog[k]] = "waiting"
      BY <1>2 DEF TablesInv, BacklogOK
    <3>4. /\ DOMAIN backlog' = DOMAIN backlog \cup {Len(backlog) + 1}
          /\ backlog'[Len(backlog) + 1] = c
          /\ \A k \in DOMAIN backlog : backlog'[k] = backlog[k]
      BY <1>2, <3>1
    <3>5. BacklogOK'
      BY <1>2, <3>1, <3>3, <3>4 DEF TablesInv, BacklogOK
    <3> QED BY <3>2, <3>5
  <2>2. CASE HangUp(c)
    <3>1. PICK s \in {"closed", "reset"} : cli' = [cli EXCEPT ![c] = s]
      BY <2>2 DEF HangUp
    <3>2. cli[c] = "online" /\ UNCHANGED <<conn, backlog, inbox, typed>>
      BY <2>2 DEF HangUp
    <3>3. NetType' /\ Online' = Online
      BY <1>2, <3>1, <3>2 DEF States, TablesInv, TablesType, NetType, Online
    <3>4. BacklogOK'
      BY <1>2, <3>1, <3>2 DEF TablesInv, BacklogOK
    <3> QED BY <3>3, <3>4
  <2>3. ASSUME NEW l \in Lines, Type(c, l) PROVE NetType' /\ BacklogOK' /\ Online' = Online
    BY <1>2, <2>3, LineAssumption DEF Type, TablesInv, TablesType, NetType, BacklogOK, Online
  <2> QED BY <2>1, <2>2, <2>3
<1>4. TablesType'
  BY <1>1, <1>3 DEF server, loop, users, session, upipes, TablesInv, TablesType, LoopType,
                    UsersType, SessionType, PipesType
<1>5. FdsAgree' /\ SlotsAgree' /\ MaxFdCovers'
  BY <1>1, <1>3 DEF server, users, TablesInv, FdsAgree, SlotsAgree, MaxFdCovers,
                    LoggedIn, LoopTop
<1> QED BY <1>3, <1>4, <1>5 DEF TablesInv

LEMMA InitTables == Init => TablesInv
<1> SUFFICES ASSUME Init PROVE TablesInv
  OBVIOUS
<1>1. TablesType
  BY FdAssumption, EnvAssumption
  DEF Init, TablesType, LoopType, UsersType, SessionType, PipesType, NetType, NoUser, NoPipe,
      InitialEnv, States
<1>2. LoggedIn = {} /\ Online = {}
  BY DEF Init, LoggedIn, Online
<1>3. Range(user_fds) = {}
  BY DEF Init, Range
<1>4. FdsAgree
  BY <1>2, <1>3 DEF Init, FdsAgree, NoUser
<1>5. SlotsAgree
  <2>1. ASSUME NEW n \in UID PROVE n \in ID /\ n # 0
    BY IDAssumption DEF UID, ID
  <2>2. ASSUME NEW n \in UID PROVE user_list[n] = FALSE
    BY <2>1, Zenon DEF Init
  <2>3. ASSUME NEW n \in UID PROVE fd_table[n] = -1
    BY <2>1 DEF Init
  <2> QED BY <2>2, <2>3 DEF SlotsAgree
<1>6. MaxFdCovers
  BY <1>2 DEF MaxFdCovers
<1>7. BacklogOK
  BY DEF Init, BacklogOK
<1> QED BY <1>1, <1>4, <1>5, <1>6, <1>7 DEF TablesInv

LEMMA NextTables == TablesInv /\ [Next]_vars => TablesInv'
<1> SUFFICES ASSUME TablesInv, [Next]_vars PROVE TablesInv'
  OBVIOUS
<1>1. CASE Accept
  BY <1>1, AcceptTables
<1>2. CASE Select \/ ScanSkip \/ ScanEnd
  BY <1>2, LoopTables
<1>3. CASE Builtin \/ Pipeline
  BY <1>3, ExitTables, NameTables, TalkTables, SetenvTables, RunTables DEF Builtin
<1>4. CASE Client
  BY <1>4, ClientTables
<1>5. CASE UNCHANGED vars
  BY <1>5 DEF vars, loop, users, session, upipes, net, TablesInv, TablesType, LoopType, UsersType,
              SessionType, PipesType, NetType, FdsAgree, SlotsAgree, MaxFdCovers, BacklogOK,
              LoggedIn, LoopTop, Online
<1> QED BY <1>1, <1>2, <1>3, <1>4, <1>5 DEF Next, Server

-----------------------------------------------------------------------------
(* The scan finds input in every socket that select() found readable.       *)

(* A write never takes a hang-up back.                                      *)
LEMMA SendKeepsHangUps ==
  ASSUME NEW ms, NEW st, Deliver(ms, st), NEW c \in Clients, st[c] \in {"closed", "reset"}
  PROVE  cli'[c] \in {"closed", "reset"}
BY DEF Deliver, Written

LEMMA ReplyReady ==
  ASSUME TablesInv, ReadyIsReadable, NEW op, Handling(op), NEW ms, Answered(ms)
  PROVE  ReadyIsReadable'
<1>1. /\ Deliver(ms, cli)
      /\ inbox' = [inbox EXCEPT ![me] = NoLine] /\ i' = i + 1 /\ pc' = pc
      /\ UNCHANGED <<ready, user_fds, conn>>
  BY DEF Answered, Handled, Next_i
<1>2. /\ pc = "scan" /\ i \in DOMAIN user_fds /\ sender_fd \in LoggedIn
  BY ServingFacts DEF TablesInv, Handling
<1> SUFFICES ASSUME NEW k \in i + 1 .. Len(user_fds), user_fds[k] \in ready
             PROVE  HasInput(conn[user_fds[k]])'
  BY <1>1 DEF ReadyIsReadable
<1>3. user_fds \in Seq(Fds) /\ inbox \in [Clients -> LineType \cup {NoLine}] /\ i \in Nat
  BY DEF TablesInv, TablesType, LoopType, UsersType, NetType
<1>4. k \in DOMAIN user_fds /\ k # i /\ k \in i .. Len(user_fds)
  BY <1>2, <1>3
<1>5. user_fds[k] \in LoggedIn /\ user_fds[k] # sender_fd
  BY <1>2, <1>4 DEF TablesInv, FdsAgree, sender_fd, Range
<1>6. conn[user_fds[k]] \in Clients /\ conn[user_fds[k]] # me
  BY <1>2, <1>5, LoggedInFacts DEF TablesInv, FdsAgree, me
<1>7. HasInput(conn[user_fds[k]])
  BY <1>2, <1>4 DEF ReadyIsReadable
<1> QED BY <1>1, <1>3, <1>6, <1>7, SendKeepsHangUps DEF HasInput

LEMMA ExitReady ==
  ASSUME TablesInv, ReadyIsReadable, Exit
  PROVE  ReadyIsReadable'
<1> DEFINE st == [cli EXCEPT ![me] = "left"]
           p  == Position(user_fds, sender_fd)
<1>1. /\ Handling("exit") /\ user_fds' = Erase(user_fds, p)
      /\ ready' = ready \ {sender_fd} /\ conn' = [conn EXCEPT ![sender_fd] = NoClient]
      /\ \E ms : Deliver(ms, st)
      /\ inbox' = [inbox EXCEPT ![me] = NoLine] /\ i' = i + 1 /\ pc' = pc
  BY DEF Exit, Send, Next_i
<1>2. /\ pc = "scan" /\ i \in DOMAIN user_fds /\ sender_fd \in LoggedIn
      /\ me \in Clients
  BY <1>1, ServingFacts DEF TablesInv, Handling
<1>3. /\ user_fds \in Seq(Fds) /\ inbox \in [Clients -> LineType \cup {NoLine}]
      /\ i \in Nat /\ conn \in [Fds -> Clients \cup {NoClient}]
      /\ cli \in [Clients -> States]
  BY DEF TablesInv, TablesType, LoopType, UsersType, NetType
<1>4. p = i
  <2>1. \A j \in DOMAIN user_fds : user_fds[j] = sender_fd => j = i
    BY <1>2 DEF TablesInv, FdsAgree, sender_fd
  <2>2. user_fds[i] = sender_fd /\ \A j \in 1 .. i - 1 : user_fds[j] # sender_fd
    BY <1>2, <1>3, <2>1 DEF sender_fd
  <2> QED BY <1>2, <2>1, <2>2 DEF Position
<1>5. /\ Len(user_fds') = Len(user_fds) - 1
      /\ \A k \in i .. Len(user_fds) - 1 : user_fds'[k] = user_fds[k + 1]
  <2>1. user_fds' = Erase(user_fds, i)
    BY <1>1, <1>4
  <2>2. /\ Len(Erase(user_fds, i)) = Len(user_fds) - 1
        /\ \A k \in 1 .. Len(user_fds) - 1 :
             Erase(user_fds, i)[k] = IF k < i THEN user_fds[k] ELSE user_fds[k + 1]
    BY <1>2, <1>3, EraseType
  <2>3. \A k \in i .. Len(user_fds) - 1 : k \in 1 .. Len(user_fds) - 1 /\ ~(k < i)
    BY <1>2, <1>3
  <2> HIDE DEF p, st
  <2> QED BY <2>1, <2>2, <2>3
<1> HIDE DEF p, st
<1> SUFFICES ASSUME NEW k \in i + 1 .. Len(user_fds'), user_fds'[k] \in ready'
             PROVE  HasInput(conn[user_fds[k]])'
  BY <1>1 DEF ReadyIsReadable
<1> DEFINE fd == user_fds[k + 1]
<1>6. user_fds'[k] = fd /\ k + 1 \in i .. Len(user_fds) /\ k + 1 \in DOMAIN user_fds
  BY <1>2, <1>3, <1>5
<1>7. fd \in LoggedIn /\ fd # sender_fd /\ fd \in ready
  BY <1>1, <1>6 DEF TablesInv, FdsAgree, Range
<1>8. conn'[fd] = conn[fd] /\ conn[fd] \in Clients /\ conn[fd] # me
  BY <1>1, <1>2, <1>3, <1>7, LoggedInFacts DEF TablesInv, FdsAgree, me
<1>9. HasInput(conn[fd])
  BY <1>2, <1>6, <1>7 DEF ReadyIsReadable
<1>10. cli[conn[fd]] \in {"closed", "reset"} => cli'[conn[fd]] \in {"closed", "reset"}
  <2>1. st[conn[fd]] = cli[conn[fd]]
    BY <1>3, <1>8 DEF st
  <2> QED BY <1>1, <1>8, <2>1, SendKeepsHangUps
<1>11. inbox'[conn[fd]] = inbox[conn[fd]]
  BY <1>1, <1>3, <1>8
<1> QED BY <1>6, <1>8, <1>9, <1>10, <1>11 DEF HasInput

LEMMA NextReady == TablesInv /\ ReadyIsReadable /\ [Next]_vars => ReadyIsReadable'
<1> SUFFICES ASSUME TablesInv, ReadyIsReadable, [Next]_vars PROVE ReadyIsReadable'
  OBVIOUS
<1>1. i \in Nat
  BY DEF TablesInv, TablesType, LoopType
<1>2. CASE Accept \/ ScanEnd
  BY <1>2 DEF Accept, ScanEnd, loop, ReadyIsReadable
<1>3. CASE Select
  BY <1>3 DEF Select, users, net, Readable, ReadyIsReadable, HasInput
<1>4. CASE ScanSkip
  <2>1. i' = i + 1 /\ UNCHANGED <<pc, ready, user_fds, conn, inbox, cli>>
    BY <1>4 DEF ScanSkip, users, net
  <2>2. \A k \in i + 1 .. Len(user_fds) : k \in i .. Len(user_fds)
    BY <1>1
  <2> QED BY <2>1, <2>2 DEF ReadyIsReadable, HasInput
<1>5. CASE Exit
  BY <1>5, ExitReady
<1>6. CASE (Builtin \/ Pipeline) /\ ~Exit
  BY <1>6, ShellReplies, ReplyReady
<1>7. CASE Client
  <2>1. PICK c \in Clients : Connect(c) \/ HangUp(c) \/ \E l \in Lines : Type(c, l)
    BY <1>7 DEF Client
  <2>2. UNCHANGED <<pc, ready, i, user_fds, conn>>
    BY <2>1 DEF Connect, HangUp, Type, server, loop, users
  <2>3. /\ cli \in [Clients -> States]
        /\ inbox \in [Clients -> LineType \cup {NoLine}]
    BY DEF TablesInv, TablesType, NetType
  <2>4. \A d \in Clients : HasInput(d) => HasInput(d)'
    BY <2>1, <2>3 DEF Connect, HangUp, Type, HasInput
  <2>5. \A k \in i .. Len(user_fds) : pc = "scan" => conn[user_fds[k]] \in Clients
    <3>1. \A k \in i .. Len(user_fds) : k \in DOMAIN user_fds
      BY DEF TablesInv, TablesType, LoopType, UsersType
    <3> QED BY <3>1, LoggedInFacts DEF TablesInv, FdsAgree, Range
  <2> QED BY <2>2, <2>4, <2>5 DEF ReadyIsReadable, HasInput
<1>8. CASE UNCHANGED vars
  BY <1>8 DEF vars, loop, users, net, ReadyIsReadable, HasInput
<1> QED BY <1>2, <1>3, <1>4, <1>5, <1>6, <1>7, <1>8 DEF Next, Server

-----------------------------------------------------------------------------
(* Failures of fork() are counted within their bound.                       *)
LEMMA CountedFailures ==
  ASSUME TablesInv, failures \in 0 .. ForkFailures, [Next]_vars
  PROVE  failures' \in 0 .. ForkFailures
<1>1. CASE UNCHANGED failures
  BY <1>1
<1>2. CASE Pipeline
  <2>1. ForkFailures \in Nat /\ Some \subseteq Nat
    BY FdAssumption DEF Some
  <2>2. ASSUME NEW f \in Nat, NEW g \in Nat, Fails(f, g) PROVE failures' \in 0 .. ForkFailures
    BY <2>1, <2>2 DEF Fails
  <2>3. \/ UNCHANGED failures
        \/ \E f, g \in Nat : Fails(f, g)
    BY <1>2, <2>1 DEF Pipeline, RunInputError, RunOutputError, Run, RunRetried, RunStops
  <2> QED BY <2>2, <2>3
<1> QED BY <1>1, <1>2 DEF Next, Server, vars

(* Every variable keeps its type, whoever connects, types, leaves or hangs  *)
(* up (initialize(), main() and all of shell()).                            *)
THEOREM TypeCorrect == Spec => []TypeOK
<1> DEFINE Counted == failures \in 0 .. ForkFailures
<1>1. Init => Counted
  BY FdAssumption DEF Init
<1>2. Counted /\ TablesInv /\ [Next]_vars => Counted'
  BY CountedFailures
<1>3. TablesInv /\ Counted => TypeOK
  BY DEF TablesInv, TypeOK
<1> QED BY <1>1, <1>2, <1>3, InitTables, NextTables, PTL DEF Spec

(* The watched sockets, mapUser and the connected clients agree at all      *)
(* times (accept and exit in main() and shell()).                           *)
THEOREM FdsCorrect == Spec => []FdsAgree
<1>1. TablesInv => FdsAgree
  BY DEF TablesInv
<1> QED BY <1>1, InitTables, NextTables, PTL DEF Spec

(* The ID tables agree with mapUser, even with more users than IDs: no      *)
(* lookup by who or by a user-pipe broadcast returns end().                 *)
THEOREM SlotsCorrect == Spec => []SlotsAgree
<1>1. TablesInv => SlotsAgree
  BY DEF TablesInv
<1> QED BY <1>1, InitTables, NextTables, PTL DEF Spec

(* select() covers every user's socket, whatever the uninitialised max_fd   *)
(* holds.                                                                   *)
THEOREM MaxFdCorrect == Spec => []MaxFdCovers
<1>1. TablesInv => MaxFdCovers
  BY DEF TablesInv
<1> QED BY <1>1, InitTables, NextTables, PTL DEF Spec

(* No read() of the single-threaded loop blocks: a socket that select()     *)
(* reported still has input when the scan comes to it, whatever the         *)
(* handlers before it did to the tables.                                    *)
THEOREM ReadyCorrect == Spec => []ReadyIsReadable
<1>1. Init => ReadyIsReadable
  BY DEF Init, ReadyIsReadable
<1> QED BY <1>1, InitTables, NextTables, NextReady, PTL DEF Spec

-----------------------------------------------------------------------------
(* Sessions: the tables while there is an ID for everybody.                 *)

(* Connections a client holds, accepted or not.                             *)
Arrived == {c \in Clients : cli[c] = "waiting"} \cup Online

RoomLeft == IsFiniteSet(Arrived) /\ Cardinality(Arrived) <= MaxOnline

(* What is entered for a line is the pipe of that line.                     *)
ReceiverKeys == \A n \in ID : \A q \in NP_receiver_map[n] : q[2].line = q[1]

SlotsInv ==
  /\ UserFindsSlot /\ NamesDistinct /\ SlotsClean /\ PipeReceiverIsHolder
  /\ NumberPipesAreOwn /\ ReceiverKeys

SessionInv == TablesInv /\ RoomLeft /\ SlotsInv

-----------------------------------------------------------------------------
(* What the handlers that change the tables do to them, in one place.       *)

Enters(c, fd, n) ==
  /\ c \in Clients /\ cli[c] = "waiting" /\ c \notin Online
  /\ fd \in Fds /\ fd \notin LoggedIn
  /\ user_list' = [user_list EXCEPT ![n] = (Free # {}) \/ @]
  /\ mapUser' = [mapUser EXCEPT ![fd] = [ID |-> n, nickname |-> NoName, addr |-> c]]
  /\ fd_table' = [fd_table EXCEPT ![n] = fd]
  /\ conn' = [conn EXCEPT ![fd] = c]
  /\ UNCHANGED <<vecUserNames, session, upipes>>
  /\ wrote' = Greeting(c, Everyone \cup {c})
  /\ LoggedIn' = LoggedIn \cup {fd} /\ Online' = Online \cup {c}

LEMMA AcceptFacts ==
  ASSUME TablesInv, Accept
  PROVE  \E c \in Clients, fd \in Fds, n \in NewIDs : Enters(c, fd, n)
<1>1. PICK fd \in {f \in Fds : conn[f] = NoClient}, n \in NewIDs :
        LET c == Head(backlog) IN
        /\ user_list' = [user_list EXCEPT ![n] = (Free # {}) \/ @]
        /\ mapUser' = [mapUser EXCEPT ![fd] = [ID |-> n, nickname |-> NoName, addr |-> c]]
        /\ fd_table' = [fd_table EXCEPT ![n] = fd]
        /\ conn' = [conn EXCEPT ![fd] = c]
        /\ Send(Greeting(c, Everyone \cup {c}), [cli EXCEPT ![c] = "online"])
  BY DEF Accept
<1> DEFINE c == Head(backlog)
           st == [cli EXCEPT ![c] = "online"]
<1>2. backlog # <<>> /\ UNCHANGED <<vecUserNames, session, upipes>>
  BY DEF Accept
<1>3. c \in Clients /\ cli[c] = "waiting" /\ c \notin Online
  BY <1>2 DEF TablesInv, TablesType, NetType, BacklogOK, Online
<1>4. fd \in Fds /\ fd \notin LoggedIn
  BY ClientAssumption, LoggedInFacts DEF TablesInv
<1>5. n \in ID
  BY NewIDFacts
<1>6. [ID |-> n, nickname |-> NoName, addr |-> c] # NoUser
  BY <1>3, <1>5, UsersNotNoUser DEF User
<1>7. LoggedIn' = LoggedIn \cup {fd}
  BY <1>1, <1>4, <1>6 DEF LoggedIn, TablesInv, TablesType, UsersType
<1>8. cli \in [Clients -> States] /\ st \in [Clients -> States]
  BY DEF TablesInv, TablesType, NetType, States
<1>9. Online' = Online \cup {c}
  <2>1. \A d \in Clients : cli'[d] \in Connected <=> st[d] \in Connected
    BY <1>1, <1>8, SendFacts DEF Send
  <2> QED BY <1>3, <1>8, <2>1 DEF Online, Connected
<1>10. wrote' = Greeting(c, Everyone \cup {c})
  BY <1>1 DEF Send, Deliver
<1>11. Enters(c, fd, n)
  BY <1>1, <1>2, <1>3, <1>4, <1>7, <1>9, <1>10 DEF Enters
<1> QED BY <1>3, <1>4, <1>11

Leaves(c, fd, n) ==
  /\ fd \in LoggedIn /\ fd \in Fds /\ n \in ID /\ c \in Clients /\ c \in Online
  /\ c = conn[fd] /\ n = mapUser[fd].ID
  /\ conn' = [conn EXCEPT ![fd] = NoClient]
  /\ UserLeaves(n, fd) /\ SessionEnds(n)
  /\ user_pipe_bool' = ClearUserPipes(n) /\ user_pipe_table' = user_pipe_table
  /\ LoggedIn' = LoggedIn \ {fd} /\ Online' = Online \ {c}
  /\ wrote' = <<Msg("left", At(LoggedIn'), <<mapUser[fd].nickname>>)>>
  /\ \A gd \in LoggedIn : gd # fd => conn[gd] # c

LEMMA ExitFacts ==
  ASSUME TablesInv, Exit
  PROVE  Leaves(me, sender_fd, user_id)
<1> DEFINE fd == sender_fd
           n  == user_id
           st == [cli EXCEPT ![me] = "left"]
<1>1. /\ Handling("exit")
      /\ conn' = [conn EXCEPT ![fd] = NoClient]
      /\ UserLeaves(n, fd) /\ SessionEnds(n)
      /\ user_pipe_bool' = ClearUserPipes(n) /\ user_pipe_table' = user_pipe_table
      /\ Send(<<Msg("left", At(Range(user_fds')), <<nickname>>)>>, st)
  BY DEF Exit
<1>2. /\ fd \in LoggedIn /\ fd \in Fds /\ mapUser[fd] \in User /\ n \in ID
      /\ me \in Clients /\ cli[me] \in Connected
  BY <1>1, ServingFacts DEF TablesInv
<1>3. mapUser' = [mapUser EXCEPT ![fd] = NoUser]
  BY <1>1 DEF UserLeaves
<1>4. LoggedIn' = LoggedIn \ {fd}
  BY <1>2, <1>3 DEF LoggedIn, TablesInv, TablesType, UsersType
<1>5. cli \in [Clients -> States] /\ st \in [Clients -> States]
  BY DEF TablesInv, TablesType, NetType, States
<1>6. \A d \in Clients : cli'[d] \in Connected <=> st[d] \in Connected
  BY <1>1, <1>5, SendFacts DEF Send
<1>7. Online' = Online \ {me} /\ me \in Online
  BY <1>2, <1>5, <1>6 DEF Online, Connected
<1>8. FdsAgree'
  BY ExitTables DEF TablesInv
<1>9. wrote' = <<Msg("left", At(LoggedIn'), <<nickname>>)>>
  BY <1>1, <1>8 DEF Send, Deliver, FdsAgree
<1>10. \A gd \in LoggedIn : gd # fd => conn[gd] # me
  BY <1>2 DEF TablesInv, FdsAgree, me
<1> QED BY <1>1, <1>2, <1>4, <1>7, <1>9, <1>10 DEF Leaves, me, user_id, nickname

-----------------------------------------------------------------------------
(* Connections are counted: one more is made only below MaxOnline.          *)

LEMMA ReplyArrived ==
  ASSUME TablesInv, NEW op, Handling(op), NEW ms, Answered(ms)
  PROVE  Arrived' = Arrived
<1>1. cli \in [Clients -> States] /\ Deliver(ms, cli)
  BY DEF TablesInv, TablesType, NetType, Answered
<1>2. /\ \A c \in Clients : cli'[c] = "waiting" <=> cli[c] = "waiting"
      /\ \A c \in Clients : cli'[c] \in Connected <=> cli[c] \in Connected
  BY <1>1, SendFacts
<1> QED BY <1>2 DEF Arrived, Online, Connected

LEMMA AcceptArrived ==
  ASSUME TablesInv, Accept
  PROVE  Arrived' = Arrived
<1>1. PICK c \in Clients : /\ cli[c] = "waiting"
                           /\ \E ms : Deliver(ms, [cli EXCEPT ![c] = "online"])
  <2>1. Head(backlog) \in Clients /\ cli[Head(backlog)] = "waiting"
    BY DEF Accept, TablesInv, TablesType, NetType, BacklogOK
  <2>2. \E ms : Deliver(ms, [cli EXCEPT ![Head(backlog)] = "online"])
    BY DEF Accept, Send
  <2> QED BY <2>1, <2>2
<1> DEFINE st == [cli EXCEPT ![c] = "online"]
<1>2. cli \in [Clients -> States] /\ st \in [Clients -> States]
  BY DEF TablesInv, TablesType, NetType, States
<1>3. /\ \A d \in Clients : cli'[d] = "waiting" <=> st[d] = "waiting"
      /\ \A d \in Clients : cli'[d] \in Connected <=> st[d] \in Connected
  BY <1>1, <1>2, SendFacts
<1> QED BY <1>1, <1>2, <1>3 DEF Arrived, Online, Connected

LEMMA ExitArrived ==
  ASSUME TablesInv, Exit
  PROVE  Arrived' \subseteq Arrived
<1> DEFINE st == [cli EXCEPT ![me] = "left"]
<1>1. /\ cli \in [Clients -> States] /\ st \in [Clients -> States]
      /\ \E ms : Deliver(ms, st)
  BY DEF TablesInv, TablesType, NetType, States, Exit, Send
<1>2. /\ \A d \in Clients : cli'[d] = "waiting" <=> st[d] = "waiting"
      /\ \A d \in Clients : cli'[d] \in Connected <=> st[d] \in Connected
  BY <1>1, SendFacts
<1> QED BY <1>1, <1>2 DEF Arrived, Online, Connected

LEMMA RoomStep == TablesInv /\ RoomLeft /\ [Next]_vars => RoomLeft'
<1> SUFFICES ASSUME TablesInv, RoomLeft, [Next]_vars PROVE RoomLeft'
  OBVIOUS
<1> DEFINE n == Cardinality(Arrived)
<1>1. n \in Nat /\ MaxOnline \in Nat
  BY FS_CardinalityType, FdAssumption DEF RoomLeft
<1>2. CASE Arrived' \subseteq Arrived
  <2>1. IsFiniteSet(Arrived') /\ Cardinality(Arrived') \in Nat /\ Cardinality(Arrived') <= n
    BY <1>2, FS_Subset, FS_CardinalityType DEF RoomLeft
  <2> QED BY <1>1, <2>1 DEF RoomLeft
<1>3. CASE \E c \in Clients : Arrived' = Arrived \cup {c} /\ n < MaxOnline
  <2>1. PICK c \in Clients : Arrived' = Arrived \cup {c} /\ n < MaxOnline
    BY <1>3
  <2>2. IsFiniteSet(Arrived') /\ (Cardinality(Arrived') = n \/ Cardinality(Arrived') = n + 1)
    BY <2>1, FS_AddElement DEF RoomLeft
  <2> QED BY <1>1, <2>1, <2>2 DEF RoomLeft
<1>4. cli \in [Clients -> States]
  BY DEF TablesInv, TablesType, NetType
<1>5. CASE Accept
  BY <1>2, <1>5, AcceptArrived
<1>6. CASE Builtin \/ Pipeline
  BY <1>2, <1>6, ExitArrived, ShellReplies, ReplyArrived
<1>7. CASE Select \/ ScanSkip \/ ScanEnd \/ UNCHANGED vars
  BY <1>2, <1>7 DEF Select, ScanSkip, ScanEnd, vars, net, Arrived, Online
<1>8. CASE Client
  <2>1. PICK c \in Clients : Connect(c) \/ HangUp(c) \/ \E l \in Lines : Type(c, l)
    BY <1>8 DEF Client
  <2>2. CASE Connect(c)
    BY <1>3, <1>4, <2>2 DEF Connect, Arrived, Online
  <2>3. CASE HangUp(c)
    BY <1>2, <1>4, <2>3 DEF HangUp, Arrived, Online
  <2>4. CASE \E l \in Lines : Type(c, l)
    BY <1>2, <2>4 DEF Type, Arrived, Online
  <2> QED BY <2>1, <2>2, <2>3, <2>4
<1> QED BY <1>5, <1>6, <1>7, <1>8 DEF Next, Server

(* A connection that waits to be accepted leaves an ID free for it.         *)
LEMMA FreeForNext ==
  ASSUME MaxOnline <= MaxID, TablesInv, RoomLeft, Accept
  PROVE  Free # {}
<1> SUFFICES ASSUME Free = {} PROVE FALSE
  OBVIOUS
<1> DEFINE c == Head(backlog)
           f == [n \in UID |-> conn[fd_table[n]]]
<1>1. c \in Clients /\ c \in Arrived /\ c \notin Online
  BY DEF Accept, TablesInv, TablesType, NetType, BacklogOK, Online, Arrived
<1>2. \A n \in UID : user_list[n]
  BY DEF Free
<1>3. \A n \in UID : fd_table[n] \in LoggedIn /\ mapUser[fd_table[n]].ID = n
  BY <1>2 DEF TablesInv, SlotsAgree
<1>4. \A n \in UID : conn[fd_table[n]] \in Online
  BY <1>3 DEF TablesInv, FdsAgree
<1>5. \A m, n \in UID : conn[fd_table[m]] = conn[fd_table[n]] => m = n
  BY <1>3 DEF TablesInv, FdsAgree
<1>6. f \in Injection(UID, Online)
  BY <1>4, <1>5 DEF Injection, IsInjective
<1>7. IsFiniteSet(Arrived \ {c}) /\ Cardinality(Arrived \ {c}) = Cardinality(Arrived) - 1
  BY <1>1, FS_RemoveElement DEF RoomLeft
<1>8. Online \subseteq Arrived \ {c}
  BY <1>1 DEF Arrived
<1>9. IsFiniteSet(Online) /\ Cardinality(Online) <= Cardinality(Arrived) - 1
  BY <1>7, <1>8, FS_Subset
<1>10. Cardinality(UID) <= Cardinality(Online)
  BY <1>6, <1>9, FS_Injection
<1>11. Cardinality(UID) = MaxID
  BY FS_Interval, IDAssumption DEF UID
<1>12. Cardinality(Arrived) \in Nat /\ Cardinality(Online) \in Nat
  BY <1>9, FS_CardinalityType DEF RoomLeft
<1> QED BY <1>9, <1>10, <1>11, <1>12, FdAssumption, IDAssumption DEF RoomLeft

-----------------------------------------------------------------------------
(* Every step keeps IDs, names, environments and pipes with their holders.  *)

(* From a user's socket to its ID and back.                                 *)
LEMMA HolderFacts ==
  ASSUME TablesInv, UserFindsSlot, NEW fd \in LoggedIn
  PROVE  /\ mapUser[fd].ID \in UID /\ mapUser[fd].ID \in ID
         /\ fd_table[mapUser[fd].ID] = fd /\ user_list[mapUser[fd].ID]
         /\ \A gd \in LoggedIn : gd # fd => mapUser[gd].ID # mapUser[fd].ID
<1>1. mapUser[fd].ID \in UID /\ fd_table[mapUser[fd].ID] = fd
  BY DEF UserFindsSlot
<1>2. fd # -1
  BY FdAssumption DEF LoggedIn
<1>3. user_list[mapUser[fd].ID]
  BY <1>1, <1>2 DEF TablesInv, SlotsAgree
<1> QED BY <1>1, <1>3, IDAssumption DEF UserFindsSlot, UID, ID

(* What a handler starts from, when its user has an ID.                     *)
LEMMA ServingHolder ==
  ASSUME TablesInv, UserFindsSlot, NEW op, Handling(op)
  PROVE  /\ user_id \in UID /\ user_id \in ID /\ user_list[user_id]
         /\ fd_table[user_id] = sender_fd /\ conn[fd_table[user_id]] = me
         /\ sender_fd \in LoggedIn /\ sender_fd \in Fds
<1>1. sender_fd \in LoggedIn /\ sender_fd \in Fds
  BY ServingFacts DEF TablesInv
<1> QED BY <1>1, HolderFacts DEF user_id, me

LEMMA AcceptSlots ==
  ASSUME MaxOnline <= MaxID, SessionInv, Accept
  PROVE  SlotsInv'
<1> USE DEF SessionInv, SlotsInv
<1>1. PICK c \in Clients, fd \in Fds, n \in NewIDs : Enters(c, fd, n)
  BY AcceptFacts
<1>2. Free # {} /\ n \in UID /\ n \in ID /\ ~user_list[n]
  BY FreeForNext, NewIDFacts
<1>3. /\ user_list \in [ID -> BOOLEAN] /\ fd_table \in [ID -> Fds \cup {-1}]
      /\ mapUser \in [Fds -> User \cup {NoUser}]
      /\ conn \in [Fds -> Clients \cup {NoClient}]
      /\ \A m \in UID : m \in ID
  BY IDAssumption DEF TablesInv, TablesType, UsersType, NetType, UID, ID
<1>4. /\ user_list'[n] /\ fd_table'[n] = fd
      /\ \A m \in UID : m # n => user_list'[m] = user_list[m] /\ fd_table'[m] = fd_table[m]
  BY <1>1, <1>2, <1>3 DEF Enters
<1>5. /\ fd \notin LoggedIn /\ LoggedIn' = LoggedIn \cup {fd}
      /\ mapUser'[fd].ID = n /\ mapUser'[fd].nickname = NoName /\ conn'[fd] = c
      /\ \A gd \in LoggedIn : /\ gd \in Fds /\ gd # fd
                              /\ mapUser'[gd] = mapUser[gd] /\ conn'[gd] = conn[gd]
  BY <1>1, <1>3 DEF Enters, LoggedIn
<1>6. \A gd \in LoggedIn : /\ mapUser[gd].ID \in UID /\ mapUser[gd].ID # n
                           /\ fd_table[mapUser[gd].ID] = gd
  BY <1>2, HolderFacts
<1>7. \A m \in UID : user_list[m] => m # n /\ fd_table[m] \in LoggedIn
  BY <1>2 DEF TablesInv, SlotsAgree
<1>8. UNCHANGED <<vecUserNames, session, upipes>>
  BY <1>1 DEF Enters
<1>9. UserFindsSlot'
  BY <1>2, <1>4, <1>5, <1>6 DEF UserFindsSlot
<1>10. NamesDistinct'
  <2>1. vecUserNames[n] = NoName
    BY <1>2 DEF SlotsClean
  <2> QED BY <1>5, <1>8, <2>1 DEF NamesDistinct
<1>11. SlotsClean'
  BY <1>4, <1>8 DEF SlotsClean, session, upipes
<1>12. PipeReceiverIsHolder'
  BY <1>4, <1>5, <1>7, <1>8 DEF PipeReceiverIsHolder, upipes
<1>13. NumberPipesAreOwn'
  BY <1>4, <1>5, <1>7, <1>8 DEF NumberPipesAreOwn, session
<1>14. ReceiverKeys'
  BY <1>8 DEF ReceiverKeys, session
<1> QED BY <1>9, <1>10, <1>11, <1>12, <1>13, <1>14

LEMMA ExitSlots ==
  ASSUME SessionInv, Exit
  PROVE  SlotsInv'
<1> USE DEF SessionInv, SlotsInv
<1> DEFINE fd == sender_fd
           n  == user_id
<1>1. Leaves(me, fd, n)
  BY ExitFacts
<1>2. n \in UID /\ n \in ID /\ fd_table[n] = fd /\ fd \in LoggedIn /\ n = mapUser[fd].ID
  BY <1>1, HolderFacts DEF Leaves
<1> HIDE DEF fd, n
<1>3. /\ user_list \in [ID -> BOOLEAN] /\ fd_table \in [ID -> Fds \cup {-1}]
      /\ mapUser \in [Fds -> User \cup {NoUser}]
      /\ conn \in [Fds -> Clients \cup {NoClient}]
      /\ vecUserNames \in [ID -> Names \cup {NoName}]
      /\ \A m \in UID : m \in ID
  BY IDAssumption DEF TablesInv, TablesType, UsersType, NetType, UID, ID
<1>4. /\ ~user_list'[n] /\ vecUserNames'[n] = NoName
      /\ \A m \in ID : m # n => /\ user_list'[m] = user_list[m]
                                /\ fd_table'[m] = fd_table[m]
                                /\ vecUserNames'[m] = vecUserNames[m]
  BY <1>1, <1>2, <1>3 DEF Leaves, UserLeaves
<1>5. /\ LoggedIn' = LoggedIn \ {fd}
      /\ \A gd \in LoggedIn' : /\ gd \in LoggedIn /\ gd # fd
                               /\ mapUser'[gd] = mapUser[gd] /\ conn'[gd] = conn[gd]
  BY <1>1, <1>3 DEF Leaves, UserLeaves, LoggedIn
<1>6. \A gd \in LoggedIn' : /\ mapUser[gd].ID \in UID /\ mapUser[gd].ID \in ID
                            /\ mapUser[gd].ID # n /\ fd_table[mapUser[gd].ID] = gd
  BY <1>2, <1>5, HolderFacts
<1>7. \A m \in UID : user_list[m] /\ m # n => /\ fd_table[m] \in LoggedIn'
                                              /\ conn'[fd_table[m]] = conn[fd_table[m]]
  BY <1>2, <1>5 DEF TablesInv, SlotsAgree
<1>8. /\ instr_cnt'[n] = 0 /\ NP_sender_map'[n] = {} /\ NP_receiver_map'[n] = {}
      /\ env_map'[n] = InitialEnv
      /\ \A m \in ID : m # n => /\ instr_cnt'[m] = instr_cnt[m]
                                /\ NP_sender_map'[m] = NP_sender_map[m]
                                /\ NP_receiver_map'[m] = NP_receiver_map[m]
                                /\ env_map'[m] = env_map[m]
  BY <1>1, <1>2 DEF Leaves, SessionEnds, TablesInv, TablesType, SessionType
<1>9. /\ \A s \in ID : ~user_pipe_bool'[s][n]
      /\ \A s \in ID, m \in ID : m # n => user_pipe_bool'[s][m] = user_pipe_bool[s][m]
      /\ user_pipe_table' = user_pipe_table
  BY <1>1, <1>2 DEF Leaves, ClearUserPipes, TablesInv, TablesType, PipesType
<1>10. UserFindsSlot'
  BY <1>4, <1>5, <1>6 DEF UserFindsSlot
<1>11. NamesDistinct'
  BY <1>4, <1>5, <1>6 DEF NamesDistinct
<1>12. SlotsClean'
  BY <1>3, <1>4, <1>8, <1>9 DEF SlotsClean
<1>13. PipeReceiverIsHolder'
  BY <1>3, <1>4, <1>7, <1>9 DEF PipeReceiverIsHolder
<1>14. NumberPipesAreOwn'
  BY <1>3, <1>4, <1>7, <1>8 DEF NumberPipesAreOwn
<1>15. ReceiverKeys'
  BY <1>8 DEF ReceiverKeys
<1> QED BY <1>10, <1>11, <1>12, <1>13, <1>14, <1>15

LEMMA NameSlots ==
  ASSUME SessionInv, Name
  PROVE  SlotsInv'
<1> USE DEF SessionInv, SlotsInv
<1> DEFINE fd == sender_fd
           n  == user_id
           name == Received.name
<1>1. /\ Handling("name") /\ \E ms : Answered(ms)
      /\ vecUserNames' = [vecUserNames EXCEPT ![n] = name]
      /\ mapUser' = [mapUser EXCEPT ![fd].nickname = name]
      /\ UNCHANGED <<user_list, fd_table, session, upipes>>
      /\ \A m \in ID : vecUserNames[m] # name
  BY Answers DEF Name, NameExists
<1>2. conn' = conn
  BY <1>1, ReplyFacts
<1>3. /\ n \in UID /\ n \in ID /\ user_list[n] /\ fd \in LoggedIn /\ fd \in Fds
      /\ n = mapUser[fd].ID /\ mapUser[fd] \in User
  BY <1>1, ServingHolder, LoggedInFacts DEF user_id, TablesInv
<1> HIDE DEF fd, n, name
<1>4. /\ vecUserNames'[n] = name
      /\ \A m \in ID : m # n => vecUserNames'[m] = vecUserNames[m]
  BY <1>1, <1>3 DEF TablesInv, TablesType, UsersType
<1>5. /\ mapUser'[fd].ID = n /\ mapUser'[fd].nickname = name
      /\ \A gd \in Fds : gd # fd => mapUser'[gd] = mapUser[gd]
  BY <1>1, <1>3 DEF TablesInv, TablesType, UsersType, User
<1>6. LoggedIn' = LoggedIn
  <2>1. mapUser'[fd] # NoUser
    BY <1>3, <1>5, IDAssumption DEF NoUser, None, UID
  <2> QED BY <1>3, <1>5, <2>1 DEF LoggedIn
<1>7. \A gd \in LoggedIn : gd # fd => mapUser[gd].ID # n /\ mapUser[gd].ID \in ID
  BY <1>3, HolderFacts
<1>8. UserFindsSlot'
  BY <1>1, <1>3, <1>5, <1>6 DEF UserFindsSlot, LoggedIn
<1>9. NamesDistinct'
  <2>1. \A gd \in LoggedIn : vecUserNames'[mapUser'[gd].ID] = mapUser'[gd].nickname
    BY <1>4, <1>5, <1>7 DEF NamesDistinct, LoggedIn
  <2>2. \A l, m \in ID : vecUserNames'[l] = vecUserNames'[m] /\ l # m
                          => vecUserNames'[l] = NoName
    BY <1>1, <1>4 DEF NamesDistinct
  <2> QED BY <1>6, <2>1, <2>2 DEF NamesDistinct
<1>10. SlotsClean'
  <2>1. \A m \in UID : m \in ID
    BY IDAssumption DEF UID, ID
  <2> QED BY <1>1, <1>3, <1>4, <2>1 DEF SlotsClean, session, upipes
<1>11. PipeReceiverIsHolder' /\ NumberPipesAreOwn' /\ ReceiverKeys'
  BY <1>1, <1>2 DEF PipeReceiverIsHolder, NumberPipesAreOwn, ReceiverKeys, session, upipes
<1> QED BY <1>8, <1>9, <1>10, <1>11

(* A line that leaves users, sessions and pipes alone leaves them right.    *)
LEMMA QuietSlots ==
  ASSUME SessionInv, NEW op, Handling(op), NEW ms, Answered(ms),
         UNCHANGED <<mapUser, user_list, fd_table, vecUserNames, session, upipes>>
  PROVE  SlotsInv'
<1>1. conn' = conn
  BY ReplyFacts DEF SessionInv
<1> QED BY <1>1 DEF SessionInv, SlotsInv, UserFindsSlot, NamesDistinct, SlotsClean,
                    PipeReceiverIsHolder, NumberPipesAreOwn, ReceiverKeys, LoggedIn,
                    session, upipes

LEMMA SetenvSlots ==
  ASSUME SessionInv, Setenv
  PROVE  SlotsInv'
<1> USE DEF SessionInv, SlotsInv
<1>1. /\ Handling("setenv") /\ Reply(<<>>)
      /\ env_map' = [env_map EXCEPT ![user_id] = SetIn(@, Received.var, Received.val)]
      /\ UNCHANGED <<mapUser, user_list, fd_table, vecUserNames, instr_cnt,
                     NP_sender_map, NP_receiver_map, upipes>>
  BY DEF Setenv
<1>2. conn' = conn
  BY <1>1, Answers, ReplyFacts
<1>3. user_list[user_id]
  BY <1>1, ServingHolder
<1>4. SlotsClean'
  <2>1. \A m \in UID : m \in ID
    BY IDAssumption DEF UID, ID
  <2>2. \A m \in ID : ~user_list[m] => env_map'[m] = env_map[m]
    BY <1>1, <1>3 DEF TablesInv, TablesType, SessionType
  <2> QED BY <1>1, <2>1, <2>2 DEF SlotsClean, upipes
<1> QED BY <1>1, <1>2, <1>4 DEF UserFindsSlot, NamesDistinct, PipeReceiverIsHolder,
                               NumberPipesAreOwn, ReceiverKeys, LoggedIn, upipes

(* The pipe a line ending in |N takes or makes is this session's pipe to    *)
(* the line N further on.                                                   *)
LEMMA TargetFacts ==
  ASSUME SessionInv, NEW op, Handling(op), NEW num \in Nat
  PROVE  Target(user_id, num) = [by |-> me, line |-> instr_cnt[user_id] + num]
<1> DEFINE n == user_id
           key == instr_cnt[n] + num
           known == {q \in NP_receiver_map[n] : q[1] = key}
<1>1. n \in UID /\ n \in ID /\ conn[fd_table[n]] = me
  BY ServingHolder DEF SessionInv, SlotsInv
<1>2. CASE known = {}
  BY <1>2 DEF Target, Reader
<1>3. CASE known # {}
  <2> DEFINE q == CHOOSE p \in known : TRUE
  <2>1. q \in NP_receiver_map[n] /\ q[1] = key
    BY <1>3
  <2>2. q[2] \in NumberPipe
    BY <1>1, <2>1 DEF SessionInv, TablesInv, TablesType, SessionType
  <2>3. q[2].line = key /\ q[2].by = me
    BY <1>1, <2>1 DEF SessionInv, SlotsInv, ReceiverKeys, NumberPipesAreOwn
  <2>4. q[2] = [by |-> me, line |-> key]
    BY <2>2, <2>3 DEF NumberPipe
  <2>5. Target(n, num) = q[2]
    BY <1>3 DEF Target, Reader
  <2> QED BY <2>4, <2>5
<1> QED BY <1>2, <1>3

(* map::insert keeps what there is, and gives no line a second pipe.        *)
LEMMA InsertFacts ==
  ASSUME NEW m, NEW k, NEW p
  PROVE  /\ m \subseteq Insert(m, k, p)
         /\ \A q \in Insert(m, k, p) : q \in m \/ q = <<k, p>>
         /\ \E q \in Insert(m, k, p) : q[1] = k
         /\ Entry(m, k) = {} => Entry(Insert(m, k, p), k) = {p}
         /\ Entry(m, k) # {} => Insert(m, k, p) = m
         /\ (\A q, r \in m : q[1] = r[1] => q = r)
              => \A q, r \in Insert(m, k, p) : q[1] = r[1] => q = r
<1>1. <<k, p>>[1] = k /\ <<k, p>>[2] = p
  OBVIOUS
<1>2. CASE \E q \in m : q[1] = k
  <2>1. Insert(m, k, p) = m
    BY <1>2 DEF Insert
  <2>2. Entry(m, k) # {}
    BY <1>2 DEF Entry
  <2> QED BY <1>2, <2>1, <2>2
<1>3. CASE ~\E q \in m : q[1] = k
  <2>1. Insert(m, k, p) = m \cup {<<k, p>>}
    BY <1>3 DEF Insert
  <2>2. Entry(m, k) = {}
    BY <1>3 DEF Entry
  <2>3. Entry(m \cup {<<k, p>>}, k) = {p}
    BY <1>1, <1>3 DEF Entry
  <2> QED BY <1>1, <1>3, <2>1, <2>2, <2>3
<1> QED BY <1>2, <1>3

(* What NPInsert may add to the maps of the user, and to no others.         *)
LEMMA NPInsertFacts ==
  ASSUME SessionInv, NEW op, Handling(op), NEW num \in Nat, NPInsert(user_id, num)
  PROVE  LET n == user_id
             pipe == [by |-> me, line |-> instr_cnt[n] + num]
         IN  /\ \A m \in ID : m # n => /\ NP_sender_map'[m] = NP_sender_map[m]
                                        /\ NP_receiver_map'[m] = NP_receiver_map[m]
             /\ num = 0 => /\ NP_sender_map'[n] = NP_sender_map[n]
                           /\ NP_receiver_map'[n] = NP_receiver_map[n]
             /\ num # 0 => /\ NP_sender_map'[n] =
                                 Insert(NP_sender_map[n], instr_cnt[n], pipe)
                           /\ NP_receiver_map'[n] =
                                 Insert(NP_receiver_map[n], instr_cnt[n] + num, pipe)
<1> DEFINE n == user_id
           pipe == [by |-> me, line |-> instr_cnt[n] + num]
<1>1. n \in ID
  BY ServingHolder DEF SessionInv, SlotsInv
<1>2. Target(n, num) = pipe /\ Reader(n, num) = instr_cnt[n] + num
  BY TargetFacts DEF Reader
<1>3. NP_sender_map \in [ID -> SUBSET (Nat \X NumberPipe)]
      /\ NP_receiver_map \in [ID -> SUBSET (Nat \X NumberPipe)]
  BY DEF SessionInv, TablesInv, TablesType, SessionType
<1>4. CASE num = 0
  BY <1>4 DEF NPInsert
<1>5. CASE num # 0
  <2>1. /\ NP_sender_map' = [NP_sender_map EXCEPT ![n] = Insert(@, instr_cnt[n], pipe)]
        /\ NP_receiver_map' = [NP_receiver_map EXCEPT ![n] =
                                 Insert(@, instr_cnt[n] + num, pipe)]
    BY <1>2, <1>5 DEF NPInsert
  <2> HIDE DEF n, pipe
  <2>2. /\ NP_sender_map'[n] = Insert(NP_sender_map[n], instr_cnt[n], pipe)
        /\ NP_receiver_map'[n] = Insert(NP_receiver_map[n], instr_cnt[n] + num, pipe)
        /\ \A m \in ID : m # n => /\ NP_sender_map'[m] = NP_sender_map[m]
                                  /\ NP_receiver_map'[m] = NP_receiver_map[m]
    BY <1>1, <1>3, <2>1
  <2> QED BY <1>5, <2>2 DEF n, pipe
<1> QED BY <1>4, <1>5

(* What is known of the entries of one user survives NPInsert.              *)
PipesOfLines(snd, rcv) ==
  /\ \A q, r \in snd : q[1] = r[1] => q = r
  /\ \A q, r \in rcv : q[1] = r[1] => q = r
  /\ \A q \in snd : \E r \in rcv : r[2] = q[2] /\ r[1] > q[1]

LEMMA NPInsertKeeps ==
  ASSUME SessionInv, NEW op, Handling(op), NEW num \in Nat, NPInsert(user_id, num)
  PROVE  LET n == user_id
             pipe == [by |-> me, line |-> instr_cnt[n] + num]
         IN  /\ PipesOfLines(NP_sender_map'[n], NP_receiver_map'[n])
             /\ \A q \in NP_sender_map'[n] :
                  q \in NP_sender_map[n] \/ q = <<instr_cnt[n], pipe>>
             /\ \A q \in NP_receiver_map'[n] :
                  q \in NP_receiver_map[n] \/ q = <<instr_cnt[n] + num, pipe>>
             /\ NP_sender_map[n] \subseteq NP_sender_map'[n]
             /\ NP_receiver_map[n] \subseteq NP_receiver_map'[n]
             /\ num # 0 => Entry(NP_receiver_map'[n], instr_cnt[n] + num) = {pipe}
<1> DEFINE n == user_id
           cnt == instr_cnt[n]
           key == cnt + num
           pipe == [by |-> me, line |-> key]
           snd == NP_sender_map[n]
           rcv == NP_receiver_map[n]
<1>1. n \in UID /\ n \in ID /\ me = conn[fd_table[n]] /\ cnt \in Nat
  BY ServingHolder DEF SessionInv, SlotsInv, TablesInv, TablesType, SessionType
<1>2. PipesOfLines(snd, rcv)
  BY <1>1 DEF SessionInv, SlotsInv, NumberPipesAreOwn, PipesOfLines
<1>3. \A q \in rcv : q[1] = key => q[2] = pipe
  <2> SUFFICES ASSUME NEW q \in rcv, q[1] = key PROVE q[2] = pipe
    OBVIOUS
  <2>1. q[2] \in NumberPipe
    BY <1>1 DEF SessionInv, TablesInv, TablesType, SessionType
  <2>2. q[2].by = me /\ q[2].line = key
    BY <1>1 DEF SessionInv, SlotsInv, NumberPipesAreOwn, ReceiverKeys
  <2> QED BY <2>1, <2>2 DEF NumberPipe
<1>4. CASE num = 0
  <2>1. NP_sender_map'[n] = snd /\ NP_receiver_map'[n] = rcv
    BY <1>4, NPInsertFacts
  <2> QED BY <1>2, <1>4, <2>1
<1>5. CASE num # 0
  <2> DEFINE s2 == Insert(snd, cnt, pipe)
             r2 == Insert(rcv, key, pipe)
  <2>1. NP_sender_map'[n] = s2 /\ NP_receiver_map'[n] = r2
    BY <1>5, NPInsertFacts
  <2>2. /\ snd \subseteq s2 /\ \A q \in s2 : q \in snd \/ q = <<cnt, pipe>>
        /\ (\A q, r \in snd : q[1] = r[1] => q = r)
             => \A q, r \in s2 : q[1] = r[1] => q = r
    BY InsertFacts
  <2>3. /\ rcv \subseteq r2 /\ \A q \in r2 : q \in rcv \/ q = <<key, pipe>>
        /\ \E q \in r2 : q[1] = key
        /\ (\A q, r \in rcv : q[1] = r[1] => q = r)
             => \A q, r \in r2 : q[1] = r[1] => q = r
    BY InsertFacts
  <2>4. key > cnt
    BY <1>1, <1>5
  <2> HIDE DEF n, cnt, key, pipe, snd, rcv, s2, r2
  <2>5. Entry(r2, key) = {pipe}
    BY <1>3, <2>3 DEF Entry
  <2>6. PICK e \in r2 : e[1] = key /\ e[2] = pipe
    BY <2>5 DEF Entry
  <2>7. \A q \in s2 : \E r \in r2 : r[2] = q[2] /\ r[1] > q[1]
    <3> SUFFICES ASSUME NEW q \in s2 PROVE \E r \in r2 : r[2] = q[2] /\ r[1] > q[1]
      OBVIOUS
    <3>1. CASE q \in snd
      BY <1>2, <2>3, <3>1 DEF PipesOfLines
    <3>2. CASE q = <<cnt, pipe>>
      BY <2>4, <2>6, <3>2
    <3> QED BY <2>2, <3>1, <3>2
  <2>8. PipesOfLines(s2, r2)
    BY <1>2, <2>2, <2>3, <2>7 DEF PipesOfLines
  <2> QED BY <2>1, <2>2, <2>3, <2>5, <2>8 DEF n, cnt, key, pipe, snd, rcv
<1> QED BY <1>4, <1>5

(* The user pipes before and after a line: what is not the new one has been *)
(* there before.                                                            *)
LEMMA UserPipeFacts ==
  ASSUME SessionInv, Pipeline
  PROVE  \A s, r \in ID : user_pipe_bool'[s][r] =>
           \/ user_pipe_bool[s][r] /\ user_pipe_table'[s][r] = user_pipe_table[s][r]
           \/ /\ r \in UID /\ user_list[r] /\ user_pipe_table'[s][r].to = conn[fd_table[r]]
<1> USE DEF SessionInv, SlotsInv
<1>1. Handling("run")
  BY PipelineFrame
<1>2. /\ user_id \in ID /\ Received.in \in {None} \cup ID
      /\ Received.out \in {None} \cup UID /\ \A m \in UID : m \in ID
  BY <1>1, ServingHolder, ServingFacts, LineFields, IDAssumption DEF TablesInv, UID, ID
<1>3. /\ user_pipe_bool \in [ID -> [ID -> BOOLEAN]]
      /\ user_pipe_table \in [ID -> [ID -> Pipe \cup {NoPipe}]]
  BY DEF TablesInv, TablesType, PipesType
<1>4. /\ Consumed \in [ID -> [ID -> BOOLEAN]] /\ Seen \in [ID -> [ID -> BOOLEAN]]
      /\ \A s, r \in ID : Consumed[s][r] => user_pipe_bool[s][r]
      /\ \A s, r \in ID : Seen[s][r] => user_pipe_bool[s][r]
  BY <1>2, <1>3 DEF Consumed, Seen
<1>5. CASE RunInputError \/ RunOutputError \/ RunStops
  <2>1. user_pipe_bool' \in {user_pipe_bool, Consumed, Seen} /\ user_pipe_table' = user_pipe_table
    BY <1>5 DEF RunInputError, RunOutputError, RunStops, upipes
  <2> QED BY <1>4, <2>1
<1>6. CASE Run \/ RunRetried
  <2>1. OutputError = "none" /\ PipeRecorded
    BY <1>6 DEF Run, RunRetried, Started
  <2>2. PICK bools \in {Consumed, Seen} : user_pipe_bool' = OpenedIn(bools)
    BY <1>6 DEF Run, RunRetried
  <2>3. CASE Received.out = None
    BY <1>4, <2>1, <2>2, <2>3 DEF OpenedIn, PipeRecorded
  <2>4. CASE Received.out # None
    <3>1. Received.out \in UID /\ Received.out \in ID /\ user_list[Received.out]
      BY <1>2, <2>1, <2>4 DEF OutputError
    <3>2. /\ user_pipe_table'[user_id][Received.out] = NewPipe
          /\ \A s, r \in ID : s # user_id \/ r # Received.out
               => /\ user_pipe_table'[s][r] = user_pipe_table[s][r]
                  /\ user_pipe_bool'[s][r] = bools[s][r]
      BY <1>2, <1>3, <1>4, <2>1, <2>2, <2>4, <3>1 DEF OpenedIn, PipeRecorded
    <3>3. NewPipe.to = conn[fd_table[Received.out]]
      BY DEF NewPipe
    <3> QED BY <1>4, <3>1, <3>2, <3>3
  <2> QED BY <2>3, <2>4
<1> QED BY <1>5, <1>6 DEF Pipeline

LEMMA RunSlots ==
  ASSUME SessionInv, Pipeline
  PROVE  SlotsInv'
<1> USE DEF SessionInv, SlotsInv
<1> DEFINE n == user_id
<1>1. /\ Handling("run") /\ \E ms : Answered(ms)
      /\ UNCHANGED <<mapUser, user_list, fd_table, vecUserNames, env_map>>
  BY PipelineFrame
<1>2. conn' = conn
  BY <1>1, ReplyFacts
<1>3. n \in UID /\ n \in ID /\ user_list[n] /\ conn[fd_table[n]] = me
  BY <1>1, ServingHolder
<1>4. \A m \in UID : m \in ID
  BY IDAssumption DEF UID, ID
<1>5. PICK num \in Nat : NPInsert(n, num)
  <2>1. Received.num \in Nat
    BY <1>1, ServingFacts, LineFields DEF TablesInv
  <2> QED BY <2>1, PipelineFrame
<1> DEFINE pipe == [by |-> me, line |-> instr_cnt[n] + num]
<1>6. \A m \in ID : m # n => /\ NP_sender_map'[m] = NP_sender_map[m]
                             /\ NP_receiver_map'[m] = NP_receiver_map[m]
  BY <1>1, <1>5, NPInsertFacts
<1>7. /\ PipesOfLines(NP_sender_map'[n], NP_receiver_map'[n])
      /\ \A q \in NP_sender_map'[n] :
           q \in NP_sender_map[n] \/ q = <<instr_cnt[n], pipe>>
      /\ \A q \in NP_receiver_map'[n] :
           q \in NP_receiver_map[n] \/ q = <<instr_cnt[n] + num, pipe>>
  BY <1>1, <1>5, NPInsertKeeps
<1>8. \A m \in ID : m # n => instr_cnt'[m] = instr_cnt[m]
  BY <1>3, PipelineFrame DEF TablesInv, TablesType, SessionType
<1>9. \A s, r \in ID : user_pipe_bool'[s][r] =>
        \/ user_pipe_bool[s][r] /\ user_pipe_table'[s][r] = user_pipe_table[s][r]
        \/ r \in UID /\ user_list[r] /\ user_pipe_table'[s][r].to = conn[fd_table[r]]
  BY UserPipeFacts
<1> HIDE DEF n
<1>10. UserFindsSlot' /\ NamesDistinct'
  BY <1>1 DEF UserFindsSlot, NamesDistinct, LoggedIn
<1>11. SlotsClean'
  BY <1>1, <1>3, <1>4, <1>6, <1>8, <1>9 DEF SlotsClean
<1>12. PipeReceiverIsHolder'
  BY <1>1, <1>2, <1>4, <1>9 DEF PipeReceiverIsHolder
<1>13. NumberPipesAreOwn'
  <2>1. ASSUME NEW m \in UID, NEW q \in NP_sender_map'[m] \cup NP_receiver_map'[m]
        PROVE  user_list[m] /\ q[2].by = conn[fd_table[m]]
    <3>1. CASE q \in NP_sender_map[m] \cup NP_receiver_map[m]
      BY <3>1 DEF NumberPipesAreOwn
    <3>2. CASE m = n /\ q[2] = pipe
      BY <1>3, <3>2
    <3> QED BY <1>4, <1>6, <1>7, <2>1, <3>1, <3>2
  <2>2. ASSUME NEW m \in UID PROVE PipesOfLines(NP_sender_map'[m], NP_receiver_map'[m])
    <3>1. CASE m = n
      BY <1>7, <3>1
    <3>2. CASE m # n
      BY <1>4, <1>6, <3>2 DEF NumberPipesAreOwn, PipesOfLines
    <3> QED BY <3>1, <3>2
  <2> QED BY <1>1, <1>2, <2>1, <2>2 DEF NumberPipesAreOwn, PipesOfLines
<1>14. ReceiverKeys'
  BY <1>6, <1>7 DEF ReceiverKeys
<1> QED BY <1>10, <1>11, <1>12, <1>13, <1>14

LEMMA NextSession == MaxOnline <= MaxID /\ SessionInv /\ [Next]_vars => SessionInv'
<1> SUFFICES ASSUME MaxOnline <= MaxID, SessionInv, [Next]_vars PROVE SessionInv'
  OBVIOUS
<1> SUFFICES SlotsInv'
  BY NextTables, RoomStep DEF SessionInv
<1>1. CASE Accept
  BY <1>1, AcceptSlots
<1>2. CASE UNCHANGED <<users, session, upipes, conn>>
  BY <1>2 DEF users, session, upipes, SessionInv, SlotsInv, UserFindsSlot, NamesDistinct,
              SlotsClean, PipeReceiverIsHolder, NumberPipesAreOwn, ReceiverKeys, LoggedIn
<1>3. CASE Select \/ ScanSkip \/ ScanEnd \/ Client \/ UNCHANGED vars
  BY <1>2, <1>3 DEF Select, ScanSkip, ScanEnd, Client, Connect, HangUp, Type, server, net, vars
<1>4. CASE Empty \/ Yell \/ NameRefused \/ Who \/ Tell \/ TellNobody \/ Printenv
  <2>1. /\ \E op, ms : Handling(op) /\ Answered(ms)
        /\ UNCHANGED <<mapUser, user_list, fd_table, vecUserNames, session, upipes>>
    BY <1>4, Answers DEF Empty, Yell, NameRefused, Who, Tell, TellNobody, Printenv
  <2> QED BY <2>1, QuietSlots
<1>5. CASE Exit \/ Name \/ Setenv \/ Pipeline
  BY <1>5, ExitSlots, NameSlots, SetenvSlots, RunSlots
<1> QED BY <1>1, <1>3, <1>4, <1>5 DEF Next, Server, Builtin

LEMMA InitSession == Init => SessionInv
<1> SUFFICES ASSUME Init PROVE SessionInv
  OBVIOUS
<1>1. Arrived = {} /\ LoggedIn = {}
  BY DEF Init, Arrived, Online, LoggedIn
<1>2. RoomLeft
  BY <1>1, FS_EmptySet, FdAssumption DEF RoomLeft
<1>3. \A n \in UID : n \in ID
  BY IDAssumption DEF UID, ID
<1>4. UserFindsSlot /\ NamesDistinct
  BY <1>1 DEF Init, UserFindsSlot, NamesDistinct
<1>5. SlotsClean
  BY <1>3 DEF Init, SlotsClean
<1>6. PipeReceiverIsHolder
  BY <1>3 DEF Init, PipeReceiverIsHolder
<1>7. NumberPipesAreOwn /\ ReceiverKeys
  BY <1>3 DEF Init, NumberPipesAreOwn, ReceiverKeys
<1> QED BY <1>2, <1>4, <1>5, <1>6, <1>7, InitTables DEF SessionInv, SlotsInv

-----------------------------------------------------------------------------
(* Broadcasts. *)

Announces(ms, people) == \A k \in DOMAIN ms : ms[k].msg \in Broadcasts => ms[k].to = people

LEMMA EveryoneFacts == TablesInv => Everyone = Online
<1> SUFFICES ASSUME TablesInv PROVE Everyone = Online
  OBVIOUS
<1>1. Range(user_fds) = LoggedIn /\ Online = {conn[fd] : fd \in LoggedIn}
  BY DEF TablesInv, FdsAgree
<1>2. \A fd \in LoggedIn : fd \in Fds
  BY DEF LoggedIn
<1> QED BY <1>1, <1>2 DEF Everyone, At, Online

(* The loops over the ID tables reach the same people.                      *)
LEMMA ListedFacts == TablesInv /\ UserFindsSlot => Listed = Online
<1> SUFFICES ASSUME TablesInv, UserFindsSlot PROVE Listed = Online
  OBVIOUS
<1> DEFINE used == {fd_table[n] : n \in {m \in UID : user_list[m]}}
<1>1. used \subseteq LoggedIn
  BY DEF TablesInv, SlotsAgree
<1>2. LoggedIn \subseteq used
  <2> SUFFICES ASSUME NEW fd \in LoggedIn PROVE fd \in used
    OBVIOUS
  <2> QED BY HolderFacts
<1>3. used = LoggedIn
  BY <1>1, <1>2
<1>4. Listed = At(LoggedIn)
  BY <1>3 DEF Listed
<1>5. At(LoggedIn) = Everyone
  BY DEF Everyone, TablesInv, FdsAgree
<1> QED BY <1>4, <1>5, EveryoneFacts

LEMMA AnnouncesConcat ==
  ASSUME NEW S, NEW s \in Seq(S), NEW t \in Seq(S), NEW people,
         Announces(s, people), Announces(t, people)
  PROVE  s \o t \in Seq(S) /\ Announces(s \o t, people)
<1> SUFFICES ASSUME NEW k \in DOMAIN (s \o t), (s \o t)[k].msg \in Broadcasts
             PROVE  (s \o t)[k].to = people
  BY DEF Announces
<1>1. /\ DOMAIN s = 1 .. Len(s) /\ DOMAIN t = 1 .. Len(t) /\ Len(s) \in Nat /\ Len(t) \in Nat
      /\ DOMAIN (s \o t) = 1 .. Len(s) + Len(t)
      /\ (s \o t)[k] = IF k <= Len(s) THEN s[k] ELSE t[k - Len(s)]
  OBVIOUS
<1>2. CASE k <= Len(s)
  BY <1>1, <1>2 DEF Announces
<1>3. CASE ~(k <= Len(s))
  <2>1. k - Len(s) \in DOMAIN t
    BY <1>1, <1>3
  <2> QED BY <1>1, <1>3, <2>1 DEF Announces
<1> QED BY <1>2, <1>3

LEMMA AnnouncesOne ==
  ASSUME NEW m, NEW people, m.msg \in Broadcasts => m.to = people
  PROVE  Announces(<<m>>, people) /\ Announces(<<>>, people)
BY DEF Announces

(* A reply announces to all if its texts do: the prompt is no broadcast.    *)
LEMMA ReplyBroadcast ==
  ASSUME TablesInv, NEW op, Handling(op), NEW S, NEW ms \in Seq(S), Reply(ms),
         Announces(ms, Online)
  PROVE  BroadcastReachesAll'
<1> DEFINE p == Prompt(me)
<1>1. wrote' = Append(ms, p)
  BY DEF Reply, Send, Deliver
<1>2. Online' = Online
  BY Answers, ReplyFacts
<1>3. p.msg \notin Broadcasts
  BY DEF Prompt, Msg, Broadcasts
<1> HIDE DEF p
<1>4. DOMAIN wrote' = DOMAIN ms \cup {Len(ms) + 1}
      /\ wrote'[Len(ms) + 1] = p /\ \A k \in DOMAIN ms : wrote'[k] = ms[k]
  BY <1>1
<1>5. \A k \in DOMAIN wrote' : wrote'[k].msg \in Broadcasts => wrote'[k].to = Online
  BY <1>3, <1>4 DEF Announces
<1> QED BY <1>2, <1>5 DEF BroadcastReachesAll

LEMMA AcceptBroadcast == TablesInv /\ Accept => BroadcastReachesAll'
<1> SUFFICES ASSUME TablesInv, Accept PROVE BroadcastReachesAll'
  OBVIOUS
<1>1. PICK c \in Clients, fd \in Fds, n \in NewIDs : Enters(c, fd, n)
  BY AcceptFacts
<1>2. wrote' = Greeting(c, Online') /\ Broadcasts' = Broadcasts
  BY <1>1, EveryoneFacts DEF Enters, Broadcasts
<1> QED BY <1>2 DEF Greeting, Msg, Prompt, BroadcastReachesAll, Broadcasts

LEMMA ExitBroadcast == TablesInv /\ Exit => BroadcastReachesAll'
<1> SUFFICES ASSUME TablesInv, Exit PROVE BroadcastReachesAll'
  OBVIOUS
<1>1. Leaves(me, sender_fd, user_id)
  BY ExitFacts
<1>2. At(LoggedIn') = Online'
  <2>1. /\ Online = {conn[fd] : fd \in LoggedIn}
        /\ \A fd \in LoggedIn : fd \in Fds /\ conn[fd] \in Clients
    BY LoggedInFacts DEF TablesInv, FdsAgree
  <2> QED BY <1>1, <2>1 DEF Leaves, At
<1>3. wrote' = <<Msg("left", Online', <<mapUser[sender_fd].nickname>>)>>
  BY <1>1, <1>2 DEF Leaves
<1> QED BY <1>3 DEF Msg, BroadcastReachesAll

LEMMA TalkBroadcast ==
  ASSUME TablesInv,
         \/ Empty \/ Yell \/ NameRefused \/ Name \/ Who \/ Tell \/ TellNobody
         \/ Setenv \/ Printenv
  PROVE  BroadcastReachesAll'
<1>1. ASSUME NEW op, Handling(op), NEW m, Reply(<<m>>),
             m.msg \in Broadcasts => m.to = Online
      PROVE  BroadcastReachesAll'
  <2>1. <<m>> \in Seq({m})
    OBVIOUS
  <2> QED BY <1>1, <2>1, AnnouncesOne, ReplyBroadcast
<1>2. ASSUME NEW op, Handling(op), Reply(<<>>) PROVE BroadcastReachesAll'
  <2>1. <<>> \in Seq({}) /\ Announces(<<>>, Online)
    BY DEF Announces
  <2> QED BY <1>2, <2>1, ReplyBroadcast
<1>3. CASE Empty \/ Setenv
  BY <1>2, <1>3 DEF Empty, Setenv
<1>4. CASE Yell \/ Name
  BY <1>1, <1>4, EveryoneFacts DEF Yell, Name, Msg
<1>5. CASE NameRefused \/ Who \/ Tell \/ TellNobody
  BY <1>1, <1>5 DEF NameRefused, Who, Tell, TellNobody, Msg, Broadcasts
<1>6. CASE Printenv
  <2>1. Handling("printenv") /\ (Reply(<<>>) \/ \E about : Reply(<<Msg("value", {me}, about)>>))
    BY <1>6 DEF Printenv
  <2> QED BY <1>1, <1>2, <2>1 DEF Msg, Broadcasts
<1> QED BY <1>3, <1>4, <1>5, <1>6

LEMMA RunBroadcast ==
  ASSUME TablesInv, UserFindsSlot, Pipeline
  PROVE  BroadcastReachesAll'
<1>1. Handling("run") /\ Listed = Online /\ Some \subseteq Nat
  BY ListedFacts, PipelineFrame, FdAssumption DEF Some
<1>2. InputError \notin Broadcasts /\ OutputError \notin Broadcasts
  BY DEF InputError, OutputError, Broadcasts
<1> DEFINE r == Msg("received", Listed,
                    <<nickname, user_id, mapUser[fd_table[Received.in]].nickname, Received.in>>)
           p == Msg("piped", Listed,
                    <<nickname, user_id, mapUser[fd_table[Received.out]].nickname, Received.out>>)
           e == Msg(InputError, {me}, <<Received.in, user_id>>)
           f == Msg(OutputError, {me}, <<user_id, Received.out>>)
           x == Msg("pipe exists", {me}, <<user_id, Received.out>>)
           S == {r, p, e, f, x}
           Good(ms) == ms \in Seq(S) /\ Announces(ms, Online)
<1>3. /\ r.to = Online /\ p.to = Online
      /\ e.msg \notin Broadcasts /\ f.msg \notin Broadcasts /\ x.msg \notin Broadcasts
  BY <1>1, <1>2 DEF Msg, Broadcasts
<1>4. \A tries \in Nat : ReceivedMsg(tries) = <<>> \/ ReceivedMsg(tries) = [k \in 1 .. tries |-> r]
  BY DEF ReceivedMsg
<1>5. PipedMsg = <<>> \/ PipedMsg = <<p>>
  BY DEF PipedMsg
<1>6. r \in S /\ p \in S /\ e \in S /\ f \in S /\ x \in S
  OBVIOUS
<1> HIDE DEF r, p, e, f, x, S
<1>7. Good(<<>>)
  BY DEF Announces
<1>8. Good(<<p>>) /\ Good(<<e>>) /\ Good(<<f>>) /\ Good(<<x>>)
  BY <1>3, <1>6, AnnouncesOne
<1>9. \A tries \in Nat : Good(ReceivedMsg(tries))
  <2> TAKE tries \in Nat
  <2>1. [k \in 1 .. tries |-> r] \in Seq(S)
    BY <1>6
  <2>2. Announces([k \in 1 .. tries |-> r], Online)
    BY <1>3 DEF Announces
  <2> QED BY <1>4, <1>7, <2>1, <2>2
<1>10. Good(PipedMsg)
  BY <1>5, <1>7, <1>8
<1>11. ASSUME NEW s, NEW t, Good(s), Good(t) PROVE Good(s \o t)
  BY <1>11, AnnouncesConcat
<1>12. ASSUME NEW s, NEW m, Good(s), Good(<<m>>) PROVE Good(Append(s, m))
  <2>1. m \in S
    <3>1. <<m>>[1] \in S
      BY <1>12
    <3> QED BY <3>1
  <2>2. Append(s, m) = s \o <<m>>
    BY <1>12, <2>1
  <2> QED BY <1>11, <1>12, <2>2
<1>13. ASSUME NEW ms, Good(ms), Reply(ms) PROVE BroadcastReachesAll'
  BY <1>1, <1>13, ReplyBroadcast
<1>14. \A tries \in Some : 1 + tries \in Nat
  BY <1>1
<1> HIDE DEF Good
<1>15. CASE RunInputError
  <2>1. Reply(<<e>>)
    BY <1>15 DEF RunInputError, e
  <2> QED BY <1>8, <1>13, <2>1
<1>16. CASE RunOutputError
  <2>1. PICK tries \in Some : Reply(Append(ReceivedMsg(1 + tries), f))
    BY <1>16 DEF RunOutputError, f
  <2> QED BY <1>8, <1>9, <1>12, <1>13, <1>14, <2>1
<1>17. CASE Run
  <2>1. PICK tries \in Some : Reply(ReceivedMsg(1 + tries) \o PipedMsg)
    BY <1>17 DEF Run
  <2> QED BY <1>9, <1>10, <1>11, <1>13, <1>14, <2>1
<1>18. CASE RunRetried
  <2> DEFINE again == IF Received.stages = 1 THEN 1 ELSE 0
  <2>1. PICK tries \in Some : Reply((ReceivedMsg(1 + tries) \o PipedMsg)
                                  \o Append(ReceivedMsg(again), x))
    BY <1>18 DEF RunRetried, x
  <2>2. again \in Nat
    OBVIOUS
  <2> HIDE DEF again
  <2>3. Good(ReceivedMsg(1 + tries) \o PipedMsg)
    BY <1>9, <1>10, <1>11, <1>14
  <2>4. Good(Append(ReceivedMsg(again), x))
    BY <1>8, <1>9, <1>12, <2>2
  <2> QED BY <1>11, <1>13, <2>1, <2>3, <2>4
<1>19. CASE RunStops
  BY <1>19 DEF RunStops, Stop, BroadcastReachesAll
<1> QED BY <1>15, <1>16, <1>17, <1>18, <1>19 DEF Pipeline

LEMMA NextBroadcast ==
  TablesInv /\ UserFindsSlot /\ BroadcastReachesAll /\ [Next]_vars => BroadcastReachesAll'
<1> SUFFICES ASSUME TablesInv, UserFindsSlot, BroadcastReachesAll, [Next]_vars
             PROVE  BroadcastReachesAll'
  OBVIOUS
<1>1. CASE wrote' = wrote /\ alive' = alive /\ Online' = Online
  BY <1>1 DEF BroadcastReachesAll
<1>2. CASE Select \/ ScanSkip \/ ScanEnd \/ Client \/ UNCHANGED vars
  <2>1. cli \in [Clients -> States]
    BY DEF TablesInv, TablesType, NetType
  <2>2. wrote' = wrote /\ alive' = alive
    BY <1>2 DEF Select, ScanSkip, ScanEnd, Client, Connect, HangUp, Type, server, vars
  <2>3. Online' = Online
    BY <1>2, <2>1 DEF Select, ScanSkip, ScanEnd, Client, Connect, HangUp, Type, net, vars,
                      Online
  <2> QED BY <1>1, <2>2, <2>3
<1>3. CASE Accept \/ Exit
  BY <1>3, AcceptBroadcast, ExitBroadcast
<1>4. CASE (Builtin \/ Pipeline) /\ ~Exit
  BY <1>4, TalkBroadcast, RunBroadcast DEF Builtin
<1> QED BY <1>2, <1>3, <1>4 DEF Next, Server

-----------------------------------------------------------------------------
(* Who enters number pipes. *)

LEMMA NextTarget ==
  ASSUME SessionInv, [Next]_vars, NEW n \in UID
  PROVE  /\ instr_cnt'[n] = instr_cnt[n] + 1 /\ Received.num > 0 =>
              LET before == Entry(NP_sender_map[n], instr_cnt[n])
                  writes == Entry(NP_sender_map'[n], instr_cnt[n])
                  reads  == Entry(NP_receiver_map'[n], instr_cnt[n] + Received.num)
              IN  writes # {} /\ writes = IF before = {} THEN reads ELSE before
         /\ user_list[n] /\ user_list'[n] =>
              /\ NP_sender_map[n] \subseteq NP_sender_map'[n]
              /\ NP_receiver_map[n] \subseteq NP_receiver_map'[n]
<1>1. /\ n \in ID /\ instr_cnt \in [ID -> Nat] /\ user_list \in [ID -> BOOLEAN]
      /\ NP_sender_map \in [ID -> SUBSET (Nat \X NumberPipe)]
      /\ NP_receiver_map \in [ID -> SUBSET (Nat \X NumberPipe)]
  BY IDAssumption DEF UID, ID, SessionInv, TablesInv, TablesType, SessionType, UsersType
<1>2. CASE Pipeline
  <2>1. Handling("run") /\ Received.num \in Nat /\ user_id \in ID
    BY <1>2, PipelineFrame, ServingFacts, LineFields DEF SessionInv, TablesInv
  <2>2. PICK num \in {0, Received.num} : NPInsert(user_id, num)
    BY <1>2, PipelineFrame
  <2>3. CASE n # user_id
    <3>1. instr_cnt'[n] = instr_cnt[n]
      BY <1>1, <1>2, <2>3, PipelineFrame
    <3>2. NP_sender_map'[n] = NP_sender_map[n] /\ NP_receiver_map'[n] = NP_receiver_map[n]
      BY <1>1, <2>1, <2>2, <2>3, NPInsertFacts
    <3> QED BY <1>1, <3>1, <3>2
  <2>4. CASE n = user_id
    <3>1. /\ NP_sender_map[n] \subseteq NP_sender_map'[n]
          /\ NP_receiver_map[n] \subseteq NP_receiver_map'[n]
      BY <2>1, <2>2, <2>4, NPInsertKeeps
    <3>2. ASSUME instr_cnt'[n] = instr_cnt[n] + 1, Received.num > 0
          PROVE  LET before == Entry(NP_sender_map[n], instr_cnt[n])
                     writes == Entry(NP_sender_map'[n], instr_cnt[n])
                     reads  == Entry(NP_receiver_map'[n], instr_cnt[n] + Received.num)
                 IN  writes # {} /\ writes = IF before = {} THEN reads ELSE before
      <4> DEFINE pipe == [by |-> me, line |-> instr_cnt[n] + Received.num]
      <4>1. NPInsert(n, Received.num)
        <5>1. instr_cnt' # instr_cnt
          BY <1>1, <3>2
        <5> QED BY <1>2, <2>4, <5>1 DEF Pipeline, RunInputError, RunOutputError, Run,
                                        RunRetried, RunStops
      <4>2. NP_sender_map'[n] = Insert(NP_sender_map[n], instr_cnt[n], pipe)
        BY <2>1, <2>4, <3>2, <4>1, NPInsertFacts
      <4>3. Entry(NP_receiver_map'[n], instr_cnt[n] + Received.num) = {pipe}
        BY <2>1, <2>4, <3>2, <4>1, NPInsertKeeps
      <4> DEFINE m == NP_sender_map[n]
                 k == instr_cnt[n]
      <4> HIDE DEF pipe, m, k
      <4>4. /\ Entry(m, k) = {} => Entry(Insert(m, k, pipe), k) = {pipe}
            /\ Entry(m, k) # {} => Insert(m, k, pipe) = m
        BY InsertFacts
      <4> QED BY <4>2, <4>3, <4>4 DEF m, k
    <3> QED BY <3>1, <3>2
  <2> QED BY <2>3, <2>4
<1>3. CASE Exit
  <2>1. /\ Handling("exit") /\ user_id \in ID
        /\ instr_cnt' = [instr_cnt EXCEPT ![user_id] = 0]
        /\ NP_sender_map' = [NP_sender_map EXCEPT ![user_id] = {}]
        /\ NP_receiver_map' = [NP_receiver_map EXCEPT ![user_id] = {}]
        /\ user_list' = [user_list EXCEPT ![user_id] = FALSE]
    BY <1>3, ServingFacts DEF Exit, SessionEnds, UserLeaves, SessionInv, TablesInv
  <2> QED BY <1>1, <2>1
<1>4. CASE UNCHANGED <<instr_cnt, NP_sender_map, NP_receiver_map>>
  BY <1>1, <1>4
<1>5. CASE Select \/ ScanSkip \/ ScanEnd \/ Client \/ UNCHANGED vars
  BY <1>4, <1>5 DEF Select, ScanSkip, ScanEnd, Client, Connect, HangUp, Type, server, vars,
                    session
<1>6. CASE \/ Accept \/ Empty \/ Yell \/ NameRefused \/ Name \/ Who \/ Tell \/ TellNobody
           \/ Setenv \/ Printenv
  BY <1>4, <1>6 DEF Accept, Empty, Yell, NameRefused, Name, Who, Tell, TellNobody, Setenv,
                    Printenv, session
<1> QED BY <1>2, <1>3, <1>5, <1>6 DEF Next, Server, Builtin

-----------------------------------------------------------------------------
(* Theorems: as long as no more clients are connected than there are IDs.   *)

LEMMA SessionCorrect == MaxOnline <= MaxID /\ Spec => []SessionInv
<1> SUFFICES ASSUME MaxOnline <= MaxID PROVE Spec => []SessionInv
  OBVIOUS
<1>1. Init => SessionInv
  BY InitSession
<1>2. SessionInv /\ [Next]_vars => SessionInv'
  BY NextSession
<1> QED BY <1>1, <1>2, PTL DEF Spec

(* Whoever is logged in has an ID of his own, whose slot leads back to his  *)
(* socket: a reused ID or descriptor never belongs to two users.            *)
THEOREM UserFindsSlotCorrect ==
  ASSUME MaxOnline <= MaxID PROVE Spec => []UserFindsSlot
<1>1. SessionInv => UserFindsSlot
  BY DEF SessionInv, SlotsInv
<1> QED BY <1>1, SessionCorrect, PTL

(* No two users that are online share a name, and the table that name       *)
(* searches holds exactly the names of the users that are online.           *)
THEOREM NamesDistinctCorrect ==
  ASSUME MaxOnline <= MaxID PROVE Spec => []NamesDistinct
<1>1. SessionInv => NamesDistinct
  BY DEF SessionInv, SlotsInv
<1> QED BY <1>1, SessionCorrect, PTL

(* Exit clears whatever belongs to the ID, in every table.                  *)
THEOREM SlotsCleanCorrect ==
  ASSUME MaxOnline <= MaxID PROVE Spec => []SlotsClean
<1>1. SessionInv => SlotsClean
  BY DEF SessionInv, SlotsInv
<1> QED BY <1>1, SessionCorrect, PTL

(* What is piped to a user is never read by the next holder of his ID.      *)
THEOREM PipeReceiverCorrect ==
  ASSUME MaxOnline <= MaxID PROVE Spec => []PipeReceiverIsHolder
<1>1. SessionInv => PipeReceiverIsHolder
  BY DEF SessionInv, SlotsInv
<1> QED BY <1>1, SessionCorrect, PTL

(* No number pipe survives the session that made it.                        *)
THEOREM NumberPipesCorrect ==
  ASSUME MaxOnline <= MaxID PROVE Spec => []NumberPipesAreOwn
<1>1. SessionInv => NumberPipesAreOwn
  BY DEF SessionInv, SlotsInv
<1> QED BY <1>1, SessionCorrect, PTL

(* Every broadcast of the server is addressed to all who are online, and to *)
(* nobody else.                                                             *)
THEOREM BroadcastCorrect ==
  ASSUME MaxOnline <= MaxID PROVE Spec => []BroadcastReachesAll
<1>1. Init => BroadcastReachesAll
  BY DEF Init, BroadcastReachesAll
<1>2. SessionInv => TablesInv /\ UserFindsSlot
  BY DEF SessionInv, SlotsInv
<1>3. SessionInv /\ BroadcastReachesAll /\ [Next]_vars => BroadcastReachesAll'
  BY <1>2, NextBroadcast
<1> QED BY <1>1, <1>3, SessionCorrect, PTL DEF Spec

(* The pipe a completed line ...|N writes to is the one that the N-th line  *)
(* after it reads, and no later line of the session gives either of them    *)
(* another pipe; a line refused before under the same number has the only   *)
(* say in which line reads (the two map::insert calls of shell()).          *)
THEOREM NumberPipeTargetCorrect ==
  ASSUME MaxOnline <= MaxID PROVE Spec => NumberPipeTarget
<1> DEFINE A == \A n \in UID :
       /\ instr_cnt[n]' = instr_cnt[n] + 1 /\ Received.num > 0 =>
            LET before == Entry(NP_sender_map[n], instr_cnt[n])
                writes == Entry(NP_sender_map'[n], instr_cnt[n])
                reads  == Entry(NP_receiver_map'[n], instr_cnt[n] + Received.num)
            IN  writes # {} /\ writes = IF before = {} THEN reads ELSE before
       /\ user_list[n] /\ user_list'[n] =>
            /\ NP_sender_map[n] \subseteq NP_sender_map'[n]
            /\ NP_receiver_map[n] \subseteq NP_receiver_map'[n]
<1>1. SessionInv /\ [Next]_vars => [A]_vars
  BY NextTarget
<1>2. Spec => [][A]_vars
  BY <1>1, SessionCorrect, PTL DEF Spec
<1> QED BY <1>2 DEF NumberPipeTarget
=============================================================================
