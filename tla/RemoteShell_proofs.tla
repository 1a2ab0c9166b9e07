------------------------ MODULE RemoteShell_proofs ------------------------
(***************************************************************************)
(* Consoles and the server, for any number of sessions, files, processes   *)
(* and failures of fork().                                                 *)
(***************************************************************************)
EXTENDS RemoteShell, DataFacts

Chars == Console!Text
Shown == Console!Shown
Sent  == [k : Nat, op : {"run", "later", "exit"}, says : Seq(Console!Text)]

Handlers == {"resolve", "connect", "request", "reply", "read", "write", "done"}
Replies  == {"none", "asked", "granted", "refused"}

(* What the server has still to write is text.                              *)
Types == TypeOK /\ left \in [Processes -> Seq(Console!Text)]

ConsoleTypes ==
  /\ flg_exit \in [Sessions -> BOOLEAN]
  /\ pos \in [Sessions -> Nat] /\ \A s \in Sessions : pos[s] <= Len(File[s])
  /\ page \in [Sessions -> Seq(Shown)] /\ shut \in SUBSET Sessions
  /\ up \in [Sessions -> Seq(Sent)] /\ down \in [Sessions -> Seq(Chars)]

AllTypes ==
  /\ ConsoleTypes /\ st \in [Sessions -> Handlers] /\ reply \in [Sessions -> Replies]
  /\ Server!TypeOK /\ backlog \in Seq(Sessions)
  /\ left \in [Processes -> Seq(Chars)]

(* The server has been offered the connection of the session.               *)
Came(s) ==
  \/ \E k \in 1 .. Len(backlog) : backlog[k] = s
  \/ \E p \in Processes : s \in holds[p] \/ s \in jobs[p] \/ new_sock_fd[p] = s \/ io[p] = s

(* A session connects once: it has not come before it, or the proxy for it, *)
(* connects.                                                                 *)
ConnectsOnce ==
  \A s \in Sessions :
    /\ st[s] \in {"resolve", "connect", "request"} => reply[s] = "none" /\ ~Came(s)
    /\ reply[s] = "asked" => st[s] = "reply" /\ ~Came(s)

(* Connections that wait are distinct, and no process knows them.           *)
Queue ==
  \A k \in 1 .. Len(backlog) :
    /\ \A j \in 1 .. Len(backlog) : backlog[j] = backlog[k] => j = k
    /\ \A p \in Processes : /\ backlog[k] \notin holds[p] /\ backlog[k] \notin jobs[p]
                            /\ backlog[k] # new_sock_fd[p] /\ backlog[k] # io[p]

Serves(p) == at[p] \in {"prompt", "read", "run", "gone"}

(* The socket of a client is open in one process: the one that has accepted *)
(* it until fork(), and then the one that serves it, which closes it when   *)
(* it exits; and in commands of that process.                               *)
HeldOnce ==
  \A p \in Processes :
    /\ at[p] = "fork" => /\ new_sock_fd[p] \in holds[p]
                         /\ \A q \in Processes \ {p} : new_sock_fd[p] \notin holds[q]
                         /\ \A q \in Processes : new_sock_fd[p] \notin jobs[q]
    /\ Serves(p) => /\ io[p] \in Sessions
                    /\ \A q \in Processes \ {p} : /\ io[p] \notin holds[q]
                                                    /\ io[p] \notin jobs[q]
    /\ at[p] = "gone" => holds[p] = {}

RemoteInv == Types /\ ConnectsOnce /\ Queue /\ HeldOnce

-----------------------------------------------------------------------------
(* Types.                                                                   *)

(* What the files and a prompt consist of.                                  *)
LEMMA FileFacts ==
  /\ Prompt \in Seq(Chars) /\ MaxRead \in Nat
  /\ \A c \in Chars : c \in Shown
  /\ \A s \in Sessions : /\ Len(File[s]) \in Nat
                         /\ \A k \in 1 .. Len(File[s]) :
                              /\ File[s][k].op \in {"run", "later", "exit"} /\ File[s][k].says \in Seq(Chars)
                              /\ Console!Cmd(k) \in Shown
<1>1. \A s \in Sessions : File[s] \in Seq(Console!Line)
  BY RemoteShellAssumption DEF Console!ConstantsOK
<1>2. \A s \in Sessions : \A k \in 1 .. Len(File[s]) :
        File[s][k] \in Console!Line /\ Console!Cmd(k) \in Console!Shown
  BY <1>1 DEF Console!Shown
<1>7. \A l \in Console!Line : l.op \in {"run", "later", "exit"} /\ l.says \in Seq(Console!Text)
  <2>1. <<>> \in Seq(Console!Text)
    OBVIOUS
  <2> QED BY <2>1 DEF Console!Line
<1>3. Prompt \in Seq(Console!Text)
  BY DEF Prompt, Console!Text, Console!Percent, Console!Blank
<1>4. \A s \in Sessions : Len(File[s]) \in Nat
  BY <1>1
<1>5. MaxRead \in Nat
  BY RemoteShellAssumption DEF Console!ConstantsOK
<1>6. \A c \in Chars : c \in Shown
  BY DEF Chars, Shown, Console!Shown
<1> QED BY <1>2, <1>3, <1>4, <1>5, <1>6, <1>7 DEF Chars, Shown

(* The parts of what has arrived.                                           *)
LEMMA CutFacts ==
  ASSUME NEW d \in Seq(Chars), NEW m \in 0 .. Len(d)
  PROVE  /\ SubSeq(d, 1, m) \in Seq(Chars) /\ SubSeq(d, m + 1, Len(d)) \in Seq(Chars)
         /\ SubSeq(d, 1, m) \in Seq(Shown)
<1>1. /\ SubSeq(d, 1, m) \in Seq(Chars) /\ SubSeq(d, m + 1, Len(d)) \in Seq(Chars)
  BY TwoParts
<1> QED BY <1>1, FileFacts

(* The types of all variables in one conjunction.                           *)
LEMMA TypeParts ==
  Types <=> AllTypes
BY DEF AllTypes, Handlers, Replies, Types, TypeOK, ConsoleTypes, Console!TypeOK, Chars, Shown, Sent

-----------------------------------------------------------------------------
(* The console's handlers.                                                  *)

(* A session that leaves closes its socket and drops what was on the way.   *)
LEMMA LeaveTypes ==
  ASSUME ConsoleTypes, NEW s \in Sessions, NEW rest, Console!Leave(s, rest)
  PROVE  /\ st' = [st EXCEPT ![s] = "done"] /\ shut' \in SUBSET Sessions
         /\ up' \in [Sessions -> Seq(Sent)] /\ down' \in [Sessions -> Seq(Chars)]
<1>1. /\ st' = [st EXCEPT ![s] = "done"] /\ shut' = shut \cup {s}
      /\ down' = [down EXCEPT ![s] = <<>>] /\ (up' = up \/ up' = [up EXCEPT ![s] = <<>>])
  BY DEF Console!Leave, Console!Goto
<1>2. /\ up \in [Sessions -> Seq(Sent)] /\ down \in [Sessions -> Seq(Chars)]
      /\ <<>> \in Seq(Sent) /\ <<>> \in Seq(Chars) /\ shut \in SUBSET Sessions
  BY DEF ConsoleTypes
<1>3. up' \in [Sessions -> Seq(Sent)]
  BY <1>1, <1>2
<1>4. down' \in [Sessions -> Seq(Chars)]
  BY <1>1, <1>2
<1> QED BY <1>1, <1>2, <1>3, <1>4

(* A session that sends shows a line of its file, or comes to the end of it.*)
LEMMA WriteTypes ==
  ASSUME ConsoleTypes, NEW s \in Sessions, NEW str \in Seq(Shown),
         NEW rest \in Seq(Chars), Console!do_write(s, str, rest)
  PROVE  ConsoleTypes' /\ st' \in {[st EXCEPT ![s] = "done"], [st EXCEPT ![s] = "write"]}
<1>1. /\ flg_exit \in [Sessions -> BOOLEAN]
      /\ page \in [Sessions -> Seq(Shown)] /\ page[s] \o str \in Seq(Shown)
      /\ pos \in [Sessions -> Nat] /\ \A r \in Sessions : pos[r] <= Len(File[r])
      /\ shut \in SUBSET Sessions
      /\ up \in [Sessions -> Seq(Sent)] /\ down \in [Sessions -> Seq(Chars)]
  BY DEF ConsoleTypes
<1>2. CASE pos[s] = Len(File[s])
  <2>1. Console!Leave(s, rest) /\ page' = [page EXCEPT ![s] = @ \o str]
        /\ UNCHANGED <<pos, flg_exit>>
    BY <1>2 DEF Console!do_write
  <2> QED BY <1>1, <2>1, LeaveTypes DEF ConsoleTypes
<1>3. CASE pos[s] # Len(File[s])
  <2> DEFINE k == pos[s] + 1
             l == File[s][k]
             msg == [k |-> k, op |-> l.op, says |-> l.says]
  <2>1. k \in 1 .. Len(File[s]) /\ Len(File[s]) \in Nat
    BY <1>1, <1>3, FileFacts
  <2>2. l.op \in {"run", "later", "exit"} /\ l.says \in Seq(Chars) /\ Console!Cmd(k) \in Shown
    BY <2>1, FileFacts
  <2>3. msg \in Sent
    BY <2>1, <2>2 DEF Sent, Chars
  <2>4. /\ pos' = [pos EXCEPT ![s] = k] /\ page' = [page EXCEPT ![s] = (@ \o str) \o <<Console!Cmd(k)>>]
        /\ flg_exit' = [flg_exit EXCEPT ![s] = @ \/ l.op = "exit"]
        /\ up' = [up EXCEPT ![s] = Append(@, msg)] /\ down' = [down EXCEPT ![s] = rest]
        /\ st' = [st EXCEPT ![s] = "write"] /\ shut' = shut
    BY <1>3 DEF Console!do_write, Console!Goto, Console!Sends
  <2> HIDE DEF k, l, msg
  <2>5. (page[s] \o str) \o <<Console!Cmd(k)>> \in Seq(Shown)
    BY <1>1, <2>2
  <2>6. Append(up[s], msg) \in Seq(Sent)
    BY <1>1, <2>3
  <2>7. page' \in [Sessions -> Seq(Shown)] /\ up' \in [Sessions -> Seq(Sent)]
    BY <1>1, <2>4, <2>5, <2>6
  <2>8. flg_exit' \in [Sessions -> BOOLEAN]
    BY <1>1, <2>4
  <2>9. pos' \in [Sessions -> Nat] /\ \A r \in Sessions : pos'[r] <= Len(File[r])
    BY <1>1, <2>1, <2>4
  <2> QED BY <1>1, <2>4, <2>7, <2>8, <2>9 DEF ConsoleTypes
<1> QED BY <1>2, <1>3

(* A read takes what has arrived, or a part of it.                          *)
LEMMA ReadTypes ==
  ASSUME ConsoleTypes, NEW s \in Sessions, Console!do_read(s)
  PROVE  ConsoleTypes' /\ st' \in {st, [st EXCEPT ![s] = "done"], [st EXCEPT ![s] = "write"]}
<1>1. /\ flg_exit \in [Sessions -> BOOLEAN] /\ page[s] \in Seq(Shown)
      /\ page \in [Sessions -> Seq(Shown)] /\ down[s] \in Seq(Chars)
      /\ pos \in [Sessions -> Nat] /\ \A r \in Sessions : pos[r] <= Len(File[r])
      /\ shut \in SUBSET Sessions
      /\ up \in [Sessions -> Seq(Sent)] /\ down \in [Sessions -> Seq(Chars)]
  BY DEF ConsoleTypes
<1> DEFINE str(m) == SubSeq(down[s], 1, m)
           rest(m) == SubSeq(down[s], m + 1, Len(down[s]))
<1>2. PICK m \in 1 .. MaxRead :
        /\ m <= Len(down[s])
        /\ IF flg_exit[s]
           THEN /\ Console!Leave(s, rest(m)) /\ page' = [page EXCEPT ![s] = @ \o str(m)]
                /\ UNCHANGED <<pos, flg_exit>>
           ELSE IF Console!HasPrompt(str(m)) THEN Console!do_write(s, str(m), rest(m))
           ELSE /\ page' = [page EXCEPT ![s] = @ \o str(m)]
                /\ down' = [down EXCEPT ![s] = rest(m)]
                /\ UNCHANGED <<st, pos, flg_exit, up, shut>>
  BY DEF Console!do_read
<1>3. m \in 0 .. Len(down[s])
  BY <1>1, <1>2, FileFacts
<1>4. str(m) \in Seq(Shown) /\ rest(m) \in Seq(Chars)
  BY <1>1, <1>3, CutFacts
<1> HIDE DEF str, rest
<1>5. page[s] \o str(m) \in Seq(Shown)
  BY <1>1, <1>4
<1>6. CASE flg_exit[s]
  <2>1. Console!Leave(s, rest(m)) /\ page' = [page EXCEPT ![s] = @ \o str(m)]
        /\ UNCHANGED <<pos, flg_exit>>
    BY <1>2, <1>6
  <2> QED BY <1>1, <1>5, <2>1, LeaveTypes DEF ConsoleTypes
<1>7. CASE ~flg_exit[s] /\ Console!HasPrompt(str(m))
  BY <1>2, <1>4, <1>7, WriteTypes
<1>8. CASE ~flg_exit[s] /\ ~Console!HasPrompt(str(m))
  <2>1. /\ page' = [page EXCEPT ![s] = @ \o str(m)] /\ down' = [down EXCEPT ![s] = rest(m)]
        /\ UNCHANGED <<st, pos, flg_exit, up, shut>>
    BY <1>2, <1>8
  <2> QED BY <1>1, <1>4, <1>5, <2>1 DEF ConsoleTypes
<1> QED BY <1>6, <1>7, <1>8

(* A step of a console: the server's own variables are as before, and the   *)
(* only connection that may come is one that had not.                       *)
LEMMA ConsoleStep ==
  ASSUME Types, ConnectsOnce, NEW s \in Sessions,
         Console!Session(s) \/ Console!Proxy(s), UNCHANGED server
  PROVE  /\ Types' /\ UNCHANGED <<at, new_sock_fd, io, holds, jobs>>
         /\ \/ backlog' = backlog
            \/ backlog' = Append(backlog, s) /\ ~Came(s)
         /\ \A r \in Sessions \ {s} : st'[r] = st[r] /\ reply'[r] = reply[r]
         /\ st'[s] \in {"resolve", "connect", "request"} => reply'[s] = "none" /\ backlog' = backlog
                                                             /\ st[s] \in {"resolve", "connect"}
         /\ reply'[s] = "asked" => /\ st'[s] = "reply" /\ backlog' = backlog
                                   /\ st[s] = "request" \/ reply[s] = "asked"
<1>1. /\ ConsoleTypes /\ st \in [Sessions -> Handlers] /\ reply \in [Sessions -> Replies]
      /\ Server!TypeOK /\ backlog \in Seq(Sessions) /\ left \in [Processes -> Seq(Chars)]
  BY TypeParts DEF AllTypes
<1>2. /\ UNCHANGED <<at, new_sock_fd, io, holds, cin_ok, left, jobs, failures>>
      /\ Server!TypeOK' /\ left' \in [Processes -> Seq(Chars)]
  BY <1>1 DEF server, Server!TypeOK
<1>3. ASSUME UNCHANGED <<pos, flg_exit, page, up, down, shut>>
      PROVE  ConsoleTypes'
  BY <1>1, <1>3 DEF ConsoleTypes
<1>4. /\ st[s] \in {"resolve", "connect", "request"} => reply[s] = "none" /\ ~Came(s)
      /\ reply[s] = "asked" => st[s] = "reply" /\ ~Came(s)
  BY DEF ConnectsOnce
<1>5. Append(backlog, s) \in Seq(Sessions)
  BY <1>1
<1>15. \A h \in Handlers : [st EXCEPT ![s] = h] \in [Sessions -> Handlers]
  BY <1>1
<1>16. \A h \in Replies : [reply EXCEPT ![s] = h] \in [Sessions -> Replies]
  BY <1>1
<1>17. /\ {"resolve", "connect", "request", "reply", "read", "write", "done"} = Handlers
       /\ {"none", "asked", "granted", "refused"} = Replies
  BY DEF Handlers, Replies
<1>18. ASSUME ConsoleTypes', st' \in [Sessions -> Handlers], reply' \in [Sessions -> Replies],
              backlog' \in Seq(Sessions)
       PROVE  Types'
  <2>1. AllTypes'
    BY <1>2, <1>18 DEF AllTypes
  <2> QED BY <2>1, TypeParts, PTL
<1>6. CASE Console!resolve_handler(s)
  <2>1. UNCHANGED <<pos, flg_exit, page, reply, backlog, up, down, shut>> /\ st[s] = "resolve"
        /\ (st' = [st EXCEPT ![s] = "connect"] \/ st' = [st EXCEPT ![s] = "done"])
    BY <1>6 DEF Console!resolve_handler, Console!Goto, Console!socket
  <2>2. /\ st' \in [Sessions -> Handlers] /\ reply' \in [Sessions -> Replies]
        /\ backlog' \in Seq(Sessions) /\ ConsoleTypes'
    BY <1>1, <1>3, <1>5, <1>15, <1>16, <1>17, <2>1
  <2> QED BY <1>1, <1>2, <1>4, <1>18, <2>1, <2>2
<1>7. CASE Console!connect_handler(s)
  <2>1. UNCHANGED <<pos, flg_exit, page, reply, up, down, shut>> /\ st[s] = "connect"
        /\ \/ st' = [st EXCEPT ![s] = "read"] /\ backlog' = Append(backlog, s)
           \/ st' = [st EXCEPT ![s] = "request"] /\ backlog' = backlog
           \/ st' = [st EXCEPT ![s] = "done"] /\ backlog' = backlog
    BY <1>7 DEF Console!connect_handler, Console!Goto
  <2>2. /\ st' \in [Sessions -> Handlers] /\ reply' \in [Sessions -> Replies]
        /\ backlog' \in Seq(Sessions) /\ ConsoleTypes'
    BY <1>1, <1>3, <1>5, <1>15, <1>16, <1>17, <2>1
  <2> QED BY <1>1, <1>2, <1>4, <1>18, <2>1, <2>2
<1>8. CASE Console!send_socks4a_req(s)
  <2>1. UNCHANGED <<pos, flg_exit, page, backlog, up, down, shut>> /\ st[s] = "request"
        /\ \/ st' = [st EXCEPT ![s] = "reply"] /\ reply' = [reply EXCEPT ![s] = "asked"]
           \/ st' = [st EXCEPT ![s] = "done"] /\ reply' = reply
    BY <1>8 DEF Console!send_socks4a_req, Console!Goto, Console!socket
  <2>2. /\ st' \in [Sessions -> Handlers] /\ reply' \in [Sessions -> Replies]
        /\ backlog' \in Seq(Sessions) /\ ConsoleTypes'
    BY <1>1, <1>3, <1>5, <1>15, <1>16, <1>17, <2>1
  <2> QED BY <1>1, <1>2, <1>4, <1>18, <2>1, <2>2
<1>9. CASE Console!get_socks4_reply(s)
  <2>1. /\ UNCHANGED <<pos, flg_exit, page, reply, backlog>> /\ st[s] = "reply"
        /\ reply[s] \in {"granted", "refused"}
        /\ \/ st' = [st EXCEPT ![s] = "read"] /\ UNCHANGED <<up, down, shut>>
           \/ Console!Leave(s, down[s])
    BY <1>9 DEF Console!get_socks4_reply, Console!Goto, Console!socket
  <2>2. ConsoleTypes' /\ st' \in {[st EXCEPT ![s] = "read"], [st EXCEPT ![s] = "done"]}
    BY <1>1, <1>3, <2>1, LeaveTypes DEF ConsoleTypes
  <2>3. /\ st' \in [Sessions -> Handlers] /\ reply' \in [Sessions -> Replies]
        /\ backlog' \in Seq(Sessions) /\ ConsoleTypes'
    BY <1>1, <1>3, <1>5, <1>15, <1>16, <1>17, <2>1, <2>2
  <2> QED BY <1>1, <1>2, <1>4, <1>18, <2>1, <2>2, <2>3
<1>10. CASE Console!do_read(s)
  <2>1. ConsoleTypes' /\ st' \in {st, [st EXCEPT ![s] = "done"], [st EXCEPT ![s] = "write"]}
    BY <1>1, <1>10, ReadTypes
  <2>2. UNCHANGED <<reply, backlog>> /\ st[s] = "read"
    BY <1>10 DEF Console!do_read
  <2>3. /\ st' \in [Sessions -> Handlers] /\ reply' \in [Sessions -> Replies]
        /\ backlog' \in Seq(Sessions) /\ ConsoleTypes'
    BY <1>1, <1>3, <1>5, <1>15, <1>16, <1>17, <2>1, <2>2
  <2> QED BY <1>1, <1>2, <1>4, <1>18, <2>1, <2>2, <2>3
<1>11. CASE Console!Sent(s)
  <2>1. UNCHANGED <<pos, flg_exit, page, reply, backlog, up, down, shut>> /\ st[s] = "write"
        /\ st' = [st EXCEPT ![s] = "read"]
    BY <1>11 DEF Console!Sent, Console!Goto, Console!socket
  <2>2. /\ st' \in [Sessions -> Handlers] /\ reply' \in [Sessions -> Replies]
        /\ backlog' \in Seq(Sessions) /\ ConsoleTypes'
    BY <1>1, <1>3, <1>5, <1>15, <1>16, <1>17, <2>1
  <2> QED BY <1>1, <1>2, <1>4, <1>18, <2>1, <2>2
<1>12. CASE Console!Ends(s)
  <2>1. UNCHANGED <<pos, flg_exit, page, reply, backlog>> /\ st[s] \in {"read", "write"}
        /\ Console!Leave(s, <<>>)
    BY <1>12 DEF Console!Ends
  <2>2. ConsoleTypes' /\ st' = [st EXCEPT ![s] = "done"]
    BY <1>1, <2>1, LeaveTypes DEF ConsoleTypes
  <2>3. /\ st' \in [Sessions -> Handlers] /\ reply' \in [Sessions -> Replies]
        /\ backlog' \in Seq(Sessions) /\ ConsoleTypes'
    BY <1>1, <1>3, <1>5, <1>15, <1>16, <1>17, <2>1, <2>2
  <2> QED BY <1>1, <1>2, <1>4, <1>18, <2>1, <2>2, <2>3
<1>13. CASE Console!Grant(s)
  <2>1. UNCHANGED <<st, pos, flg_exit, page, up, down, shut>> /\ reply[s] = "asked"
        /\ reply' = [reply EXCEPT ![s] = "granted"] /\ backlog' = Append(backlog, s)
    BY <1>13 DEF Console!Grant
  <2>2. /\ st' \in [Sessions -> Handlers] /\ reply' \in [Sessions -> Replies]
        /\ backlog' \in Seq(Sessions) /\ ConsoleTypes'
    BY <1>1, <1>3, <1>5, <1>15, <1>16, <1>17, <2>1
  <2> QED BY <1>1, <1>2, <1>4, <1>18, <2>1, <2>2
<1>14. CASE Console!Refuse(s)
  <2>1. UNCHANGED <<st, pos, flg_exit, page, backlog, up, down, shut>> /\ reply[s] = "asked"
        /\ reply' = [reply EXCEPT ![s] = "refused"]
    BY <1>14 DEF Console!Refuse, Console!socket
  <2>2. /\ st' \in [Sessions -> Handlers] /\ reply' \in [Sessions -> Replies]
        /\ backlog' \in Seq(Sessions) /\ ConsoleTypes'
    BY <1>1, <1>3, <1>5, <1>15, <1>16, <1>17, <2>1
  <2> QED BY <1>1, <1>2, <1>4, <1>18, <2>1, <2>2
<1> QED BY <1>6, <1>7, <1>8, <1>9, <1>10, <1>11, <1>12, <1>13, <1>14 DEF Console!Session, Console!Proxy

-----------------------------------------------------------------------------
(* The server's processes.                                                  *)

(* fork() gives the smallest number that is free.                           *)
LEMMA UnbornFacts ==
  ASSUME Server!Unborn # {}
  PROVE  Server!Min(Server!Unborn) \in Processes /\ at[Server!Min(Server!Unborn)] = "none"
<1>1. Server!Unborn \in SUBSET Nat
  BY RemoteShellAssumption DEF Server!ConstantsOK, Server!Unborn
<1>2. Min(Server!Unborn) \in Server!Unborn
  BY <1>1, NatMin
<1>3. Server!Min(Server!Unborn) = Min(Server!Unborn)
  BY DEF Min, Server!Min
<1> QED BY <1>2, <1>3 DEF Server!Unborn

(* What one step of a process does to the processes and the sockets.        *)
Accepts(p) ==
  /\ at[p] = "accept" /\ backlog # <<>>
  /\ at' = [at EXCEPT ![p] = "fork"]
  /\ new_sock_fd' = [new_sock_fd EXCEPT ![p] = Head(backlog)]
  /\ holds' = [holds EXCEPT ![p] = @ \cup {Head(backlog)}]
  /\ backlog' = Tail(backlog) /\ UNCHANGED <<io, jobs>>

Forks(p, q) ==
  /\ at[p] = "fork" /\ at[q] = "none"
  /\ at' = [at EXCEPT ![p] = "accept", ![q] = "prompt"]
  /\ io' = [io EXCEPT ![q] = new_sock_fd[p]]
  /\ new_sock_fd' = [new_sock_fd EXCEPT ![q] = new_sock_fd[p]]
  /\ holds' = [holds EXCEPT ![p] = @ \ {new_sock_fd[p]}, ![q] = holds[p]]
  /\ UNCHANGED <<jobs, backlog>>

Exits(p) ==
  /\ Serves(p) /\ at' = [at EXCEPT ![p] = "gone"] /\ holds' = [holds EXCEPT ![p] = {}]
  /\ UNCHANGED <<new_sock_fd, io, jobs, backlog>>

Moves(p) ==
  /\ \E l \in {"accept", "prompt", "read", "run"} :
       /\ at' = [at EXCEPT ![p] = l]
       /\ IF l = "accept" THEN at[p] \in {"fork", "prompt", "read"} ELSE Serves(p)
  /\ UNCHANGED <<new_sock_fd, io, holds, jobs, backlog>>

(* The commands of a line ... |N begin, and end.                            *)
Begins(p) ==
  /\ at[p] = "read" /\ at' = [at EXCEPT ![p] = "run"]
  /\ jobs' = [jobs EXCEPT ![p] = holds[p]]
  /\ UNCHANGED <<new_sock_fd, io, holds, backlog>>

JobsOver(p) ==
  /\ jobs' = [jobs EXCEPT ![p] = {}]
  /\ UNCHANGED <<at, new_sock_fd, io, holds, backlog>>

Steps(p) ==
  \/ Accepts(p) \/ (\E q \in Processes : Forks(p, q)) \/ Exits(p) \/ Moves(p)
  \/ Begins(p) \/ JobsOver(p)
  \/ UNCHANGED <<at, new_sock_fd, io, holds, jobs, backlog>>

Acts(p) == Server!Process(p) \/ Server!ForkFails(p) \/ Server!JobsEnd(p)

(* What a process leaves of the rest.                                       *)
RestTypes ==
  /\ cin_ok \in [Processes -> BOOLEAN] /\ failures \in 0 .. ForkFailures
  /\ left \in [Processes -> Seq(Chars)]
  /\ up \in [Sessions -> Seq(Sent)] /\ down \in [Sessions -> Seq(Chars)] /\ shut \in SUBSET Sessions

(* What is written to a client is text behind text.                         *)
LEMMA SaysTypes ==
  ASSUME RestTypes, NEW p \in Processes, NEW text \in Seq(Chars)
  PROVE  Server!Says(p, text) \in [Sessions -> Seq(Chars)]
<1>1. \A c \in Sessions : down[c] \o text \in Seq(Chars)
  BY DEF RestTypes
<1> QED BY <1>1 DEF Server!Says, RestTypes

(* Every step of a process is one of these, and keeps the other types.      *)
LEMMA ProcessEffect ==
  ASSUME RestTypes, HeldOnce, NEW p \in Processes, Acts(p)
  PROVE  Steps(p) /\ RestTypes'
<1>1. /\ cin_ok \in [Processes -> BOOLEAN] /\ failures \in 0 .. ForkFailures /\ failures \in Nat
      /\ left \in [Processes -> Seq(Chars)] /\ left[p] \in Seq(Chars)
      /\ up \in [Sessions -> Seq(Sent)] /\ down \in [Sessions -> Seq(Chars)] /\ shut \in SUBSET Sessions
  BY DEF RestTypes
<1>2. ForkFailures \in Nat /\ Prompt \in Seq(Chars)
  BY RemoteShellAssumption, FileFacts DEF Server!ConstantsOK
<1>3. \A text \in Seq(Chars) : [left EXCEPT ![p] = text] \in [Processes -> Seq(Chars)]
  BY <1>1
<1>4. \A c : c \in Chars => <<c>> \in Seq(Chars)
  OBVIOUS
<1>5. CASE Server!Accept(p)
  <2>1. Accepts(p) /\ UNCHANGED <<cin_ok, left, failures, up, down, shut>>
    BY <1>5 DEF Server!Accept, Server!Goto, Server!Newcomer, Accepts
  <2> QED BY <1>1, <2>1 DEF Steps, RestTypes
<1>6. CASE Server!Fork(p)
  <2>1. PICK q \in Processes : q = Server!Min(Server!Unborn) /\ at[q] = "none"
    BY <1>6, UnbornFacts DEF Server!Fork
  <2>2. /\ Forks(p, q) /\ UNCHANGED <<failures, up, down, shut>>
        /\ cin_ok' = [cin_ok EXCEPT ![q] = cin_ok[p]]
        /\ left' = [left EXCEPT ![q] = left[p]]
    BY <1>6, <2>1 DEF Server!Fork, Server!ParentHolds, Forks
  <2>3. cin_ok' \in [Processes -> BOOLEAN] /\ left' \in [Processes -> Seq(Chars)]
    BY <1>1, <2>2
  <2> QED BY <1>1, <2>2, <2>3 DEF Steps, RestTypes
<1>7. CASE Server!ForkFails(p)
  <2>1. /\ at[p] = "fork" /\ at' = [at EXCEPT ![p] = "accept"]
        /\ failures < ForkFailures /\ failures' = failures + 1
        /\ left' = [left EXCEPT ![p] = <<>>]
        /\ down' \in {down, Server!Says(p, left[p])}
        /\ UNCHANGED <<new_sock_fd, io, holds, cin_ok, jobs, backlog, up, shut>>
    BY <1>7 DEF Server!ForkFails, Server!Goto
  <2>2. left' \in [Processes -> Seq(Chars)] /\ down' \in [Sessions -> Seq(Chars)]
    BY <1>1, <1>3, <2>1, SaysTypes
  <2>3. Moves(p)
    BY <2>1 DEF Moves
  <2> QED BY <1>1, <1>2, <2>1, <2>2, <2>3 DEF Steps, RestTypes
<1>8. CASE Server!PrintPrompt(p)
  <2>1. /\ at[p] = "prompt" /\ UNCHANGED <<new_sock_fd, io, cin_ok, jobs, failures, backlog, up, shut>>
        /\ \/ /\ at' = [at EXCEPT ![p] = "read"] /\ UNCHANGED <<holds, left>>
              /\ down' \in {down, Server!Says(p, Prompt)}
           \/ /\ at' = [at EXCEPT ![p] = "gone"] /\ holds' = [holds EXCEPT ![p] = {}]
              /\ UNCHANGED <<down, left>>
           \/ /\ at' = [at EXCEPT ![p] = "accept"] /\ UNCHANGED <<holds, down>>
              /\ left' = [left EXCEPT ![p] = @ \o Prompt]
    BY <1>8 DEF Server!PrintPrompt, Server!Goto, Server!Gone
  <2>2. left[p] \o Prompt \in Seq(Chars)
    BY <1>1, <1>2
  <2>3. left' \in [Processes -> Seq(Chars)] /\ down' \in [Sessions -> Seq(Chars)]
    <3>1. Server!Says(p, Prompt) \in [Sessions -> Seq(Chars)]
      BY <1>2, SaysTypes
    <3>2. down' \in [Sessions -> Seq(Chars)]
      BY <1>1, <2>1, <3>1
    <3>3. left' \in [Processes -> Seq(Chars)]
      BY <1>1, <1>3, <2>1, <2>2
    <3> QED BY <3>2, <3>3
  <2>4. Moves(p) \/ Exits(p)
    BY <2>1 DEF Moves, Exits, Serves
  <2> QED BY <1>1, <2>1, <2>3, <2>4 DEF Steps, RestTypes
<1>9. CASE Server!ReadLine(p)
  <2>1. /\ at[p] = "read" /\ up[io[p]] # <<>>
        /\ UNCHANGED <<new_sock_fd, io, cin_ok, failures, backlog, down, shut>>
        /\ left' = [left EXCEPT ![p] = Head(up[io[p]]).says]
        /\ up' = [up EXCEPT ![io[p]] = Tail(@)]
        /\ \/ at' = [at EXCEPT ![p] = "run"] /\ UNCHANGED <<holds, jobs>>
           \/ /\ at' = [at EXCEPT ![p] = "run"] /\ holds' = holds
              /\ jobs' = [jobs EXCEPT ![p] = holds[p]]
           \/ at' = [at EXCEPT ![p] = "gone"] /\ holds' = [holds EXCEPT ![p] = {}] /\ jobs' = jobs
    BY <1>9 DEF Server!ReadLine, Server!Goto, Server!Gone
  <2>2. io[p] \in Sessions
    BY <2>1 DEF HeldOnce, Serves
  <2>3. Head(up[io[p]]) \in Sent /\ Tail(up[io[p]]) \in Seq(Sent)
    BY <1>1, <2>1, <2>2
  <2>4. Head(up[io[p]]).says \in Seq(Chars)
    BY <2>3 DEF Sent, Chars
  <2>5. left' \in [Processes -> Seq(Chars)] /\ up' \in [Sessions -> Seq(Sent)]
    BY <1>1, <1>3, <2>1, <2>2, <2>3, <2>4
  <2>6. Moves(p) \/ Exits(p) \/ Begins(p)
    BY <2>1 DEF Moves, Exits, Serves, Begins
  <2> QED BY <1>1, <2>1, <2>5, <2>6 DEF Steps, RestTypes
<1>10. CASE Server!EndOfInput(p)
  <2>1. /\ at[p] = "read" /\ at' = [at EXCEPT ![p] = "accept"]
        /\ cin_ok' = [cin_ok EXCEPT ![p] = FALSE]
        /\ UNCHANGED <<new_sock_fd, io, holds, left, jobs, failures, backlog, up, down, shut>>
    BY <1>10 DEF Server!EndOfInput, Server!Goto
  <2>2. cin_ok' \in [Processes -> BOOLEAN] /\ Moves(p)
    BY <1>1, <2>1 DEF Moves
  <2> QED BY <1>1, <2>1, <2>2 DEF Steps, RestTypes
<1>11. CASE Server!Output(p)
  <2>1. /\ at[p] = "run" /\ left[p] # <<>>
        /\ left' \in {[left EXCEPT ![p] = Tail(@)], [left EXCEPT ![p] = <<>>]}
        /\ down' \in {down, Server!Says(p, <<Head(left[p])>>)}
        /\ UNCHANGED <<at, new_sock_fd, io, holds, cin_ok, jobs, failures, backlog, up, shut>>
    BY <1>11 DEF Server!Output
  <2>2. Tail(left[p]) \in Seq(Chars) /\ Head(left[p]) \in Chars
    BY <1>1, <2>1
  <2>3. left' \in [Processes -> Seq(Chars)] /\ down' \in [Sessions -> Seq(Chars)]
    <3>1. Server!Says(p, <<Head(left[p])>>) \in [Sessions -> Seq(Chars)]
      BY <1>4, <2>2, SaysTypes
    <3>2. down' \in [Sessions -> Seq(Chars)]
      BY <1>1, <2>1, <3>1
    <3>3. left' \in [Processes -> Seq(Chars)]
      <4>1. <<>> \in Seq(Chars)
        OBVIOUS
      <4> QED BY <1>1, <1>3, <2>1, <2>2, <4>1
    <3> QED BY <3>2, <3>3
  <2> QED BY <1>1, <2>1, <2>3 DEF Steps, RestTypes
<1>12. CASE Server!Wait(p)
  <2>1. /\ at[p] = "run" /\ at' = [at EXCEPT ![p] = "prompt"]
        /\ UNCHANGED <<new_sock_fd, io, holds, cin_ok, left, jobs, failures, backlog, up, down, shut>>
    BY <1>12 DEF Server!Wait, Server!Goto
  <2>2. Moves(p)
    BY <2>1 DEF Moves, Serves
  <2> QED BY <1>1, <2>1, <2>2 DEF Steps, RestTypes
<1>13. CASE Server!JobsEnd(p)
  <2>1. JobsOver(p) /\ UNCHANGED <<cin_ok, left, failures, up, down, shut>>
    BY <1>13 DEF Server!JobsEnd, JobsOver
  <2> QED BY <1>1, <2>1 DEF Steps, RestTypes
<1> QED BY <1>5, <1>6, <1>7, <1>8, <1>9, <1>10, <1>11, <1>12, <1>13 DEF Server!Process, Acts

-----------------------------------------------------------------------------
(* The invariant.                                                           *)

(* Nobody has connected, and only the first process runs.                   *)
LEMMA InitInv ==
  Init => RemoteInv
<1> SUFFICES ASSUME Init PROVE RemoteInv
  OBVIOUS
<1>1. /\ st = [s \in Sessions |-> "resolve"] /\ pos = [s \in Sessions |-> 0]
      /\ flg_exit = [s \in Sessions |-> FALSE] /\ page = [s \in Sessions |-> <<>>]
      /\ reply = [s \in Sessions |-> "none"]
      /\ up = [s \in Sessions |-> <<>>] /\ down = [s \in Sessions |-> <<>>]
      /\ backlog = <<>> /\ shut = {}
  BY DEF Init, Console!Init
<1>2. /\ at = [p \in Processes |-> IF p = 0 THEN "accept" ELSE "none"]
      /\ new_sock_fd = [p \in Processes |-> NoClient] /\ io = [p \in Processes |-> NoClient]
      /\ holds = [p \in Processes |-> {}] /\ cin_ok = [p \in Processes |-> TRUE]
      /\ left = [p \in Processes |-> <<>>] /\ jobs = [p \in Processes |-> {}] /\ failures = 0
  BY DEF Init, Server!Init
<1>3. NoClient \notin Sessions /\ ForkFailures \in Nat
  BY RemoteShellAssumption DEF Server!ConstantsOK
<1>4. ConsoleTypes
  BY <1>1, FileFacts DEF ConsoleTypes
<1>5. Server!TypeOK
  BY <1>2, <1>3 DEF Server!TypeOK
<1>6. Types
  BY <1>1, <1>2, <1>4, <1>5, TypeParts DEF AllTypes, Handlers, Replies
<1>7. Len(backlog) = 0
  BY <1>1
<1>8. ConnectsOnce
  BY <1>1, <1>2, <1>3, <1>7 DEF ConnectsOnce, Came
<1>9. Queue /\ HeldOnce
  BY <1>2, <1>7 DEF Queue, HeldOnce, Serves
<1> QED BY <1>6, <1>8, <1>9 DEF RemoteInv

(* A connection that comes is new to the queue and to every process.        *)
LEMMA ConsoleKeeps ==
  ASSUME RemoteInv, NEW s \in Sessions,
         Console!Session(s) \/ Console!Proxy(s), UNCHANGED server
  PROVE  RemoteInv'
<1>1. /\ Types' /\ UNCHANGED <<at, new_sock_fd, io, holds, jobs>>
      /\ backlog' = backlog \/ (backlog' = Append(backlog, s) /\ ~Came(s))
      /\ \A r \in Sessions \ {s} : st'[r] = st[r] /\ reply'[r] = reply[r]
      /\ st'[s] \in {"resolve", "connect", "request"} => reply'[s] = "none" /\ backlog' = backlog
                                                          /\ st[s] \in {"resolve", "connect"}
      /\ reply'[s] = "asked" => /\ st'[s] = "reply" /\ backlog' = backlog
                                /\ st[s] = "request" \/ reply[s] = "asked"
  BY ConsoleStep DEF RemoteInv
<1>2. backlog \in Seq(Sessions) /\ Len(backlog) \in Nat
  BY DEF RemoteInv, Types, TypeOK
<1>3. \A r : Came(r)' => Came(r) \/ (r = s /\ backlog' # backlog)
  BY <1>1, <1>2 DEF Came
<1>4. ConnectsOnce'
  BY <1>1, <1>3 DEF ConnectsOnce, RemoteInv
<1>5. Queue'
  <2>1. CASE backlog' = backlog
    BY <1>1, <2>1 DEF Queue, RemoteInv
  <2>2. CASE backlog' = Append(backlog, s) /\ ~Came(s)
    <3>1. /\ Len(backlog') = Len(backlog) + 1 /\ backlog'[Len(backlog) + 1] = s
          /\ \A k \in 1 .. Len(backlog) : backlog'[k] = backlog[k] /\ backlog[k] # s
      BY <1>2, <2>2 DEF Came
    <3>2. \A p \in Processes : s \notin holds[p] /\ s # new_sock_fd[p] /\ s # io[p]
      BY <2>2 DEF Came
    <3>3. \A p \in Processes : s \notin jobs[p]
      BY <2>2 DEF Came
    <3>4. \A k \in 1 .. Len(backlog) :
            /\ \A j \in 1 .. Len(backlog) : backlog[j] = backlog[k] => j = k
            /\ \A p \in Processes : /\ backlog[k] \notin holds[p] /\ backlog[k] \notin jobs[p]
                                    /\ backlog[k] # new_sock_fd[p] /\ backlog[k] # io[p]
      BY DEF RemoteInv, Queue
    <3>5. ASSUME NEW k \in 1 .. Len(backlog'), NEW j \in 1 .. Len(backlog'), backlog'[j] = backlog'[k]
          PROVE  j = k
      BY <1>2, <3>1, <3>4, <3>5
    <3>6. ASSUME NEW k \in 1 .. Len(backlog'), NEW p \in Processes
          PROVE  /\ backlog'[k] \notin holds[p] /\ backlog'[k] \notin jobs[p]
                 /\ backlog'[k] # new_sock_fd[p] /\ backlog'[k] # io[p]
      BY <1>2, <3>1, <3>2, <3>3, <3>4
    <3> QED BY <1>1, <3>5, <3>6 DEF Queue
  <2> QED BY <1>1, <2>1, <2>2
<1>6. HeldOnce'
  BY <1>1 DEF HeldOnce, Serves, RemoteInv
<1> QED BY <1>1, <1>4, <1>5, <1>6 DEF RemoteInv

(* A socket passes from the queue to the process that accepts it and from   *)
(* there to its child.                                                      *)
LEMMA ServerKeeps ==
  ASSUME RemoteInv, NEW p \in Processes,
         Acts(p), UNCHANGED console
  PROVE  RemoteInv'
<1>1. /\ AllTypes /\ ConsoleTypes /\ Server!TypeOK /\ backlog \in Seq(Sessions)
      /\ at \in [Processes -> {"none", "accept", "fork", "prompt", "read", "run", "gone"}]
      /\ new_sock_fd \in [Processes -> Sessions \cup {NoClient}]
      /\ io \in [Processes -> Sessions \cup {NoClient}]
      /\ holds \in [Processes -> SUBSET Sessions] /\ jobs \in [Processes -> SUBSET Sessions]
      /\ RestTypes /\ ConnectsOnce /\ Queue /\ HeldOnce
  BY TypeParts DEF RemoteInv, AllTypes, Server!TypeOK, RestTypes, ConsoleTypes
<1>2. Steps(p) /\ RestTypes'
  BY <1>1, ProcessEffect
<1>3. UNCHANGED <<st, pos, flg_exit, page, reply>>
  BY DEF console
<1>4. backlog # <<>> =>
        /\ Head(backlog) \in Sessions /\ Head(backlog) = backlog[1] /\ Tail(backlog) \in Seq(Sessions)
        /\ Len(Tail(backlog)) = Len(backlog) - 1 /\ Len(backlog) \in Nat /\ Len(backlog) >= 1
        /\ \A k \in 1 .. Len(Tail(backlog)) : Tail(backlog)[k] = backlog[k + 1]
  BY <1>1
<1>5. /\ at' \in [Processes -> {"none", "accept", "fork", "prompt", "read", "run", "gone"}]
      /\ new_sock_fd' \in [Processes -> Sessions \cup {NoClient}]
      /\ io' \in [Processes -> Sessions \cup {NoClient}]
      /\ holds' \in [Processes -> SUBSET Sessions] /\ backlog' \in Seq(Sessions)
      /\ jobs' \in [Processes -> SUBSET Sessions]
  <2>1. CASE Accepts(p)
    BY <1>1, <1>4, <2>1 DEF Accepts
  <2>2. CASE \E q \in Processes : Forks(p, q)
    BY <1>1, <2>2 DEF Forks
  <2>3. CASE \/ Exits(p) \/ Moves(p) \/ Begins(p) \/ JobsOver(p)
              \/ UNCHANGED <<at, new_sock_fd, io, holds, jobs, backlog>>
    BY <1>1, <2>3 DEF Exits, Moves, Begins, JobsOver
  <2> QED BY <1>2, <2>1, <2>2, <2>3 DEF Steps
<1>6. Types'
  <2>1. ConsoleTypes' /\ Server!TypeOK'
    BY <1>1, <1>2, <1>3, <1>5 DEF ConsoleTypes, RestTypes, Server!TypeOK
  <2>2. AllTypes'
    BY <1>1, <1>2, <1>3, <1>5, <2>1 DEF AllTypes, RestTypes
  <2> QED BY <2>2, TypeParts, PTL
<1>7. \A r : Came(r)' => Came(r)
  <2>1. CASE Accepts(p)
    BY <1>1, <1>4, <2>1 DEF Accepts, Came
  <2>2. CASE \E q \in Processes : Forks(p, q)
    BY <1>1, <2>2 DEF Forks, Came
  <2>3. CASE \/ Exits(p) \/ Moves(p) \/ Begins(p) \/ JobsOver(p)
              \/ UNCHANGED <<at, new_sock_fd, io, holds, jobs, backlog>>
    BY <1>1, <2>3 DEF Exits, Moves, Begins, JobsOver, Came
  <2> QED BY <1>2, <2>1, <2>2, <2>3 DEF Steps
<1>8. ConnectsOnce'
  BY <1>1, <1>3, <1>7 DEF ConnectsOnce
<1>9. Queue' /\ HeldOnce'
  <2>1. CASE Accepts(p)
    <3>1. Queue'
      BY <1>1, <1>4, <2>1 DEF Accepts, Queue
    <3>2. HeldOnce'
      BY <1>1, <1>4, <2>1 DEF Accepts, Queue, HeldOnce, Serves
    <3> QED BY <3>1, <3>2
  <2>2. CASE \E q \in Processes : Forks(p, q)
    <3> PICK q \in Processes : Forks(p, q)
      BY <2>2
    <3>1. Queue'
      BY <1>1 DEF Forks, Queue
    <3>2. HeldOnce'
      <4>1. /\ p # q /\ jobs' = jobs
            /\ at'[p] = "accept" /\ at'[q] = "prompt" /\ io'[q] = new_sock_fd[p]
            /\ holds'[p] = holds[p] \ {new_sock_fd[p]} /\ holds'[q] = holds[p]
            /\ \A r \in Processes \ {p, q} : at'[r] = at[r] /\ holds'[r] = holds[r]
            /\ \A r \in Processes \ {q} : io'[r] = io[r] /\ new_sock_fd'[r] = new_sock_fd[r]
        BY <1>1 DEF Forks
      <4>2. /\ \A r \in Processes \ {p} : new_sock_fd[p] \notin holds[r]
            /\ \A r \in Processes : new_sock_fd[p] \notin jobs[r]
            /\ new_sock_fd[p] \in Sessions
        BY <1>1 DEF Forks, HeldOnce
      <4>3. ASSUME NEW r \in Processes, at'[r] = "fork"
            PROVE  /\ new_sock_fd'[r] \in holds'[r]
                   /\ \A u \in Processes \ {r} : new_sock_fd'[r] \notin holds'[u]
                   /\ \A u \in Processes : new_sock_fd'[r] \notin jobs'[u]
        BY <1>1, <4>1, <4>3 DEF HeldOnce
      <4>4. ASSUME NEW r \in Processes, Serves(r)', r # q
            PROVE  /\ io'[r] \in Sessions
                   /\ \A u \in Processes \ {r} : io'[r] \notin holds'[u] /\ io'[r] \notin jobs'[u]
        BY <1>1, <4>1, <4>4 DEF HeldOnce, Serves
      <4>5. /\ io'[q] \in Sessions
            /\ \A u \in Processes \ {q} : io'[q] \notin holds'[u] /\ io'[q] \notin jobs'[u]
        BY <4>1, <4>2
      <4>6. \A r \in Processes : at'[r] = "gone" => holds'[r] = {}
        BY <1>1, <4>1 DEF HeldOnce
      <4> QED BY <4>3, <4>4, <4>5, <4>6 DEF HeldOnce, Serves
    <3> QED BY <3>1, <3>2
  <2>3. CASE \/ Exits(p) \/ Moves(p) \/ Begins(p) \/ JobsOver(p)
              \/ UNCHANGED <<at, new_sock_fd, io, holds, jobs, backlog>>
    <3>1. Queue'
      BY <1>1, <2>3 DEF Exits, Moves, Begins, JobsOver, Queue
    <3>2. HeldOnce'
      BY <1>1, <2>3 DEF Exits, Moves, Begins, JobsOver, HeldOnce, Serves
    <3> QED BY <3>1, <3>2
  <2> QED BY <1>2, <2>1, <2>2, <2>3 DEF Steps
<1> QED BY <1>6, <1>8, <1>9 DEF RemoteInv

(* Every step keeps the invariant.                                          *)
LEMMA NextKeeps ==
  ASSUME RemoteInv, [Next]_vars
  PROVE  RemoteInv'
<1>1. CASE UNCHANGED vars
  <2>1. UNCHANGED <<st, pos, flg_exit, page, reply, at, new_sock_fd, io, holds, cin_ok, left,
                    jobs, failures, backlog, up, down, shut>>
    BY <1>1 DEF vars, console, server
  <2>2. Types'
    <3>1. AllTypes'
      BY <2>1, TypeParts DEF RemoteInv, AllTypes, ConsoleTypes, Server!TypeOK
    <3> QED BY <3>1, TypeParts, PTL
  <2> QED BY <2>1, <2>2 DEF RemoteInv, ConnectsOnce, Came, Queue, HeldOnce, Serves
<1>2. CASE Console!Next /\ UNCHANGED server
  BY <1>2, ConsoleKeeps DEF Console!Next
<1>3. CASE Server!Next /\ UNCHANGED console
  BY <1>3, ServerKeeps DEF Server!Next, Acts
<1> QED BY <1>1, <1>2, <1>3 DEF Next

(* So it holds at all times.                                                *)
LEMMA InvCorrect ==
  Spec => []RemoteInv
<1>1. RemoteInv /\ [Next]_vars => RemoteInv'
  BY NextKeeps
<1> QED BY InitInv, <1>1, PTL DEF Spec

-----------------------------------------------------------------------------
(* What a page shows.                                                       *)

Parts(s) == [k \in DOMAIN File[s] |-> <<Console!Cmd(k)>> \o Answer(File[s][k])]

(* The transcript up to the answer of line j.                               *)
Upto(s, j) == Prompt \o FlattenSeq(SubSeq(Parts(s), 1, j))

(* The page when the last line has been sent, and what is to follow.        *)
Before(s) == IF pos[s] = 0 THEN <<>> ELSE Upto(s, pos[s] - 1) \o <<Console!Cmd(pos[s])>>
After(s)  == IF pos[s] = 0 THEN Prompt ELSE Answer(File[s][pos[s]])

SentLine(s) == [k |-> pos[s], op |-> File[s][pos[s]].op, says |-> File[s][pos[s]].says]

(* What the server is going to write before it reads the next line.         *)
ToCome(s, r) ==
  \/ (\A p \in Processes : io[p] # s) /\ r = Prompt
  \/ \E p \in Processes : /\ io[p] = s
                          /\ \/ at[p] = "prompt" /\ r = Prompt
                             \/ at[p] = "read" /\ r = <<>>
                             \/ at[p] = "run" /\ r = left[p] \o Prompt
                             \/ at[p] = "gone" /\ r = <<>> /\ flg_exit[s]
                             \/ at[p] \in {"accept", "fork"} /\ ~cin_ok[p] /\ r = Prompt

(* The line is on its way; the page ends with it.                           *)
Asks(s) ==
  /\ pos[s] > 0 /\ up[s] = <<SentLine(s)>> /\ down[s] = <<>> /\ page[s] = Before(s)
  /\ \E p \in Processes : io[p] = s /\ at[p] = "read"

(* Of the answer, a is on the page, and r is to come behind what is there.  *)
Answers(s, a, r) ==
  /\ up[s] = <<>> /\ ToCome(s, r)
  /\ page[s] = Before(s) \o a /\ a \o (down[s] \o r) = After(s)

Shows(s) ==
  IF s \in shut THEN IsPrefix(page[s], Transcript(s))
  ELSE Asks(s) \/ \E a, r \in Seq(Chars) : Answers(s, a, r)

(* A process with a good cin that accepts is the first one, which has       *)
(* nothing to say; who serves has said all that came before the line.       *)
Speaks ==
  \A p \in Processes :
    /\ at[p] = "none" => io[p] = NoClient
    /\ at[p] \in {"accept", "fork"} /\ io[p] # NoClient => ~cin_ok[p]
    /\ ~cin_ok[p] => at[p] \in {"accept", "fork", "prompt"}
    /\ at[p] \in {"accept", "fork", "prompt", "read"} /\ cin_ok[p] => left[p] = <<>>
    /\ io[p] # NoClient => \A q \in Processes \ {p} : io[p] # io[q]
    /\ at[p] = "fork" => \A q \in Processes : io[q] # new_sock_fd[p]

(* The console's own state.                                                 *)
Marks ==
  \A s \in Sessions :
    /\ flg_exit[s] <=> pos[s] > 0 /\ File[s][pos[s]].op = "exit"
    /\ s \in shut => st[s] = "done"

PageInv ==
  RemoteInv /\ Speaks /\ Marks /\ \A s \in Sessions : ~Deceptive(s) /\ Served(s) => Shows(s)

(* Text may be shown.                                                       *)
LEMMA Showable ==
  ASSUME NEW t \in Seq(Chars)
  PROVE  t \in Seq(Shown)
<1>1. \A k \in 1 .. Len(t) : t[k] \in Shown
  BY FileFacts
<1>2. t = [k \in 1 .. Len(t) |-> t[k]] /\ Len(t) \in Nat
  OBVIOUS
<1> QED BY <1>1, <1>2, AsSequence

(* Each part of the transcript is a line and its answer.                    *)
LEMMA PartFacts ==
  ASSUME NEW s \in Sessions
  PROVE  /\ Len(File[s]) \in Nat /\ Len(Parts(s)) = Len(File[s])
         /\ Parts(s) \in Seq(Seq(Shown))
         /\ \A k \in 1 .. Len(File[s]) : /\ Console!Cmd(k) \in Shown
                                         /\ Answer(File[s][k]) \in Seq(Chars)
                                         /\ Parts(s)[k] = <<Console!Cmd(k)>> \o Answer(File[s][k])
         /\ Transcript(s) = Prompt \o FlattenSeq(Parts(s))
<1>1. File[s] \in Seq(Console!Line) /\ Len(File[s]) \in Nat /\ DOMAIN File[s] = 1 .. Len(File[s])
  BY RemoteShellAssumption DEF Console!ConstantsOK
<1>2. \A k \in 1 .. Len(File[s]) : Console!Cmd(k) \in Shown /\ Answer(File[s][k]) \in Seq(Chars)
  <2> TAKE k \in 1 .. Len(File[s])
  <2>1. File[s][k].says \in Seq(Chars) /\ Prompt \in Seq(Chars) /\ Console!Cmd(k) \in Shown
    BY FileFacts
  <2>2. File[s][k].says \o Prompt \in Seq(Chars) /\ <<>> \in Seq(Chars)
    BY <2>1
  <2> QED BY <2>1, <2>2 DEF Answer
<1>3. \A k \in 1 .. Len(File[s]) : /\ Parts(s)[k] = <<Console!Cmd(k)>> \o Answer(File[s][k])
                                   /\ Parts(s)[k] \in Seq(Shown)
  <2> TAKE k \in 1 .. Len(File[s])
  <2>1. Parts(s)[k] = <<Console!Cmd(k)>> \o Answer(File[s][k])
    BY <1>1 DEF Parts
  <2>2. <<Console!Cmd(k)>> \in Seq(Shown) /\ Answer(File[s][k]) \in Seq(Shown)
    BY <1>2, Showable
  <2> QED BY <2>1, <2>2
<1>4. Parts(s) = [k \in 1 .. Len(File[s]) |-> Parts(s)[k]]
  BY <1>1 DEF Parts
<1>5. Parts(s) \in Seq(Seq(Shown)) /\ Len(Parts(s)) = Len(File[s])
  BY <1>1, <1>3, <1>4, AsSequence
<1> QED BY <1>1, <1>2, <1>3, <1>5 DEF Transcript, Parts

(* The transcript grows by a line and its answer at a time.                 *)
LEMMA UptoFacts ==
  ASSUME NEW s \in Sessions
  PROVE  /\ Upto(s, 0) = Prompt /\ Upto(s, Len(File[s])) = Transcript(s)
         /\ \A j \in 0 .. Len(File[s]) : Upto(s, j) \in Seq(Shown)
         /\ \A j \in 1 .. Len(File[s]) :
              Upto(s, j) = (Upto(s, j - 1) \o <<Console!Cmd(j)>>) \o Answer(File[s][j])
<1> DEFINE q == Parts(s)
           N == Len(File[s])
<1>1. /\ N \in Nat /\ Len(q) = N /\ q \in Seq(Seq(Shown)) /\ Prompt \in Seq(Shown)
      /\ \A k \in 1 .. N : /\ <<Console!Cmd(k)>> \in Seq(Shown) /\ Answer(File[s][k]) \in Seq(Shown)
                           /\ q[k] = <<Console!Cmd(k)>> \o Answer(File[s][k])
                           /\ q[k] \in Seq(Shown)
  <2>1. \A k \in 1 .. N : <<Console!Cmd(k)>> \in Seq(Shown) /\ Answer(File[s][k]) \in Seq(Shown)
    BY PartFacts, Showable, OneElement
  <2>2. Prompt \in Seq(Shown)
    BY FileFacts, Showable
  <2> QED BY <2>1, <2>2, PartFacts
<1> HIDE DEF q, N
<1>2. \A j \in 0 .. N : FlattenSeq(SubSeq(q, 1, j)) \in Seq(Shown)
  <2> TAKE j \in 0 .. N
  <2>1. SubSeq(q, 1, j) \in Seq(Seq(Shown)) /\ <<>> \in Seq(Shown)
    BY <1>1
  <2> QED BY <2>1, FlattenStep
<1>3. \A j \in 0 .. N : Upto(s, j) \in Seq(Shown)
  BY <1>1, <1>2 DEF Upto, q
<1>4. Upto(s, 0) = Prompt
  <2>1. SubSeq(q, 1, 0) = <<>> /\ <<>> \in Seq(Seq(Shown)) /\ <<>> \in Seq(Shown)
    BY <1>1
  <2>2. FlattenSeq(<<>>) = <<>>
    BY <2>1, FlattenStep
  <2>3. Prompt \o <<>> = Prompt
    BY <1>1
  <2> QED BY <2>1, <2>2, <2>3 DEF Upto, q
<1>5. Upto(s, N) = Transcript(s)
  <2>1. SubSeq(q, 1, N) = q
    BY <1>1
  <2> QED BY <2>1, PartFacts DEF Upto, q
<1>6. \A j \in 1 .. N : Upto(s, j) = (Upto(s, j - 1) \o <<Console!Cmd(j)>>) \o Answer(File[s][j])
  <2> TAKE j \in 1 .. N
  <2> DEFINE f == FlattenSeq(SubSeq(q, 1, j - 1))
             c == <<Console!Cmd(j)>>
             w == Answer(File[s][j])
  <2> DEFINE t == Prompt
  <2>1. SubSeq(q, 1, j) = Append(SubSeq(q, 1, j - 1), q[j]) /\ SubSeq(q, 1, j - 1) \in Seq(Seq(Shown))
    <3> DEFINE x == SubSeq(q, 1, j)
               z == SubSeq(q, 1, j - 1)
               y == Append(z, q[j])
    <3>1. j \in Nat /\ j >= 1 /\ j <= Len(q)
      BY <1>1
    <3>2. x \in Seq(Seq(Shown)) /\ Len(x) = j /\ \A k \in 1 .. j : x[k] = q[k]
      BY <1>1, <3>1
    <3>3. z \in Seq(Seq(Shown)) /\ Len(z) = j - 1 /\ \A k \in 1 .. j - 1 : z[k] = q[k]
      BY <1>1, <3>1
    <3> HIDE DEF x, z
    <3>4. q[j] \in Seq(Shown)
      BY <1>1
    <3>5. /\ y \in Seq(Seq(Shown)) /\ Len(y) = (j - 1) + 1 /\ y[(j - 1) + 1] = q[j]
          /\ \A k \in 1 .. j - 1 : y[k] = z[k]
      BY <3>3, <3>4
    <3> HIDE DEF y
    <3>6. \A k \in 1 .. j : x[k] = y[k]
      <4> TAKE k \in 1 .. j
      <4>1. CASE k = j
        BY <3>1, <3>2, <3>5, <4>1
      <4>2. CASE k # j
        <5>1. k \in 1 .. j - 1
          BY <3>1, <4>2
        <5> QED BY <3>2, <3>3, <3>5, <5>1
      <4> QED BY <4>1, <4>2
    <3>7. x = y
      <4>1. Len(x) = Len(y)
        BY <3>1, <3>2, <3>5
      <4> QED BY <3>2, <3>5, <3>6, <4>1
    <3> QED BY <3>3, <3>7 DEF x, y, z
  <2>2. FlattenSeq(SubSeq(q, 1, j)) = f \o q[j]
    BY <1>1, <2>1, FlattenStep
  <2>3. f \in Seq(Shown) /\ c \in Seq(Shown) /\ w \in Seq(Shown) /\ q[j] = c \o w
        /\ t \in Seq(Shown)
    <3>1. j - 1 \in 0 .. N
      BY <1>1
    <3> QED BY <1>1, <1>2, <3>1
  <2>4. Upto(s, j) = t \o (f \o q[j]) /\ Upto(s, j - 1) = t \o f
    BY <2>2 DEF Upto, q
  <2> HIDE DEF f, c, w, t
  <2>6. f \in Seq(Shown) /\ c \in Seq(Shown) /\ w \in Seq(Shown) /\ t \in Seq(Shown)
    BY <2>3
  <2>5. t \o (f \o (c \o w)) = ((t \o f) \o c) \o w
    <3>1. c \o w \in Seq(Shown) /\ t \o f \in Seq(Shown)
      BY <2>6
    <3>2. (t \o f) \o (c \o w) = t \o (f \o (c \o w))
      BY <2>6, <3>1, ConcatAssociative
    <3>3. ((t \o f) \o c) \o w = (t \o f) \o (c \o w)
      BY <2>6, <3>1, ConcatAssociative
    <3> QED BY <3>2, <3>3
  <2> QED BY <2>3, <2>4, <2>5 DEF c, w
<1> QED BY <1>3, <1>4, <1>5, <1>6 DEF N

(* A part of the transcript begins it.                                      *)
LEMMA UptoPrefix ==
  ASSUME NEW s \in Sessions, NEW j \in 0 .. Len(File[s])
  PROVE  IsPrefix(Upto(s, j), Transcript(s)) /\ Transcript(s) \in Seq(Shown)
<1> DEFINE N == Len(File[s])
           M == {k \in Nat : k <= N => IsPrefix(Upto(s, N - k), Upto(s, N))}
<1>1. N \in Nat
  BY FileFacts
<1>2. \A k \in 0 .. N : Upto(s, k) \in Seq(Shown)
  BY UptoFacts
<1>3. 0 \in M
  BY <1>1, <1>2, PrefixFacts
<1>4. \A k \in M : k + 1 \in M
  <2> SUFFICES ASSUME NEW k \in Nat, k \in M, k + 1 <= N
               PROVE  IsPrefix(Upto(s, N - (k + 1)), Upto(s, N))
    OBVIOUS
  <2> DEFINE m == N - (k + 1)
  <2>1. m \in 0 .. N /\ m + 1 \in 1 .. N /\ N - k = m + 1 /\ m + 1 \in 0 .. N /\ N \in 0 .. N /\ (m + 1) - 1 = m
    BY <1>1
  <2>2. IsPrefix(Upto(s, m + 1), Upto(s, N))
    BY <2>1
  <2> HIDE DEF m, M, N
  <2>3. Upto(s, m + 1) = (Upto(s, m) \o <<Console!Cmd(m + 1)>>) \o Answer(File[s][m + 1])
    BY <2>1, UptoFacts DEF N
  <2>4. /\ <<Console!Cmd(m + 1)>> \in Seq(Shown) /\ Answer(File[s][m + 1]) \in Seq(Shown)
        /\ Upto(s, m) \in Seq(Shown) /\ Upto(s, m) \o <<Console!Cmd(m + 1)>> \in Seq(Shown)
    <3>1. Upto(s, m) \in Seq(Shown) /\ Answer(File[s][m + 1]) \in Seq(Shown)
      BY <1>2, <2>1, PartFacts, Showable DEF N
    <3>2. <<Console!Cmd(m + 1)>> \in Seq(Shown)
      BY <2>1, PartFacts, OneElement DEF N
    <3> QED BY <3>1, <3>2
  <2>5. IsPrefix(Upto(s, m), Upto(s, m) \o <<Console!Cmd(m + 1)>>)
    BY <2>4, PrefixFacts
  <2>6. IsPrefix(Upto(s, m) \o <<Console!Cmd(m + 1)>>, Upto(s, m + 1))
    BY <2>3, <2>4, PrefixFacts
  <2>7. Upto(s, m + 1) \in Seq(Shown) /\ Upto(s, N) \in Seq(Shown)
    BY <1>2, <2>1
  <2>8. IsPrefix(Upto(s, m), Upto(s, m + 1))
    BY <2>4, <2>5, <2>6, <2>7, PrefixTransitive
  <2>9. IsPrefix(Upto(s, m), Upto(s, N))
    BY <2>2, <2>4, <2>7, <2>8, PrefixTransitive
  <2> QED BY <2>9 DEF m
<1>5. M = Nat
  <2>1. M \in SUBSET Nat
    OBVIOUS
  <2> HIDE DEF M
  <2> QED BY <1>3, <1>4, <2>1, SetInduction
<1>6. N - j \in M /\ N - (N - j) = j
  <2>1. N - j \in Nat /\ N - (N - j) = j
    BY <1>1
  <2> HIDE DEF M
  <2> QED BY <1>5, <2>1
<1>7. N - j <= N
  BY <1>1
<1> QED BY <1>1, <1>2, <1>6, <1>7, UptoFacts

(* What the library has as one fact about all sequences.                    *)
LEMMA Concat ==
  ASSUME NEW x \in Seq(Chars), NEW y \in Seq(Chars)
  PROVE  /\ x \o y \in Seq(Chars) /\ Len(x \o y) = Len(x) + Len(y)
         /\ \A j \in 1 .. Len(x) + Len(y) : (x \o y)[j] = IF j <= Len(x) THEN x[j] ELSE y[j - Len(x)]
OBVIOUS

(* Joining is associative.                                                  *)
LEMMA Joined ==
  /\ \A x, y, z \in Seq(Shown) : (x \o y) \o z = x \o (y \o z)
  /\ \A x, y, z \in Seq(Chars) : (x \o y) \o z = x \o (y \o z)
<1>1. ASSUME NEW x \in Seq(Shown), NEW y \in Seq(Shown), NEW z \in Seq(Shown)
      PROVE  (x \o y) \o z = x \o (y \o z)
  BY ConcatAssociative
<1>2. ASSUME NEW x \in Seq(Chars), NEW y \in Seq(Chars), NEW z \in Seq(Chars)
      PROVE  (x \o y) \o z = x \o (y \o z)
  BY ConcatAssociative
<1> QED BY <1>1, <1>2

(* The page before and after an answer are parts of the transcript.         *)
LEMMA BeforeFacts ==
  ASSUME NEW s \in Sessions, pos[s] \in 0 .. Len(File[s])
  PROVE  /\ Before(s) \in Seq(Shown) /\ After(s) \in Seq(Chars)
         /\ Before(s) \o After(s) = Upto(s, pos[s])
         /\ IsPrefix(Before(s) \o After(s), Transcript(s))
<1> DEFINE k == pos[s]
<1>1. Len(File[s]) \in Nat /\ k \in 0 .. Len(File[s]) /\ Prompt \in Seq(Chars)
  BY FileFacts
<1>2. Prompt \in Seq(Shown)
  BY <1>1, Showable
<1> HIDE DEF k
<1>3. CASE k = 0
  <2>1. Before(s) = <<>> /\ After(s) = Prompt /\ Upto(s, k) = Prompt
    BY <1>3, UptoFacts DEF Before, After, k
  <2>2. <<>> \in Seq(Shown) /\ <<>> \o Prompt = Prompt
    BY <1>2
  <2> QED BY <1>1, <2>1, <2>2, UptoPrefix DEF k
<1>4. CASE k # 0
  <2>1. /\ Before(s) = Upto(s, k - 1) \o <<Console!Cmd(k)>> /\ After(s) = Answer(File[s][k])
    BY <1>4 DEF Before, After, k
  <2>2. k \in 1 .. Len(File[s]) /\ k - 1 \in 0 .. Len(File[s])
    BY <1>1, <1>4
  <2>3. /\ Upto(s, k) = (Upto(s, k - 1) \o <<Console!Cmd(k)>>) \o Answer(File[s][k])
        /\ Upto(s, k - 1) \in Seq(Shown)
    BY <2>2, UptoFacts
  <2>4. <<Console!Cmd(k)>> \in Seq(Shown) /\ Answer(File[s][k]) \in Seq(Chars)
    BY <2>2, PartFacts, OneElement
  <2>5. Upto(s, k - 1) \o <<Console!Cmd(k)>> \in Seq(Shown)
    BY <2>3, <2>4
  <2>6. Before(s) \o After(s) = Upto(s, k)
    BY <2>1, <2>3
  <2> QED BY <1>1, <2>1, <2>4, <2>5, <2>6, UptoPrefix DEF k
<1> QED BY <1>3, <1>4

(* What an answer has shown and what has arrived of it.                     *)
LEMMA AnswerFacts ==
  ASSUME NEW s \in Sessions, pos[s] \in 0 .. Len(File[s]),
         NEW a \in Seq(Chars), NEW d \in Seq(Chars), NEW r \in Seq(Chars),
         a \o (d \o r) = After(s), NEW m \in 0 .. Len(d)
  PROVE  /\ IsPrefix((Before(s) \o a) \o SubSeq(d, 1, m), Transcript(s))
         /\ IsPrefix(Before(s) \o a, Transcript(s))
         /\ (Before(s) \o a) \o SubSeq(d, 1, m) = Before(s) \o (a \o SubSeq(d, 1, m))
         /\ a \o SubSeq(d, 1, m) \in Seq(Chars)
<1> DEFINE b == Before(s)
           c == SubSeq(d, 1, m)
           e == SubSeq(d, m + 1, Len(d))
           t == Transcript(s)
<1>1. b \in Seq(Shown) /\ IsPrefix(b \o After(s), t) /\ t \in Seq(Shown)
  <2>1. Len(File[s]) \in Nat
    BY FileFacts
  <2>2. 0 \in 0 .. Len(File[s])
    BY <2>1
  <2> QED BY <2>2, BeforeFacts, UptoPrefix
<1>2. c \in Seq(Chars) /\ e \in Seq(Chars) /\ c \o e = d
  BY TwoParts
<1> HIDE DEF b, c, e, t
<1>3. /\ b \in Seq(Shown) /\ a \in Seq(Shown) /\ c \in Seq(Shown) /\ e \in Seq(Shown)
      /\ r \in Seq(Shown) /\ d \in Seq(Shown)
  BY <1>1, <1>2, Showable
<1>4. e \o r \in Seq(Chars) /\ a \o c \in Seq(Chars) /\ d \o r \in Seq(Shown)
  BY <1>2, <1>3
<1>5. (a \o c) \o (e \o r) = After(s)
  <2> DEFINE z == e \o r
  <2>1. z \in Seq(Chars) /\ c \in Seq(Chars)
    BY <1>2, <1>4
  <2> HIDE DEF z
  <2>2. (a \o c) \o z = a \o (c \o z)
    BY <2>1, Joined, Zenon
  <2>3. (c \o e) \o r = c \o z
    BY <1>2, Joined, Zenon DEF z
  <2> QED BY <1>2, <2>2, <2>3 DEF z
<1>6. (b \o a) \o c = b \o (a \o c)
  BY <1>3, Joined, Zenon
<1>7. a \o c \in Seq(Shown) /\ e \o r \in Seq(Shown)
  BY <1>4, Showable
<1>8. /\ b \o (a \o c) \in Seq(Shown) /\ b \o a \in Seq(Shown)
      /\ (b \o (a \o c)) \o (e \o r) \in Seq(Shown) /\ (b \o a) \o c \in Seq(Shown)
  BY <1>1, <1>3, <1>7
<1>9. (b \o (a \o c)) \o (e \o r) = b \o After(s)
  <2>1. (b \o (a \o c)) \o (e \o r) = b \o ((a \o c) \o (e \o r))
    BY <1>1, <1>7, Joined, Zenon
  <2> QED BY <1>5, <2>1
<1>10. IsPrefix(b \o (a \o c), b \o After(s))
  BY <1>7, <1>8, <1>9, PrefixFacts
<1>11. b \o After(s) \in Seq(Shown)
  BY <1>8, <1>9
<1>12. IsPrefix(b \o (a \o c), t)
  BY <1>1, <1>8, <1>10, <1>11, PrefixTransitive
<1>13. IsPrefix(b \o a, (b \o a) \o c)
  BY <1>3, <1>8, PrefixFacts
<1>14. IsPrefix(b \o a, t)
  BY <1>1, <1>6, <1>8, <1>12, <1>13, PrefixTransitive
<1> QED BY <1>4, <1>5, <1>6, <1>12, <1>14 DEF b, c, e, t

(* A command whose output does not look like a prompt: the two characters   *)
(* are found only at the end of the answer.                                 *)
LEMMA PromptEnds ==
  ASSUME NEW s \in Sessions, pos[s] \in 0 .. Len(File[s]), ~Deceptive(s),
         NEW a \in Seq(Chars), NEW d \in Seq(Chars), NEW r \in Seq(Chars),
         a \o (d \o r) = After(s), NEW m \in 0 .. Len(d),
         Console!HasPrompt(SubSeq(d, 1, m))
  PROVE  SubSeq(d, m + 1, Len(d)) = <<>> /\ r = <<>> /\ SubSeq(d, 1, m) = d
<1> DEFINE w == d \o r
           v == a \o w
<1>1. /\ Len(a) \in Nat /\ Len(d) \in Nat /\ Len(r) \in Nat
      /\ w \in Seq(Chars) /\ Len(w) = Len(d) + Len(r)
      /\ v \in Seq(Chars) /\ Len(v) = Len(a) + Len(w) /\ v = After(s)
      /\ \A j \in 1 .. Len(d) : w[j] = d[j]
      /\ \A j \in 1 .. Len(w) : v[Len(a) + j] = w[j]
  <2>1. /\ w \in Seq(Chars) /\ Len(w) = Len(d) + Len(r)
        /\ \A j \in 1 .. Len(d) : w[j] = d[j]
    OBVIOUS
  <2> HIDE DEF w
  <2>2. /\ v \in Seq(Chars) /\ Len(v) = Len(a) + Len(w)
        /\ \A j \in 1 .. Len(a) + Len(w) : v[j] = IF j <= Len(a) THEN a[j] ELSE w[j - Len(a)]
    BY <2>1, Concat
  <2>3. v = After(s)
    BY DEF v, w
  <2> HIDE DEF v
  <2>5. Len(a) \in Nat /\ Len(d) \in Nat /\ Len(r) \in Nat /\ Len(w) \in Nat
    BY <2>1
  <2>4. \A j \in 1 .. Len(w) : v[Len(a) + j] = w[j]
    <3> TAKE j \in 1 .. Len(w)
    <3>1. Len(a) + j \in 1 .. Len(v) /\ ~(Len(a) + j <= Len(a)) /\ (Len(a) + j) - Len(a) = j
      BY <2>2, <2>5
    <3> QED BY <2>2, <3>1
  <2> QED BY <2>1, <2>2, <2>3, <2>4, <2>5
<1>2. Len(SubSeq(d, 1, m)) = m /\ \A j \in 1 .. m : SubSeq(d, 1, m)[j] = d[j]
  OBVIOUS
<1>3. PICK j \in 1 .. m - 1 : d[j] = Console!Percent /\ d[j + 1] = Console!Blank
  <2>1. PICK j \in 1 .. Len(SubSeq(d, 1, m)) - 1 : SubSeq(d, 1, m)[j] = Console!Percent
                                                   /\ SubSeq(d, 1, m)[j + 1] = Console!Blank
    BY DEF Console!HasPrompt
  <2>2. j \in 1 .. m - 1 /\ j \in 1 .. m /\ j + 1 \in 1 .. m
    BY <1>2, <2>1
  <2> QED BY <1>2, <2>1, <2>2
<1> DEFINE i == Len(a) + j
<1> HIDE DEF w, v
<1>4. i \in 1 .. Len(v) - 1 /\ v[i] = Console!Percent /\ v[i + 1] = Console!Blank
  <2>1. j \in 1 .. Len(d) /\ j + 1 \in 1 .. Len(d) /\ j \in 1 .. Len(w) /\ j + 1 \in 1 .. Len(w)
    BY <1>1, <1>3
  <2>2. v[i] = d[j] /\ v[Len(a) + (j + 1)] = d[j + 1]
    BY <1>1, <2>1
  <2>3. Len(a) + (j + 1) = i + 1 /\ i \in 1 .. Len(v) - 1
    BY <1>1, <2>1
  <2> QED BY <1>3, <2>2, <2>3
<1> HIDE DEF i
<1>5. /\ Len(Prompt) = 2 /\ Prompt[1] = Console!Percent /\ Prompt[2] = Console!Blank
      /\ Console!Percent # Console!Blank
  BY DEF Prompt, Console!Percent, Console!Blank
<1>6. i + 1 = Len(v)
  <2>1. CASE pos[s] = 0
    <3>1. v = Prompt
      BY <1>1, <2>1 DEF After
    <3>2. Len(v) = 2
      BY <1>5, <3>1
    <3> QED BY <1>4, <3>2
  <2>2. CASE pos[s] # 0
    <3> DEFINE l == File[s][pos[s]]
               y == l.says
    <3>1. pos[s] \in 1 .. Len(File[s]) /\ Len(File[s]) \in Nat /\ pos[s] \in DOMAIN File[s]
      BY <2>2, FileFacts, RemoteShellAssumption DEF Console!ConstantsOK
    <3>2. y \in Seq(Chars) /\ ~Console!HasPrompt(y)
      BY <3>1, FileFacts DEF Deceptive
    <3>3. v = Answer(l)
      BY <1>1, <2>2 DEF After
    <3>4. l.op # "exit"
      <4>1. l.op = "exit" => Len(v) = 0
        BY <3>3 DEF Answer
      <4> QED BY <1>4, <4>1
    <3>5. v = y \o Prompt
      BY <3>3, <3>4 DEF Answer
    <3> HIDE DEF y, l
    <3>6. /\ Len(y) \in Nat /\ Len(v) = Len(y) + 2
          /\ \A q \in 1 .. Len(y) : v[q] = y[q]
          /\ v[Len(y) + 1] = Prompt[1] /\ v[Len(y) + 2] = Prompt[2]
      <4> DEFINE z == Prompt
      <4>1. z \in Seq(Chars) /\ Len(z) = 2 /\ v = y \o z
        BY <1>5, <3>5, FileFacts
      <4> HIDE DEF z
      <4>2. /\ Len(v) = Len(y) + Len(z) /\ Len(y) \in Nat
            /\ \A q \in 1 .. Len(y) + Len(z) : v[q] = IF q <= Len(y) THEN y[q] ELSE z[q - Len(y)]
        <5>1. Len(y) \in Nat
          BY <3>2
        <5>2. /\ Len(y \o z) = Len(y) + Len(z)
              /\ \A q \in 1 .. Len(y) + Len(z) :
                   (y \o z)[q] = IF q <= Len(y) THEN y[q] ELSE z[q - Len(y)]
          BY <3>2, <4>1, Concat
        <5> QED BY <4>1, <5>1, <5>2
      <4>3. /\ (Len(y) + 1) - Len(y) = 1 /\ (Len(y) + 2) - Len(y) = 2
            /\ Len(y) + 1 \in 1 .. Len(v) /\ Len(y) + 2 \in 1 .. Len(v)
            /\ ~(Len(y) + 1 <= Len(y)) /\ ~(Len(y) + 2 <= Len(y))
        BY <4>1, <4>2
      <4>4. v[Len(y) + 1] = z[1] /\ v[Len(y) + 2] = z[2]
        BY <4>2, <4>3
      <4>5. \A q \in 1 .. Len(y) : v[q] = y[q]
        BY <4>1, <4>2
      <4> QED BY <4>1, <4>2, <4>4, <4>5 DEF z
    <3>7. ~(i + 1 <= Len(y))
      <4>1. i + 1 <= Len(y) => i \in 1 .. Len(y) - 1 /\ i \in 1 .. Len(y) /\ i + 1 \in 1 .. Len(y)
        BY <1>1, <1>4, <3>6
      <4> QED BY <1>4, <3>2, <3>6, <4>1 DEF Console!HasPrompt
    <3>8. i # Len(y)
      BY <1>4, <1>5, <3>6
    <3> QED BY <1>1, <1>4, <3>6, <3>7, <3>8
  <2> QED BY <2>1, <2>2
<1>7. m = Len(d) /\ Len(r) = 0
  BY <1>1, <1>3, <1>6 DEF i
<1>8. r = <<>>
  BY <1>7
<1>9. SubSeq(d, 1, Len(d)) = d /\ SubSeq(d, Len(d) + 1, Len(d)) = <<>>
  OBVIOUS
<1> QED BY <1>7, <1>8, <1>9

-----------------------------------------------------------------------------
(* The console's steps and the pages.                                       *)

(* A step that leaves alone what a page depends on.                         *)
LEMMA StillShows ==
  ASSUME NEW s \in Sessions, Shows(s), page'[s] = page[s], pos'[s] = pos[s],
         up'[s] = up[s], down'[s] = down[s], flg_exit'[s] = flg_exit[s], s \in shut' <=> s \in shut,
         \A p \in Processes : io'[p] = s <=> io[p] = s,
         \A p \in Processes : io[p] = s => /\ at'[p] = at[p] /\ left'[p] = left[p]
                                           /\ cin_ok'[p] = cin_ok[p]
  PROVE  Shows(s)'
<1>1. /\ Before(s)' = Before(s) /\ After(s)' = After(s) /\ SentLine(s)' = SentLine(s)
  BY DEF Before, After, SentLine
<1>2. \A r \in Seq(Chars) : ToCome(s, r) => ToCome(s, r)'
  BY DEF ToCome
<1>3. CASE s \in shut
  BY <1>3 DEF Shows
<1>4. CASE s \notin shut /\ Asks(s)
  BY <1>1, <1>4 DEF Shows, Asks
<1>5. CASE s \notin shut /\ \E a, r \in Seq(Chars) : Answers(s, a, r)
  BY <1>1, <1>2, <1>5 DEF Shows, Answers
<1> QED BY <1>3, <1>4, <1>5 DEF Shows

(* Whatever has been shown is the beginning of the transcript.              *)
LEMMA ShowsPrefix ==
  ASSUME Types, NEW s \in Sessions, Shows(s)
  PROVE  IsPrefix(page[s], Transcript(s))
<1>1. pos[s] \in 0 .. Len(File[s]) /\ down[s] \in Seq(Chars)
  BY TypeParts, FileFacts DEF AllTypes, ConsoleTypes
<1>2. CASE s \in shut
  BY <1>2 DEF Shows
<1>3. CASE s \notin shut /\ Asks(s)
  <2>1. Before(s) \in Seq(Shown) /\ After(s) \in Seq(Chars) /\ IsPrefix(Before(s) \o After(s), Transcript(s))
    BY <1>1, BeforeFacts
  <2> DEFINE b == Before(s)
             c == After(s)
             t == Transcript(s)
  <2>2. t \in Seq(Shown)
    BY <1>1, UptoPrefix
  <2>3. c \in Seq(Shown) /\ b \in Seq(Shown) /\ IsPrefix(b \o c, t)
    BY <2>1, Showable
  <2>4. page[s] = b
    BY <1>3 DEF Asks
  <2> HIDE DEF b, c, t
  <2>5. IsPrefix(b, b \o c) /\ b \o c \in Seq(Shown)
    BY <2>3, PrefixFacts
  <2>6. IsPrefix(b, t)
    BY <2>2, <2>3, <2>5, PrefixTransitive
  <2> QED BY <2>4, <2>6 DEF t
<1>4. CASE s \notin shut /\ \E a, r \in Seq(Chars) : Answers(s, a, r)
  <2>1. PICK a \in Seq(Chars), r \in Seq(Chars) : Answers(s, a, r)
    BY <1>4
  <2>2. page[s] = Before(s) \o a /\ a \o (down[s] \o r) = After(s)
    BY <2>1 DEF Answers
  <2>3. 0 \in 0 .. Len(down[s])
    BY <1>1
  <2>4. IsPrefix(Before(s) \o a, Transcript(s))
    BY <1>1, <2>2, <2>3, AnswerFacts
  <2> QED BY <2>2, <2>4
<1> QED BY <1>2, <1>3, <1>4 DEF Shows

(* What a console's step does to its session and to the others.             *)
Untouched(r) ==
  /\ st'[r] = st[r] /\ page'[r] = page[r] /\ pos'[r] = pos[r] /\ flg_exit'[r] = flg_exit[r]
  /\ up'[r] = up[r] /\ down'[r] = down[r] /\ (r \in shut' <=> r \in shut)

Quiet(s) ==
  /\ UNCHANGED <<pos, flg_exit, page, up, down, shut>> /\ (st[s] = "done" => st' = st)

Leaves(s) ==
  /\ UNCHANGED <<pos, flg_exit, page>> /\ st'[s] = "done" /\ s \in shut' /\ st[s] # "done"

(* A session that leaves does nothing to the others.                        *)
LEMMA LeaveEffect ==
  ASSUME AllTypes, NEW s \in Sessions, NEW rest, Console!Leave(s, rest)
  PROVE  /\ st'[s] = "done" /\ s \in shut'
         /\ \A r \in Sessions \ {s} : st'[r] = st[r] /\ up'[r] = up[r] /\ down'[r] = down[r]
                                      /\ (r \in shut' <=> r \in shut)
<1>1. /\ st' = [st EXCEPT ![s] = "done"] /\ shut' = shut \cup {s}
      /\ down' = [down EXCEPT ![s] = <<>>] /\ (up' = up \/ up' = [up EXCEPT ![s] = <<>>])
  BY DEF Console!Leave, Console!Goto
<1>2. st \in [Sessions -> Handlers] /\ up \in [Sessions -> Seq(Sent)] /\ down \in [Sessions -> Seq(Chars)]
  BY DEF AllTypes, ConsoleTypes
<1> QED BY <1>1, <1>2

(* A line is sent: the page has it, and it is on its way.                   *)
Writes(s, str, rest) ==
  /\ pos'[s] = pos[s] + 1 /\ page'[s] = (page[s] \o str) \o <<Console!Cmd(pos[s] + 1)>>
  /\ flg_exit'[s] = (flg_exit[s] \/ File[s][pos[s] + 1].op = "exit")
  /\ up'[s] = Append(up[s], [k |-> pos[s] + 1, op |-> File[s][pos[s] + 1].op,
                             says |-> File[s][pos[s] + 1].says])
  /\ down'[s] = rest /\ (s \in shut' <=> s \in shut)

Closes(s, str) ==
  /\ pos'[s] = pos[s] /\ page'[s] = page[s] \o str /\ flg_exit'[s] = flg_exit[s]
  /\ s \in shut' /\ st'[s] = "done"

Takes(s, str, rest) ==
  /\ pos'[s] = pos[s] /\ page'[s] = page[s] \o str /\ flg_exit'[s] = flg_exit[s]
  /\ up'[s] = up[s] /\ down'[s] = rest /\ (s \in shut' <=> s \in shut) /\ st'[s] = st[s]

Reads(s, m) ==
  LET str  == SubSeq(down[s], 1, m)
      rest == SubSeq(down[s], m + 1, Len(down[s]))
  IN  /\ st[s] = "read"
      /\ \/ Closes(s, str)
         \/ /\ ~flg_exit[s] /\ Console!HasPrompt(str) /\ pos[s] # Len(File[s])
            /\ Writes(s, str, rest)
         \/ ~flg_exit[s] /\ ~Console!HasPrompt(str) /\ Takes(s, str, rest)

(* A read closes the session, sends the next line, or takes text only.      *)
LEMMA ReadEffect ==
  ASSUME AllTypes, NEW s \in Sessions, Console!do_read(s)
  PROVE  /\ \E m \in 1 .. Len(down[s]) : Reads(s, m)
         /\ \A r \in Sessions \ {s} : Untouched(r)
<1>1. /\ st \in [Sessions -> Handlers] /\ up \in [Sessions -> Seq(Sent)]
      /\ down \in [Sessions -> Seq(Chars)] /\ page \in [Sessions -> Seq(Shown)]
      /\ pos \in [Sessions -> Nat] /\ flg_exit \in [Sessions -> BOOLEAN]
      /\ down[s] \in Seq(Chars)
  BY DEF AllTypes, ConsoleTypes
<1> DEFINE str(m) == SubSeq(down[s], 1, m)
           rest(m) == SubSeq(down[s], m + 1, Len(down[s]))
<1>2. PICK m \in 1 .. MaxRead :
        /\ m <= Len(down[s]) /\ st[s] = "read"
        /\ IF flg_exit[s]
           THEN /\ Console!Leave(s, rest(m)) /\ page' = [page EXCEPT ![s] = @ \o str(m)]
                /\ UNCHANGED <<pos, flg_exit>>
           ELSE IF Console!HasPrompt(str(m)) THEN Console!do_write(s, str(m), rest(m))
           ELSE /\ page' = [page EXCEPT ![s] = @ \o str(m)]
                /\ down' = [down EXCEPT ![s] = rest(m)]
                /\ UNCHANGED <<st, pos, flg_exit, up, shut>>
  BY DEF Console!do_read
<1>3. m \in 1 .. Len(down[s])
  BY <1>1, <1>2, FileFacts
<1> DEFINE x == str(m)
           y == rest(m)
<1>4. Reads(s, m) <=> /\ st[s] = "read"
                      /\ \/ Closes(s, x)
                         \/ /\ ~flg_exit[s] /\ Console!HasPrompt(x) /\ pos[s] # Len(File[s])
                            /\ Writes(s, x, y)
                         \/ ~flg_exit[s] /\ ~Console!HasPrompt(x) /\ Takes(s, x, y)
  BY DEF Reads
<1>5. /\ st[s] = "read"
      /\ IF flg_exit[s]
         THEN Console!Leave(s, y) /\ page' = [page EXCEPT ![s] = @ \o x] /\ UNCHANGED <<pos, flg_exit>>
         ELSE IF Console!HasPrompt(x) THEN Console!do_write(s, x, y)
         ELSE /\ page' = [page EXCEPT ![s] = @ \o x] /\ down' = [down EXCEPT ![s] = y]
              /\ UNCHANGED <<st, pos, flg_exit, up, shut>>
  BY <1>2
<1> HIDE DEF x, y
<1>6. ASSUME Console!Leave(s, y), page' = [page EXCEPT ![s] = @ \o x], UNCHANGED <<pos, flg_exit>>
      PROVE  Closes(s, x) /\ \A r \in Sessions \ {s} : Untouched(r)
  BY <1>1, <1>6, LeaveEffect DEF Closes, Untouched
<1>7. CASE flg_exit[s]
  BY <1>3, <1>4, <1>5, <1>6, <1>7
<1>8. CASE ~flg_exit[s] /\ Console!HasPrompt(x)
  <2>1. Console!do_write(s, x, y)
    BY <1>5, <1>8
  <2>2. CASE pos[s] = Len(File[s])
    <3>1. Console!Leave(s, y) /\ page' = [page EXCEPT ![s] = @ \o x] /\ UNCHANGED <<pos, flg_exit>>
      BY <2>1, <2>2 DEF Console!do_write
    <3> QED BY <1>3, <1>4, <1>5, <1>6, <3>1
  <2>3. CASE pos[s] # Len(File[s])
    <3> DEFINE k == pos[s] + 1
               msg == [k |-> k, op |-> File[s][k].op, says |-> File[s][k].says]
    <3>1. /\ pos' = [pos EXCEPT ![s] = k] /\ page' = [page EXCEPT ![s] = (@ \o x) \o <<Console!Cmd(k)>>]
          /\ flg_exit' = [flg_exit EXCEPT ![s] = @ \/ File[s][k].op = "exit"]
          /\ up' = [up EXCEPT ![s] = Append(@, msg)] /\ down' = [down EXCEPT ![s] = y]
          /\ st' = [st EXCEPT ![s] = "write"] /\ shut' = shut
      BY <2>1, <2>3 DEF Console!do_write, Console!Goto, Console!Sends
    <3>2. \A r \in Sessions \ {s} : Untouched(r)
      BY <1>1, <3>1 DEF Untouched
    <3>3. Writes(s, x, y)
      <4>1. /\ pos'[s] = k /\ page'[s] = (page[s] \o x) \o <<Console!Cmd(k)>>
            /\ flg_exit'[s] = (flg_exit[s] \/ File[s][k].op = "exit")
            /\ up'[s] = Append(up[s], msg) /\ down'[s] = y /\ shut' = shut
        <5> HIDE DEF k, msg
        <5> QED BY <1>1, <3>1
      <4> QED BY <4>1 DEF Writes
    <3> QED BY <1>3, <1>4, <1>5, <1>8, <2>3, <3>2, <3>3
  <2> QED BY <2>2, <2>3
<1>9. CASE ~flg_exit[s] /\ ~Console!HasPrompt(x)
  <2>1. /\ page' = [page EXCEPT ![s] = @ \o x] /\ down' = [down EXCEPT ![s] = y]
        /\ UNCHANGED <<st, pos, flg_exit, up, shut>>
    BY <1>5, <1>9
  <2>2. Takes(s, x, y) /\ \A r \in Sessions \ {s} : Untouched(r)
    BY <1>1, <2>1 DEF Takes, Untouched
  <2> QED BY <1>3, <1>4, <1>5, <1>9, <2>2
<1> QED BY <1>7, <1>8, <1>9

(* Every step of the console is a read, a close or of no concern to pages.  *)
LEMMA ConsoleEffect ==
  ASSUME AllTypes, NEW s \in Sessions, Console!Session(s) \/ Console!Proxy(s)
  PROVE  /\ \A r \in Sessions \ {s} : Untouched(r)
         /\ Quiet(s) \/ Leaves(s) \/ \E m \in 1 .. Len(down[s]) : Reads(s, m)
<1>1. st \in [Sessions -> Handlers]
  BY DEF AllTypes
<1>2. CASE Console!resolve_handler(s)
  BY <1>1, <1>2 DEF Console!resolve_handler, Console!Goto, Console!socket, Quiet, Untouched
<1>3. CASE Console!connect_handler(s)
  BY <1>1, <1>3 DEF Console!connect_handler, Console!Goto, Quiet, Untouched
<1>4. CASE Console!send_socks4a_req(s)
  BY <1>1, <1>4 DEF Console!send_socks4a_req, Console!Goto, Console!socket, Quiet, Untouched
<1>5. CASE Console!get_socks4_reply(s)
  <2>1. /\ st[s] = "reply" /\ UNCHANGED <<pos, flg_exit, page>>
        /\ \/ st' = [st EXCEPT ![s] = "read"] /\ UNCHANGED <<up, down, shut>>
           \/ Console!Leave(s, down[s])
    BY <1>5 DEF Console!get_socks4_reply, Console!Goto, Console!socket
  <2>2. CASE st' = [st EXCEPT ![s] = "read"] /\ UNCHANGED <<up, down, shut>>
    BY <1>1, <2>1, <2>2 DEF Quiet, Untouched
  <2>3. CASE Console!Leave(s, down[s])
    BY <1>1, <2>1, <2>3, LeaveEffect DEF Leaves, Untouched
  <2> QED BY <2>1, <2>2, <2>3
<1>6. CASE Console!do_read(s)
  BY <1>6, ReadEffect
<1>7. CASE Console!Sent(s)
  BY <1>1, <1>7 DEF Console!Sent, Console!Goto, Console!socket, Quiet, Untouched
<1>8. CASE Console!Ends(s)
  <2>1. /\ st[s] \in {"read", "write"} /\ UNCHANGED <<pos, flg_exit, page>> /\ Console!Leave(s, <<>>)
    BY <1>8 DEF Console!Ends
  <2> QED BY <1>1, <2>1, LeaveEffect DEF Leaves, Untouched
<1>9. CASE Console!Proxy(s)
  BY <1>1, <1>9 DEF Console!Proxy, Console!Grant, Console!Refuse, Console!socket, Quiet, Untouched
<1> QED BY <1>2, <1>3, <1>4, <1>5, <1>6, <1>7, <1>8, <1>9 DEF Console!Session

(* A session that reads what belongs to the answer and, at the end of it,   *)
(* goes on with the next line.                                              *)
LEMMA ReadShows ==
  ASSUME AllTypes, Marks, UNCHANGED server, NEW s \in Sessions, ~Deceptive(s), s \notin shut, Shows(s),
         NEW m \in 1 .. Len(down[s]), Reads(s, m)
  PROVE  Shows(s)'
<1>a. PICK d \in Seq(Chars) : d = down[s]
  BY DEF AllTypes, ConsoleTypes
<1>0. PICK x, y :
        /\ d \in Seq(Chars) /\ d = down[s]
        /\ x = SubSeq(d, 1, m) /\ y = SubSeq(d, m + 1, Len(d))
  BY <1>a
<1>1. /\ pos[s] \in 0 .. Len(File[s]) /\ pos[s] \in Nat /\ Len(File[s]) \in Nat
      /\ m \in 0 .. Len(d) /\ d # <<>> /\ down[s] # <<>>
  BY <1>0, FileFacts DEF AllTypes, ConsoleTypes
<1>2. PICK a \in Seq(Chars), r \in Seq(Chars) : Answers(s, a, r)
  <2>1. ~Asks(s)
    BY <1>1 DEF Asks
  <2> QED BY <2>1 DEF Shows
<1>3. /\ up[s] = <<>> /\ ToCome(s, r) /\ page[s] = Before(s) \o a /\ a \o (d \o r) = After(s)
  BY <1>0, <1>2 DEF Answers
<1>4. /\ IsPrefix((Before(s) \o a) \o x, Transcript(s))
      /\ (Before(s) \o a) \o x = Before(s) \o (a \o x) /\ a \o x \in Seq(Chars)
      /\ (a \o x) \o (y \o r) = After(s)
  <2>1. m \in 0 .. Len(d) /\ pos[s] \in 0 .. Len(File[s]) /\ a \o (d \o r) = After(s)
    BY <1>0, <1>1, <1>3
  <2>2. IsPrefix((Before(s) \o a) \o SubSeq(d, 1, m), Transcript(s))
    BY <2>1, AnswerFacts
  <2>3. (Before(s) \o a) \o SubSeq(d, 1, m) = Before(s) \o (a \o SubSeq(d, 1, m))
    BY <2>1, AnswerFacts
  <2>4. a \o SubSeq(d, 1, m) \in Seq(Chars)
    BY <2>1, AnswerFacts
  <2>5. (a \o x) \o (y \o r) = After(s)
    <3>1. x \in Seq(Chars) /\ y \in Seq(Chars) /\ x \o y = d
      BY <1>0, <2>1, TwoParts
    <3>2. (a \o x) \o (y \o r) = a \o ((x \o y) \o r)
      <4>1. x \in Seq(Chars) /\ y \in Seq(Chars)
        BY <3>1
      <4> QED BY <4>1
    <3> QED BY <2>1, <3>1, <3>2
  <2> QED BY <1>0, <2>2, <2>3, <2>4, <2>5
<1>5. /\ st[s] = "read"
      /\ \/ Closes(s, x)
         \/ /\ ~flg_exit[s] /\ Console!HasPrompt(x) /\ pos[s] # Len(File[s])
            /\ Writes(s, x, y)
         \/ ~flg_exit[s] /\ ~Console!HasPrompt(x) /\ Takes(s, x, y)
  BY <1>0 DEF Reads
<1>6. UNCHANGED <<at, io, left, cin_ok>>
  BY DEF server
<1>7. CASE Closes(s, x)
  <2>1. page'[s] = (Before(s) \o a) \o x /\ s \in shut'
    BY <1>3, <1>7 DEF Closes
  <2>2. IsPrefix(page'[s], Transcript(s))
    BY <1>4, <2>1
  <2>3. Transcript(s)' = Transcript(s)
    BY DEF Transcript, Answer
  <2> QED BY <2>1, <2>2, <2>3 DEF Shows
<1>8. CASE ~flg_exit[s] /\ Console!HasPrompt(x) /\ pos[s] # Len(File[s]) /\ Writes(s, x, y)
  <2> DEFINE k == pos[s] + 1
  <2>1. y = <<>> /\ r = <<>> /\ x = d
    <3>1. m \in 0 .. Len(d) /\ pos[s] \in 0 .. Len(File[s]) /\ a \o (d \o r) = After(s)
          /\ Console!HasPrompt(SubSeq(d, 1, m))
      BY <1>0, <1>1, <1>3, <1>8
    <3>2. SubSeq(d, m + 1, Len(d)) = <<>> /\ r = <<>> /\ SubSeq(d, 1, m) = d
      BY <3>1, PromptEnds
    <3> QED BY <1>0, <3>2
  <2>2. page[s] \o x = Upto(s, pos[s])
    <3>1. a \o x = After(s)
      <4>1. d \o r = d
        BY <1>1, <2>1
      <4> QED BY <1>3, <2>1, <4>1
    <3>2. page[s] \o x = Before(s) \o After(s)
      BY <1>3, <1>4, <3>1
    <3> QED BY <1>1, <3>2, BeforeFacts
  <2>3. /\ pos'[s] = k /\ page'[s] = (page[s] \o x) \o <<Console!Cmd(k)>> /\ down'[s] = <<>>
        /\ up'[s] = Append(up[s], [k |-> k, op |-> File[s][k].op, says |-> File[s][k].says])
        /\ s \notin shut'
    BY <1>8, <2>1 DEF Writes
  <2>4. k # 0 /\ k > 0 /\ k - 1 = pos[s]
    BY <1>1
  <2> HIDE DEF k
  <2>5. page'[s] = Upto(s, k - 1) \o <<Console!Cmd(k)>>
    BY <2>2, <2>3, <2>4
  <2>6. page'[s] = Before(s)'
    <3>1. Upto(s, pos[s] - 1)' = Upto(s, pos'[s] - 1)
      BY DEF Upto, Parts, Answer
    <3> QED BY <2>3, <2>4, <2>5, <3>1 DEF Before
  <2>7. up'[s] = <<SentLine(s)'>>
    BY <1>3, <2>3 DEF SentLine
  <2>8. PICK p \in Processes : io[p] = s /\ at[p] = "read"
    <3>1. r # Prompt /\ \A p \in Processes : r # left[p] \o Prompt
      <4>1. Len(Prompt) = 2 /\ Len(r) = 0 /\ Prompt \in Seq(Chars)
        BY <2>1, FileFacts DEF Prompt
      <4>2. \A p \in Processes : left[p] \in Seq(Chars)
        BY DEF AllTypes
      <4> DEFINE z == Prompt
      <4>3. Len(z) = 2 /\ z \in Seq(Chars)
        BY <4>1
      <4> HIDE DEF z
      <4>4. \A p \in Processes : Len(left[p] \o z) = Len(left[p]) + 2 /\ Len(left[p]) \in Nat
        <5> TAKE p \in Processes
        <5>1. left[p] \in Seq(Chars)
          BY <4>2
        <5>2. Len(left[p] \o z) = Len(left[p]) + Len(z)
          BY <4>3, <5>1, Concat, Zenon
        <5> QED BY <4>3, <5>1, <5>2
      <4>5. \A p \in Processes : r # left[p] \o z
        <5> TAKE p \in Processes
        <5> DEFINE u == left[p] \o z
        <5>1. Len(u) = Len(left[p]) + 2 /\ Len(left[p]) \in Nat /\ Len(r) = 0
          BY <4>1, <4>4
        <5> HIDE DEF u
        <5>2. r # u
          BY <5>1
        <5> QED BY <5>2 DEF u
      <4>6. r # z
        BY <4>1, <4>3
      <4> QED BY <4>5, <4>6 DEF z
    <3> QED BY <1>3, <1>8, <3>1 DEF ToCome
  <2> QED BY <1>6, <2>3, <2>4, <2>6, <2>7, <2>8 DEF Shows, Asks
<1>9. CASE ~flg_exit[s] /\ ~Console!HasPrompt(x) /\ Takes(s, x, y)
  <2>1. /\ page'[s] = page[s] \o x /\ down'[s] = y /\ up'[s] = up[s] /\ pos'[s] = pos[s]
        /\ flg_exit'[s] = flg_exit[s] /\ s \notin shut'
    BY <1>9 DEF Takes
  <2>2. Before(s)' = Before(s) /\ After(s)' = After(s)
    BY <2>1 DEF Before, After
  <2>3. ToCome(s, r)'
    BY <1>3, <1>6, <2>1 DEF ToCome
  <2>4. PICK b \in Seq(Chars) : b = a \o x
    BY <1>4
  <2>6. page'[s] = Before(s)' \o b /\ b \o (down'[s] \o r) = After(s)'
    BY <1>3, <1>4, <2>1, <2>2, <2>4
  <2>5. Answers(s, b, r)'
    BY <1>3, <2>1, <2>3, <2>6 DEF Answers
  <2> QED BY <2>1, <2>5 DEF Shows
<1> QED BY <1>5, <1>7, <1>8, <1>9

(* The steps of the console keep every page.                                *)
LEMMA ConsolePages ==
  ASSUME PageInv, NEW s \in Sessions,
         Console!Session(s) \/ Console!Proxy(s), UNCHANGED server
  PROVE  PageInv'
<1>1. RemoteInv /\ RemoteInv' /\ AllTypes /\ Types /\ Speaks /\ Marks
  BY ConsoleKeeps, TypeParts DEF PageInv, RemoteInv
<1>2. UNCHANGED <<at, new_sock_fd, io, holds, cin_ok, left, failures>>
  BY DEF server
<1>3. /\ \A r \in Sessions \ {s} : Untouched(r)
      /\ Quiet(s) \/ Leaves(s) \/ \E m \in 1 .. Len(down[s]) : Reads(s, m)
  BY <1>1, ConsoleEffect
<1>4. Speaks'
  BY <1>1, <1>2 DEF Speaks
<1>5. \A r \in Sessions : Served(r)' <=> Served(r)
  BY <1>2 DEF Served, Mute
<1>6. \A r \in Sessions : Deceptive(r)' <=> Deceptive(r)
  BY DEF Deceptive, Console!HasPrompt
<1>7. pos[s] \in Nat /\ flg_exit[s] \in BOOLEAN
  BY <1>1 DEF AllTypes, ConsoleTypes
<1>8. Marks'
  <2>1. ASSUME NEW r \in Sessions \ {s}
        PROVE  /\ flg_exit'[r] <=> pos'[r] > 0 /\ File[r][pos'[r]].op = "exit"
               /\ r \in shut' => st'[r] = "done"
    BY <1>1, <1>3, <2>1 DEF Marks, Untouched
  <2>2. /\ flg_exit[s] <=> pos[s] > 0 /\ File[s][pos[s]].op = "exit"
        /\ s \in shut => st[s] = "done"
    BY <1>1 DEF Marks
  <2>3. /\ flg_exit'[s] <=> pos'[s] > 0 /\ File[s][pos'[s]].op = "exit"
        /\ s \in shut' => st'[s] = "done"
    <3>1. CASE Quiet(s)
      BY <2>2, <3>1 DEF Quiet
    <3>2. CASE Leaves(s)
      BY <2>2, <3>2 DEF Leaves
    <3>3. CASE \E m \in 1 .. Len(down[s]) : Reads(s, m)
      <4>1. PICK m \in 1 .. Len(down[s]) : Reads(s, m)
        BY <3>3
      <4>2. s \notin shut
        BY <2>2, <4>1 DEF Reads
      <4>3. CASE \E x : Closes(s, x)
        BY <2>2, <4>3 DEF Closes
      <4>4. CASE \E x, y : Takes(s, x, y)
        BY <2>2, <4>2, <4>4 DEF Takes
      <4>5. CASE ~flg_exit[s] /\ \E x, y : Writes(s, x, y)
        <5>1. pos'[s] = pos[s] + 1 /\ flg_exit'[s] = (flg_exit[s] \/ File[s][pos[s] + 1].op = "exit")
              /\ s \notin shut'
          BY <4>2, <4>5 DEF Writes
        <5>2. pos'[s] > 0
          BY <1>7, <5>1
        <5> QED BY <4>5, <5>1, <5>2
      <4> QED BY <4>1, <4>3, <4>4, <4>5 DEF Reads
    <3> QED BY <1>3, <3>1, <3>2, <3>3
  <2> QED BY <2>1, <2>3 DEF Marks
<1>9. ASSUME NEW r \in Sessions, ~Deceptive(r)', Served(r)'
      PROVE  Shows(r)'
  <2>1. ~Deceptive(r) /\ Shows(r)
    BY <1>5, <1>6, <1>9 DEF PageInv
  <2>2. CASE r # s
    <3>1. Untouched(r)
      BY <1>3, <2>2
    <3> QED BY <1>2, <2>1, <3>1, StillShows DEF Untouched
  <2>3. CASE r = s /\ Quiet(s)
    BY <1>2, <2>1, <2>3, StillShows DEF Quiet
  <2>4. CASE r = s /\ Leaves(s)
    <3>1. page'[s] = page[s] /\ s \in shut'
      BY <2>4 DEF Leaves
    <3>2. IsPrefix(page[s], Transcript(s))
      BY <1>1, <2>1, <2>4, ShowsPrefix
    <3>3. IsPrefix(page'[s], Transcript(s)')
      <4>1. Transcript(s)' = Transcript(s)
        BY DEF Transcript, Answer
      <4> QED BY <3>1, <3>2, <4>1
    <3> QED BY <2>4, <3>1, <3>3 DEF Shows
  <2>5. CASE r = s /\ \E m \in 1 .. Len(down[s]) : Reads(s, m)
    <3>1. PICK m \in 1 .. Len(down[s]) : Reads(s, m)
      BY <2>5
    <3>2. s \notin shut
      <4>1. st[s] = "read"
        BY <3>1 DEF Reads
      <4> QED BY <1>1, <4>1 DEF Marks
    <3>3. Shows(s)'
      BY <1>1, <2>1, <2>5, <3>1, <3>2, ReadShows
    <3> QED BY <2>5, <3>3
  <2> QED BY <1>3, <2>2, <2>3, <2>4, <2>5
<1> QED BY <1>1, <1>4, <1>8, <1>9 DEF PageInv

-----------------------------------------------------------------------------
(* The server's steps and the pages.                                        *)

(* What a step of a process does to what the pages depend on.               *)
LEMMA SpeaksKept ==
  ASSUME RemoteInv, Speaks, NEW p \in Processes, Acts(p)
  PROVE  Speaks'
<1>1. /\ at \in [Processes -> {"none", "accept", "fork", "prompt", "read", "run", "gone"}]
      /\ new_sock_fd \in [Processes -> Sessions \cup {NoClient}]
      /\ io \in [Processes -> Sessions \cup {NoClient}]
      /\ cin_ok \in [Processes -> BOOLEAN] /\ left \in [Processes -> Seq(Chars)]
      /\ backlog \in Seq(Sessions) /\ Queue /\ HeldOnce
  BY TypeParts DEF RemoteInv, AllTypes, Server!TypeOK
<1>2. NoClient \notin Sessions
  BY RemoteShellAssumption DEF Server!ConstantsOK
<1>3. CASE Server!Accept(p)
  <2>1. /\ at[p] = "accept" /\ backlog # <<>> /\ at' = [at EXCEPT ![p] = "fork"]
        /\ new_sock_fd' = [new_sock_fd EXCEPT ![p] = Head(backlog)]
        /\ UNCHANGED <<io, cin_ok, left>>
    BY <1>3 DEF Server!Accept, Server!Goto, Server!Newcomer
  <2>2. Len(backlog) \in Nat /\ 1 \in 1 .. Len(backlog) /\ Head(backlog) = backlog[1]
    BY <1>1, <2>1
  <2>3. \A q \in Processes : io[q] # Head(backlog)
    BY <1>1, <2>2 DEF Queue
  <2> QED BY <1>1, <2>1, <2>3 DEF Speaks
<1>4. CASE Server!Fork(p)
  <2>1. PICK q \in Processes : q = Server!Min(Server!Unborn) /\ at[q] = "none"
    BY <1>4, UnbornFacts DEF Server!Fork
  <2>2. /\ at[p] = "fork"
        /\ at' = [at EXCEPT ![p] = "accept", ![q] = "prompt"]
        /\ io' = [io EXCEPT ![q] = new_sock_fd[p]]
        /\ new_sock_fd' = [new_sock_fd EXCEPT ![q] = new_sock_fd[p]]
        /\ cin_ok' = [cin_ok EXCEPT ![q] = cin_ok[p]]
        /\ left' = [left EXCEPT ![q] = left[p]]
    BY <1>4, <2>1 DEF Server!Fork
  <2>3. \A o \in Processes \ {p} : at[o] = "fork" => new_sock_fd[o] # new_sock_fd[p]
    BY <1>1, <2>2 DEF HeldOnce
  <2> QED BY <1>1, <2>1, <2>2, <2>3 DEF Speaks
<1>5. CASE Server!ForkFails(p)
  <2>1. /\ at[p] = "fork" /\ at' = [at EXCEPT ![p] = "accept"] /\ left' = [left EXCEPT ![p] = <<>>]
        /\ UNCHANGED <<io, cin_ok, new_sock_fd>>
    BY <1>5 DEF Server!ForkFails, Server!Goto
  <2> QED BY <1>1, <2>1 DEF Speaks
<1>6. CASE Server!PrintPrompt(p)
  <2>1. /\ at[p] = "prompt" /\ UNCHANGED <<io, cin_ok, new_sock_fd>>
        /\ \/ cin_ok[p] /\ at' = [at EXCEPT ![p] = "read"] /\ left' = left
           \/ cin_ok[p] /\ at' = [at EXCEPT ![p] = "gone"] /\ left' = left
           \/ /\ ~cin_ok[p] /\ at' = [at EXCEPT ![p] = "accept"]
              /\ \A q \in Processes \ {p} : left'[q] = left[q]
    BY <1>1, <1>6 DEF Server!PrintPrompt, Server!Goto, Server!Gone
  <2> QED BY <1>1, <2>1 DEF Speaks
<1>7. CASE Server!ReadLine(p)
  <2>1. /\ at[p] = "read" /\ UNCHANGED <<io, cin_ok, new_sock_fd>>
        /\ at' = [at EXCEPT ![p] = "run"] \/ at' = [at EXCEPT ![p] = "gone"]
        /\ \A q \in Processes \ {p} : left'[q] = left[q]
    BY <1>1, <1>7 DEF Server!ReadLine, Server!Goto, Server!Gone
  <2> QED BY <1>1, <2>1 DEF Speaks
<1>8. CASE Server!EndOfInput(p)
  <2>1. /\ at[p] = "read" /\ UNCHANGED <<io, left, new_sock_fd>>
        /\ at' = [at EXCEPT ![p] = "accept"] /\ cin_ok' = [cin_ok EXCEPT ![p] = FALSE]
    BY <1>8 DEF Server!EndOfInput, Server!Goto
  <2> QED BY <1>1, <2>1 DEF Speaks
<1>9. CASE Server!Output(p)
  <2>1. /\ at[p] = "run" /\ UNCHANGED <<at, io, cin_ok, new_sock_fd>>
        /\ \A q \in Processes \ {p} : left'[q] = left[q]
    BY <1>1, <1>9 DEF Server!Output
  <2> QED BY <1>1, <2>1 DEF Speaks
<1>10. CASE Server!Wait(p)
  <2>1. /\ at[p] = "run" /\ left[p] = <<>> /\ UNCHANGED <<io, cin_ok, left, new_sock_fd>>
        /\ at' = [at EXCEPT ![p] = "prompt"]
    BY <1>10 DEF Server!Wait, Server!Goto, Server!LineDone
  <2> QED BY <1>1, <2>1 DEF Speaks
<1>11. CASE Server!JobsEnd(p)
  BY <1>1, <1>11 DEF Server!JobsEnd, Speaks
<1> QED BY <1>3, <1>4, <1>5, <1>6, <1>7, <1>8, <1>9, <1>10, <1>11 DEF Server!Process, Acts

(* A process touches the sockets of its own client only.                    *)
LEMMA ProcessOwn ==
  ASSUME RemoteInv, Speaks, NEW p \in Processes, Acts(p)
  PROVE  /\ shut' = shut
         /\ \A s \in Sessions : s # io[p] => up'[s] = up[s] /\ down'[s] = down[s]
         /\ \A q \in Processes : io[q] # NoClient => io'[q] = io[q]
         /\ \A q \in Processes : io[q] # NoClient /\ ~cin_ok[q] => ~cin_ok'[q]
         /\ \A q \in Processes \ {p} : io[q] # NoClient => /\ at'[q] = at[q] /\ left'[q] = left[q]
                                                            /\ cin_ok'[q] = cin_ok[q]
         /\ failures' = 0 => failures = 0
         /\ ~Server!Fork(p) => io' = io
<1>1. /\ at \in [Processes -> {"none", "accept", "fork", "prompt", "read", "run", "gone"}]
      /\ io \in [Processes -> Sessions \cup {NoClient}]
      /\ cin_ok \in [Processes -> BOOLEAN] /\ left \in [Processes -> Seq(Chars)]
      /\ up \in [Sessions -> Seq(Sent)] /\ down \in [Sessions -> Seq(Chars)]
      /\ failures \in Nat
  <2>1. AllTypes
    BY TypeParts DEF RemoteInv
  <2>2. ForkFailures \in Nat
    BY RemoteShellAssumption DEF Server!ConstantsOK
  <2> QED BY <2>1, <2>2 DEF AllTypes, ConsoleTypes, Server!TypeOK
<1>2. \A text : \A s \in Sessions : s # io[p] => Server!Says(p, text)[s] = down[s]
  BY <1>1 DEF Server!Says
<1>3. CASE Server!Accept(p)
  BY <1>1, <1>3 DEF Server!Accept, Server!Goto
<1>4. CASE Server!Fork(p)
  <2>1. PICK q \in Processes : q = Server!Min(Server!Unborn) /\ at[q] = "none"
    BY <1>4, UnbornFacts DEF Server!Fork
  <2>2. /\ at' = [at EXCEPT ![p] = "accept", ![q] = "prompt"]
        /\ io' = [io EXCEPT ![q] = new_sock_fd[p]] /\ cin_ok' = [cin_ok EXCEPT ![q] = cin_ok[p]]
        /\ left' = [left EXCEPT ![q] = left[p]] /\ UNCHANGED <<up, down, shut, failures>>
    BY <1>4, <2>1 DEF Server!Fork
  <2>3. io[q] = NoClient
    BY <2>1 DEF Speaks
  <2> QED BY <1>1, <1>4, <2>1, <2>2, <2>3
<1>5. CASE Server!ForkFails(p)
  <2>1. /\ at' = [at EXCEPT ![p] = "accept"] /\ left' = [left EXCEPT ![p] = <<>>]
        /\ UNCHANGED <<io, cin_ok, up, shut>> /\ down' \in {down, Server!Says(p, left[p])}
        /\ failures' = failures + 1
    BY <1>5 DEF Server!ForkFails, Server!Goto
  <2> QED BY <1>1, <1>2, <2>1
<1>6. CASE Server!PrintPrompt(p)
  <2>1. /\ UNCHANGED <<io, cin_ok, up, shut, failures>> /\ \A q \in Processes \ {p} : left'[q] = left[q]
        /\ \E l : at' = [at EXCEPT ![p] = l]
        /\ down' \in {down, Server!Says(p, Prompt)}
    BY <1>1, <1>6 DEF Server!PrintPrompt, Server!Goto, Server!Gone
  <2> QED BY <1>1, <1>2, <2>1
<1>7. CASE Server!ReadLine(p)
  <2>1. /\ UNCHANGED <<io, cin_ok, down, shut, failures>> /\ \A q \in Processes \ {p} : left'[q] = left[q]
        /\ \E l : at' = [at EXCEPT ![p] = l]
        /\ up' = [up EXCEPT ![io[p]] = Tail(@)]
    BY <1>1, <1>7 DEF Server!ReadLine, Server!Goto, Server!Gone
  <2> QED BY <1>1, <2>1
<1>8. CASE Server!EndOfInput(p)
  BY <1>1, <1>8 DEF Server!EndOfInput, Server!Goto
<1>9. CASE Server!Output(p)
  <2>1. /\ UNCHANGED <<at, io, cin_ok, up, shut, failures>> /\ \A q \in Processes \ {p} : left'[q] = left[q]
        /\ \E text : down' \in {down, Server!Says(p, text)}
    BY <1>1, <1>9 DEF Server!Output
  <2> QED BY <1>1, <1>2, <2>1
<1>10. CASE Server!Wait(p)
  BY <1>1, <1>10 DEF Server!Wait, Server!Goto
<1>11. CASE Server!JobsEnd(p)
  BY <1>1, <1>11 DEF Server!JobsEnd
<1> QED BY <1>3, <1>4, <1>5, <1>6, <1>7, <1>8, <1>9, <1>10, <1>11 DEF Server!Process, Acts

(* What a client's process has still to write is known.                     *)
LEMMA ServedBy ==
  ASSUME Speaks, NEW p \in Processes, io[p] \in Sessions, NEW r, ToCome(io[p], r)
  PROVE  /\ at[p] = "prompt" => r = Prompt
         /\ at[p] = "run" => r = left[p] \o Prompt
<1>1. \A q \in Processes \ {p} : io[q] # io[p]
  BY RemoteShellAssumption DEF Speaks, Server!ConstantsOK
<1> QED BY <1>1 DEF ToCome

(* A line that is on its way finds its process at getline().                *)
LEMMA AskedOf ==
  ASSUME Speaks, NEW p \in Processes, io[p] \in Sessions, Asks(io[p])
  PROVE  at[p] = "read"
<1>1. \A q \in Processes \ {p} : io[q] # io[p]
  BY RemoteShellAssumption DEF Speaks, Server!ConstantsOK
<1> QED BY <1>1 DEF Asks

(* A step of the process that serves the client.                            *)
LEMMA ServedShows ==
  ASSUME RemoteInv, Speaks, Marks, UNCHANGED console, NEW p \in Processes,
         Acts(p), NEW s \in Sessions, io[p] = s, cin_ok[p],
         s \notin shut, Shows(s)
  PROVE  Shows(s)'
<1>1. /\ at \in [Processes -> {"none", "accept", "fork", "prompt", "read", "run", "gone"}]
      /\ left \in [Processes -> Seq(Chars)]
      /\ up \in [Sessions -> Seq(Sent)] /\ down \in [Sessions -> Seq(Chars)]
      /\ page[s] \in Seq(Shown) /\ pos[s] \in 0 .. Len(File[s]) /\ pos[s] \in Nat
      /\ left[p] \in Seq(Chars) /\ down[s] \in Seq(Chars) /\ Prompt \in Seq(Chars)
  BY TypeParts, FileFacts DEF RemoteInv, AllTypes, ConsoleTypes, Server!TypeOK
<1>2. io[p] # NoClient
  BY RemoteShellAssumption DEF Server!ConstantsOK
<1>3. at[p] \notin {"accept", "fork"}
  BY <1>2 DEF Speaks
<1>4. UNCHANGED <<pos, flg_exit, page>>
  BY DEF console
<1>5. io'[p] = s /\ shut' = shut
  BY <1>2, ProcessOwn
<1>6. Before(s)' = Before(s) /\ After(s)' = After(s)
  BY <1>4 DEF Before, After
<1>7. ASSUME NEW a \in Seq(Chars), NEW r \in Seq(Chars),
             up'[s] = <<>>, ToCome(s, r)', page[s] = Before(s) \o a, a \o (down'[s] \o r) = After(s)
      PROVE  Shows(s)'
  <2>1. Answers(s, a, r)'
    BY <1>4, <1>6, <1>7 DEF Answers
  <2> QED BY <1>5, <2>1 DEF Shows
<1>8. ASSUME at[p] # "read"
      PROVE  \E a, r \in Seq(Chars) : Answers(s, a, r)
  BY <1>8, AskedOf DEF Shows
<1>9. CASE Server!PrintPrompt(p)
  <2>1. /\ at[p] = "prompt" /\ up' = up /\ at' = [at EXCEPT ![p] = "read"]
        /\ down' = [down EXCEPT ![s] = @ \o Prompt]
    BY <1>9 DEF Server!PrintPrompt, Server!Goto, Server!Says
  <2>2. PICK a \in Seq(Chars), r \in Seq(Chars) : Answers(s, a, r)
    BY <1>8, <2>1
  <2>3. up[s] = <<>> /\ page[s] = Before(s) \o a /\ r = Prompt /\ a \o (down[s] \o Prompt) = After(s)
    BY <2>1, <2>2, ServedBy DEF Answers
  <2>4. down'[s] = down[s] \o Prompt /\ at'[p] = "read"
    BY <1>1, <2>1
  <2> DEFINE t == Prompt
  <2>5. t \in Seq(Chars) /\ down'[s] = down[s] \o t /\ a \o (down[s] \o t) = After(s)
    BY <1>1, <2>3, <2>4
  <2> HIDE DEF t
  <2>6. a \o (down'[s] \o <<>>) = After(s)
    <3>1. down[s] \o t \in Seq(Chars)
      BY <1>1, <2>5
    <3> DEFINE u == down[s] \o t
    <3>2. u \in Seq(Chars)
      BY <3>1
    <3> HIDE DEF u
    <3>3. u \o <<>> = u
      BY <3>2
    <3> QED BY <2>5, <3>3 DEF u
  <2>7. ToCome(s, <<>>)'
    BY <1>5, <2>4 DEF ToCome
  <2>8. <<>> \in Seq(Chars) /\ up'[s] = <<>>
    BY <2>1, <2>3
  <2> QED BY <1>7, <2>3, <2>6, <2>7, <2>8
<1>10. CASE Server!ReadLine(p)
  <2>1. /\ at[p] = "read" /\ up[s] # <<>> /\ down' = down
        /\ up' = [up EXCEPT ![s] = Tail(@)]
        /\ left' = [left EXCEPT ![p] = Head(up[s]).says]
        /\ IF Head(up[s]).op = "exit" THEN at' = [at EXCEPT ![p] = "gone"]
           ELSE at' = [at EXCEPT ![p] = "run"]
    BY <1>10 DEF Server!ReadLine, Server!Goto, Server!Gone
  <2>2. Asks(s)
    BY <2>1 DEF Shows, Answers
  <2>3. /\ pos[s] > 0 /\ up[s] = <<SentLine(s)>> /\ down[s] = <<>> /\ page[s] = Before(s)
    BY <2>2 DEF Asks
  <2> DEFINE l == File[s][pos[s]]
  <2>4. Head(up[s]) = SentLine(s) /\ Tail(up[s]) = <<>>
    <3> DEFINE x == SentLine(s)
    <3>1. up[s] = <<x>>
      BY <2>3
    <3> HIDE DEF x
    <3> QED BY <3>1 DEF x
  <2>5. SentLine(s).op = l.op /\ SentLine(s).says = l.says
    BY DEF SentLine
  <2>6. pos[s] \in 1 .. Len(File[s]) /\ l.says \in Seq(Chars) /\ l.op \in {"run", "later", "exit"}
    <3>1. pos[s] \in 1 .. Len(File[s])
      BY <1>1, <2>3, FileFacts
    <3> QED BY <3>1, FileFacts
  <2>7. After(s) = Answer(l) /\ pos[s] # 0
    BY <1>1, <2>3 DEF After
  <2> HIDE DEF l
  <2>8. up'[s] = <<>> /\ down'[s] = <<>> /\ left'[p] = l.says
    BY <1>1, <2>1, <2>3, <2>4, <2>5
  <2>9. PICK b \in Seq(Shown) : b = Before(s)
    BY <1>1, BeforeFacts
  <2>10. <<>> \in Seq(Chars) /\ page[s] = Before(s) \o <<>>
    BY <2>3, <2>9
  <2>11. CASE l.op = "exit"
    <3>1. at'[p] = "gone"
      BY <1>1, <2>1, <2>4, <2>5, <2>11
    <3>2. flg_exit'[s]
      BY <1>4, <2>3, <2>11 DEF Marks, l
    <3>3. ToCome(s, <<>>)'
      BY <1>5, <3>1, <3>2 DEF ToCome
    <3>4. <<>> \o (down'[s] \o <<>>) = After(s)
      BY <2>7, <2>8, <2>11 DEF Answer
    <3> QED BY <1>7, <2>8, <2>10, <3>3, <3>4
  <2>12. CASE l.op # "exit"
    <3>1. at'[p] = "run"
      BY <1>1, <2>1, <2>4, <2>5, <2>12
    <3>2. PICK r \in Seq(Chars) : r = l.says \o Prompt
      <4>1. l.says \o Prompt \in Seq(Chars)
        BY <1>1, <2>6
      <4> QED BY <4>1
    <3>3. ToCome(s, r)'
      <4>1. r = left'[p] \o Prompt
        BY <2>8, <3>2
      <4>2. Prompt' = Prompt
        BY DEF Prompt
      <4> QED BY <1>5, <3>1, <4>1, <4>2 DEF ToCome
    <3>4. <<>> \o (down'[s] \o r) = After(s)
      <4>1. After(s) = r
        BY <2>7, <2>12, <3>2 DEF Answer
      <4>2. <<>> \o (<<>> \o r) = r
        OBVIOUS
      <4> QED BY <2>8, <4>1, <4>2
    <3> QED BY <1>7, <2>8, <2>10, <3>3, <3>4
  <2> QED BY <2>11, <2>12
<1>11. CASE Server!EndOfInput(p)
  BY <1>11 DEF Server!EndOfInput
<1>12. CASE Server!Output(p)
  <2>1. /\ at[p] = "run" /\ left[p] # <<>> /\ UNCHANGED <<at, up>>
        /\ left' = [left EXCEPT ![p] = Tail(@)] /\ down' = [down EXCEPT ![s] = @ \o <<Head(left[p])>>]
    BY <1>12 DEF Server!Output, Server!Says
  <2>2. PICK a \in Seq(Chars), r \in Seq(Chars) : Answers(s, a, r)
    BY <1>8, <2>1
  <2>3. /\ up[s] = <<>> /\ page[s] = Before(s) \o a /\ r = left[p] \o Prompt
        /\ a \o (down[s] \o r) = After(s)
    BY <2>1, <2>2, ServedBy DEF Answers
  <2>4. /\ Tail(left[p]) \in Seq(Chars) /\ <<Head(left[p])>> \in Seq(Chars)
        /\ left[p] = <<Head(left[p])>> \o Tail(left[p])
    BY <1>1, <2>1
  <2>5. PICK t \in Seq(Chars), w \in Seq(Chars), z \in Seq(Chars) :
          t = <<Head(left[p])>> /\ w = Tail(left[p]) /\ z = Prompt
    BY <1>1, <2>4
  <2>6. PICK v \in Seq(Chars) : v = w \o z
    <3>1. w \o z \in Seq(Chars)
      OBVIOUS
    <3> QED BY <3>1
  <2>7. at'[p] = "run" /\ left'[p] = w /\ down'[s] = down[s] \o t /\ up'[s] = <<>>
    BY <1>1, <2>1, <2>3, <2>5
  <2>8. r = t \o v
    <3>1. r = (t \o w) \o z
      BY <2>3, <2>4, <2>5
    <3>2. (t \o w) \o z = t \o (w \o z)
      BY Joined, Zenon
    <3> QED BY <2>6, <3>1, <3>2
  <2>9. a \o ((down[s] \o t) \o v) = a \o (down[s] \o (t \o v))
    <3>1. PICK e \in Seq(Chars) : e = down[s]
      BY <1>1
    <3>2. (e \o t) \o v = e \o (t \o v)
      OBVIOUS
    <3> QED BY <3>1, <3>2
  <2>10. a \o (down'[s] \o v) = After(s)
    BY <2>3, <2>7, <2>8, <2>9
  <2>11. ToCome(s, v)'
    <3>1. v = left'[p] \o Prompt /\ Prompt' = Prompt
      BY <2>5, <2>6, <2>7 DEF Prompt
    <3> QED BY <1>5, <2>7, <3>1 DEF ToCome
  <2> QED BY <1>7, <2>3, <2>7, <2>10, <2>11
<1>13. CASE Server!Wait(p)
  <2>1. /\ at[p] = "run" /\ left[p] = <<>> /\ at' = [at EXCEPT ![p] = "prompt"] /\ UNCHANGED <<up, down>>
    BY <1>13 DEF Server!Wait, Server!Goto, Server!LineDone
  <2>2. PICK a \in Seq(Chars), r \in Seq(Chars) : Answers(s, a, r)
    BY <1>8, <2>1
  <2>3. /\ up[s] = <<>> /\ page[s] = Before(s) \o a /\ r = left[p] \o Prompt
        /\ a \o (down[s] \o r) = After(s)
    BY <2>1, <2>2, ServedBy DEF Answers
  <2>4. r = Prompt
    <3>1. <<>> \o Prompt = Prompt
      BY <1>1
    <3> QED BY <2>1, <2>3, <3>1
  <2>5. ToCome(s, r)'
    <3>1. at'[p] = "prompt" /\ Prompt' = Prompt
      BY <1>1, <2>1 DEF Prompt
    <3> QED BY <1>5, <2>4, <3>1 DEF ToCome
  <2> QED BY <1>7, <2>1, <2>3, <2>5
<1>14. ~Server!Accept(p) /\ ~Server!Fork(p) /\ ~Server!ForkFails(p)
  BY <1>3 DEF Server!Accept, Server!Fork, Server!ForkFails
<1>15. CASE Server!JobsEnd(p)
  <2>1. UNCHANGED <<at, io, cin_ok, left, up, down>>
    BY <1>15 DEF Server!JobsEnd
  <2> QED BY <1>4, <1>5, <2>1, StillShows
<1> QED BY <1>9, <1>10, <1>11, <1>12, <1>13, <1>14, <1>15 DEF Server!Process, Acts

(* A process with a failed cin keeps its prompt to itself, as long as fork() *)
(* does not fail.                                                           *)
LEMMA MuteShows ==
  ASSUME RemoteInv, Speaks, UNCHANGED console, NEW p \in Processes,
         Acts(p), failures' = 0,
         NEW s \in Sessions, io[p] = s, ~cin_ok[p], s \notin shut, Shows(s)
  PROVE  Shows(s)'
<1>1. /\ at \in [Processes -> {"none", "accept", "fork", "prompt", "read", "run", "gone"}]
      /\ io[p] # NoClient
  BY TypeParts, RemoteShellAssumption DEF RemoteInv, AllTypes, Server!TypeOK, Server!ConstantsOK
<1>2. at[p] \in {"accept", "fork", "prompt"}
  BY DEF Speaks
<1>10. ~Server!ForkFails(p)
  <2>1. failures \in Nat /\ failures + 1 # 0
    BY TypeParts, RemoteShellAssumption DEF RemoteInv, AllTypes, Server!TypeOK, Server!ConstantsOK
  <2> QED BY <2>1 DEF Server!ForkFails
<1>3. /\ io'[p] = s /\ ~cin_ok'[p] /\ shut' = shut
      /\ UNCHANGED <<pos, flg_exit, page>>
  BY <1>1, ProcessOwn DEF console
<1>11. CASE Server!JobsEnd(p)
  <2>1. UNCHANGED <<at, io, cin_ok, left, up, down>>
    BY <1>11 DEF Server!JobsEnd
  <2> QED BY <1>3, <2>1, StillShows
<1>12. SUFFICES ASSUME ~Server!JobsEnd(p) PROVE Shows(s)'
  BY <1>11
<1>4. at'[p] \in {"accept", "fork"} /\ up' = up /\ down' = down
  <2>1. CASE Server!Accept(p)
    BY <1>1, <2>1 DEF Server!Accept, Server!Goto
  <2>2. CASE Server!Fork(p)
    <3>1. PICK q \in Processes : q = Server!Min(Server!Unborn) /\ at[q] = "none"
      BY <2>2, UnbornFacts DEF Server!Fork
    <3>2. at' = [at EXCEPT ![p] = "accept", ![q] = "prompt"] /\ UNCHANGED <<up, down>>
      BY <2>2, <3>1 DEF Server!Fork
    <3> QED BY <1>1, <1>2, <3>1, <3>2
  <2>3. CASE Server!PrintPrompt(p)
    BY <1>1, <2>3 DEF Server!PrintPrompt, Server!Goto
  <2>4. ~Server!ReadLine(p) /\ ~Server!EndOfInput(p) /\ ~Server!Output(p) /\ ~Server!Wait(p)
    BY <1>2 DEF Server!ReadLine, Server!EndOfInput, Server!Output, Server!Wait
  <2> QED BY <1>10, <1>12, <2>1, <2>2, <2>3, <2>4 DEF Server!Process, Acts
<1>5. PICK a \in Seq(Chars), r \in Seq(Chars) : Answers(s, a, r)
  <2>1. ~Asks(s)
    BY <1>2, AskedOf
  <2> QED BY <2>1 DEF Shows
<1>6. r = Prompt
  <2>1. \A q \in Processes \ {p} : io[q] # io[p]
    BY <1>1 DEF Speaks
  <2> QED BY <1>2, <1>5, <2>1 DEF Answers, ToCome
<1>7. ToCome(s, r)'
  <2>1. Prompt' = Prompt
    BY DEF Prompt
  <2> QED BY <1>3, <1>4, <1>6, <2>1 DEF ToCome
<1>8. Before(s)' = Before(s) /\ After(s)' = After(s)
  BY <1>3 DEF Before, After
<1>9. Answers(s, a, r)'
  BY <1>3, <1>4, <1>5, <1>7, <1>8 DEF Answers
<1> QED BY <1>3, <1>9 DEF Shows

(* The steps of the processes keep every page.                              *)
LEMMA ServerPages ==
  ASSUME PageInv, NEW p \in Processes,
         Acts(p), UNCHANGED console
  PROVE  PageInv'
<1>1. /\ RemoteInv /\ RemoteInv' /\ Speaks /\ Speaks' /\ Marks
      /\ at \in [Processes -> {"none", "accept", "fork", "prompt", "read", "run", "gone"}]
      /\ new_sock_fd \in [Processes -> Sessions \cup {NoClient}]
      /\ io \in [Processes -> Sessions \cup {NoClient}]
      /\ cin_ok \in [Processes -> BOOLEAN]
  BY ServerKeeps, SpeaksKept, TypeParts DEF PageInv, RemoteInv, AllTypes, Server!TypeOK
<1>2. UNCHANGED <<st, pos, flg_exit, page>>
  BY DEF console
<1>3. /\ shut' = shut
      /\ \A s \in Sessions : s # io[p] => up'[s] = up[s] /\ down'[s] = down[s]
      /\ \A q \in Processes : io[q] # NoClient => io'[q] = io[q]
      /\ \A q \in Processes : io[q] # NoClient /\ ~cin_ok[q] => ~cin_ok'[q]
      /\ \A q \in Processes \ {p} : io[q] # NoClient => /\ at'[q] = at[q] /\ left'[q] = left[q]
                                                         /\ cin_ok'[q] = cin_ok[q]
      /\ failures' = 0 => failures = 0
      /\ ~Server!Fork(p) => io' = io
  BY <1>1, ProcessOwn
<1>4. NoClient \notin Sessions
  BY RemoteShellAssumption DEF Server!ConstantsOK
<1>5. Marks'
  BY <1>1, <1>2, <1>3 DEF Marks
<1>6. ASSUME NEW s \in Sessions, ~Deceptive(s)', Served(s)'
      PROVE  Shows(s)'
  <2>1. ~Deceptive(s)
    BY <1>6 DEF Deceptive, Console!HasPrompt
  <2>2. failures' # 0 => \A q \in Processes : io[q] = s => cin_ok[q]
    BY <1>1, <1>3, <1>4, <1>6 DEF Served, Mute
  <2>3. Shows(s)
    BY <1>3, <2>1, <2>2 DEF PageInv, Served, Mute
  <2>4. CASE s \in shut
    <3>1. Transcript(s)' = Transcript(s)
      BY DEF Transcript, Answer
    <3> QED BY <1>2, <1>3, <2>3, <2>4, <3>1 DEF Shows
  <2>5. CASE s \notin shut /\ io[p] = s
    <3>1. CASE cin_ok[p]
      BY <1>1, <2>3, <2>5, <3>1, ServedShows
    <3>2. CASE ~cin_ok[p]
      BY <1>1, <2>2, <2>3, <2>5, <3>2, MuteShows
    <3> QED BY <3>1, <3>2
  <2>6. CASE s \notin shut /\ io[p] # s /\ io' = io
    <3>1. \A q \in Processes : io[q] = s => /\ at'[q] = at[q] /\ left'[q] = left[q]
                                            /\ cin_ok'[q] = cin_ok[q]
      BY <1>3, <1>4, <2>6
    <3> QED BY <1>2, <1>3, <2>3, <2>6, <3>1, StillShows
  <2>7. CASE s \notin shut /\ io[p] # s /\ Server!Fork(p)
    <3>1. PICK q \in Processes : q = Server!Min(Server!Unborn) /\ at[q] = "none"
      BY <2>7, UnbornFacts DEF Server!Fork
    <3>2. /\ at[p] = "fork"
          /\ at' = [at EXCEPT ![p] = "accept", ![q] = "prompt"]
          /\ io' = [io EXCEPT ![q] = new_sock_fd[p]] /\ UNCHANGED <<up, down>>
      BY <2>7, <3>1 DEF Server!Fork
    <3>3. io[q] = NoClient
      BY <1>1, <3>1 DEF Speaks
    <3>4. CASE new_sock_fd[p] # s
      <4>2. /\ page'[s] = page[s] /\ pos'[s] = pos[s] /\ flg_exit'[s] = flg_exit[s]
            /\ up'[s] = up[s] /\ down'[s] = down[s] /\ (s \in shut' <=> s \in shut)
        BY <1>2, <1>3, <3>2
      <4>3. \A o \in Processes : io'[o] = s <=> io[o] = s
        BY <1>1, <1>4, <3>2, <3>3, <3>4
      <4>4. \A o \in Processes : io[o] = s => /\ at'[o] = at[o] /\ left'[o] = left[o]
                                              /\ cin_ok'[o] = cin_ok[o]
        BY <1>3, <1>4, <2>7
      <4> QED BY <2>3, <4>2, <4>3, <4>4, StillShows
    <3>5. CASE new_sock_fd[p] = s
      <4>1. \A o \in Processes : io[o] # s
        BY <1>1, <3>2, <3>5 DEF Speaks
      <4>2. ~Asks(s)
        BY <4>1 DEF Asks
      <4>3. PICK a \in Seq(Chars), r \in Seq(Chars) : Answers(s, a, r)
        BY <2>3, <2>7, <4>2 DEF Shows
      <4>4. r = Prompt
        BY <4>1, <4>3 DEF Answers, ToCome
      <4>5. io'[q] = s /\ at'[q] = "prompt"
        BY <1>1, <3>1, <3>2, <3>5
      <4>6. ToCome(s, r)'
        <5>1. Prompt' = Prompt
          BY DEF Prompt
        <5> QED BY <4>4, <4>5, <5>1 DEF ToCome
      <4>7. Before(s)' = Before(s) /\ After(s)' = After(s)
        BY <1>2 DEF Before, After
      <4>8. Answers(s, a, r)'
        BY <1>2, <3>2, <4>3, <4>6, <4>7 DEF Answers
      <4> QED BY <1>3, <2>7, <4>8 DEF Shows
    <3> QED BY <3>4, <3>5
  <2> QED BY <1>3, <2>4, <2>5, <2>6, <2>7
<1> QED BY <1>1, <1>5, <1>6 DEF PageInv

(* No page shows anything, and a prompt is to come.                         *)
LEMMA InitPages ==
  Init => PageInv
<1> SUFFICES ASSUME Init PROVE PageInv
  OBVIOUS
<1>1. /\ st = [s \in Sessions |-> "resolve"] /\ pos = [s \in Sessions |-> 0]
      /\ flg_exit = [s \in Sessions |-> FALSE] /\ page = [s \in Sessions |-> <<>>]
      /\ up = [s \in Sessions |-> <<>>] /\ down = [s \in Sessions |-> <<>>] /\ shut = {}
  BY DEF Init, Console!Init
<1>2. /\ at = [p \in Processes |-> IF p = 0 THEN "accept" ELSE "none"]
      /\ io = [p \in Processes |-> NoClient] /\ left = [p \in Processes |-> <<>>]
      /\ cin_ok = [p \in Processes |-> TRUE]
  BY DEF Init, Server!Init
<1>3. NoClient \notin Sessions
  BY RemoteShellAssumption DEF Server!ConstantsOK
<1>4. Speaks
  BY <1>2 DEF Speaks
<1>5. Marks
  BY <1>1 DEF Marks
<1>6. ASSUME NEW s \in Sessions
      PROVE  Shows(s)
  <2>1. ToCome(s, Prompt)
    BY <1>2, <1>3 DEF ToCome
  <2>2. /\ up[s] = <<>> /\ down[s] = <<>> /\ page[s] = <<>> /\ s \notin shut /\ pos[s] = 0
    BY <1>1
  <2>3. Before(s) = <<>> /\ After(s) = Prompt
    BY <2>2 DEF Before, After
  <2>4. PICK r \in Seq(Chars) : r = Prompt
    BY FileFacts
  <2>5. <<>> \o (<<>> \o r) = r /\ <<>> \o <<>> = <<>> /\ <<>> \in Seq(Chars)
    OBVIOUS
  <2>6. Answers(s, <<>>, r)
    BY <2>1, <2>2, <2>3, <2>4, <2>5 DEF Answers
  <2> QED BY <2>2, <2>5, <2>6 DEF Shows
<1> QED BY InitInv, <1>4, <1>5, <1>6 DEF PageInv

(* Every step keeps every page.                                             *)
LEMMA NextPages ==
  ASSUME PageInv, [Next]_vars
  PROVE  PageInv'
<1>1. CASE UNCHANGED vars
  <2>1. UNCHANGED <<st, pos, flg_exit, page, reply, at, new_sock_fd, io, holds, cin_ok, left,
                    jobs, failures, backlog, up, down, shut>>
    BY <1>1 DEF vars, console, server
  <2>2. RemoteInv'
    BY NextKeeps DEF PageInv
  <2>3. Speaks' /\ Marks'
    BY <2>1 DEF PageInv, Speaks, Marks
  <2>4. ASSUME NEW s \in Sessions, ~Deceptive(s)', Served(s)'
        PROVE  Shows(s)'
    <3>1. ~Deceptive(s) /\ Served(s)
      BY <2>1, <2>4 DEF Deceptive, Served, Mute, Console!HasPrompt
    <3>2. Shows(s)
      BY <3>1 DEF PageInv
    <3> QED BY <2>1, <3>2, StillShows
  <2> QED BY <2>2, <2>3, <2>4 DEF PageInv
<1>2. CASE Console!Next /\ UNCHANGED server
  BY <1>2, ConsolePages DEF Console!Next
<1>3. CASE Server!Next /\ UNCHANGED console
  BY <1>3, ServerPages DEF Server!Next, Acts
<1> QED BY <1>1, <1>2, <1>3 DEF Next
-----------------------------------------------------------------------------
(* The theorems.                                                            *)

(* Every variable of the consoles and of the server keeps its type: what is *)
(* on a page is text and commands of its file, no session reads beyond the  *)
(* end of its file, and a process's descriptors are sessions' sockets.      *)
THEOREM TypeCorrect ==
  Spec => []TypeOK
<1>1. RemoteInv => TypeOK
  BY DEF RemoteInv, Types
<1> QED BY InvCorrect, <1>1, PTL

(* When the process that serves a client has exited, no process has its     *)
(* socket (np_simple.cpp closes the socket of a client in the process that  *)
(* accepted it), and no command but those of that process's own lines ...   *)
(* |N, which it does not wait for: the end of these is what the console     *)
(* still waits for.                                                         *)
THEOREM ExitClosesCorrect ==
  Spec => []ExitCloses
<1>1. RemoteInv => ExitCloses
  BY DEF RemoteInv, HeldOnce, Serves, ExitCloses
<1> QED BY InvCorrect, <1>1, PTL

(* A page shows each command of its session's file behind the prompt it     *)
(* answers and in front of what it prints, as do_read() and do_write() of   *)
(* console.cpp have it, whatever the other sessions, the server's processes *)
(* and fork() do: what is shown is at every time the beginning of the       *)
(* session's transcript.                                                    *)
THEOREM PageCorrect ==
  Spec => []PageIsTranscript
<1>1. PageInv => PageIsTranscript
  <2> SUFFICES ASSUME PageInv, NEW s \in Sessions, ~Deceptive(s), Served(s)
               PROVE  IsPrefix(page[s], Transcript(s))
    BY DEF PageIsTranscript
  <2>1. Types /\ Shows(s)
    BY DEF PageInv, RemoteInv
  <2> QED BY <2>1, ShowsPrefix
<1>2. PageInv /\ [Next]_vars => PageInv'
  BY NextPages
<1> QED BY InitPages, <1>1, <1>2, PTL DEF Spec
=============================================================================
