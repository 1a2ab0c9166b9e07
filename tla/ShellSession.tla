---------------------------- MODULE ShellSession ----------------------------
(***************************************************************************)
(* The ShellSessions of console.cgi, src/Project4/console.cpp and, without *)
(* the proxy, src/Project3/console.cpp: each connects to a remote shell,   *)
(* shows on the page what it reads and sends the next line of its file     *)
(* when it has read a prompt.  All run in one io_service with one thread,  *)
(* and share nothing but the page, which has a column per session.         *)
(*                                                                         *)
(* The sockets are variables of the module that puts sessions and servers  *)
(* together (RemoteShell).                                                 *)
(***************************************************************************)
EXTENDS Integers, Sequences, FiniteSets, SequencesExt

CONSTANTS
  Sessions,     \* the sessions the query asks for
  File,         \* the lines of each session's file
  Proxied,      \* the sessions of a console with a SOCKS server (proxy_on)
  MaxRead       \* characters that fit into data (MAX_LENGTH)

(* What is shown and sent: the two characters of a prompt, what a command   *)
(* prints, and the commands themselves, numbered by their line.             *)
Percent == <<"%", 0>>
Blank   == <<" ", 0>>
Cmd(k)  == <<"cmd", k>>
Text    == {Percent, Blank} \cup {<<"out", k>> : k \in 1 .. 9}
(* A line that ends in |N ("later") has nothing printed.                    *)
Line    == [op : {"run", "exit"}, says : Seq(Text)] \cup [op : {"later"}, says : {<<>>}]

(* What RemoteShell assumes of the constants. *)
ConstantsOK ==
  /\ Proxied \subseteq Sessions /\ MaxRead \in Nat \ {0, 1}
  /\ DOMAIN File = Sessions /\ \A s \in Sessions : File[s] \in Seq(Line)

VARIABLES
  st,           \* the handler that is pending
  pos,          \* lines read from fileFd
  flg_exit,
  page,         \* a session's column of the page
  reply,        \* the SOCKS reply: none, asked, granted, refused
  backlog,      \* connections the remote server has not accepted
  up, down,     \* lines to the server, characters from it
  shut,         \* sessions that have closed their socket
  ended         \* sessions whose socket the server has closed (read only)

socket == <<backlog, up, down, shut>>

Init ==
  /\ st = [s \in Sessions |-> "resolve"]
  /\ pos = [s \in Sessions |-> 0]
  /\ flg_exit = [s \in Sessions |-> FALSE]
  /\ page = [s \in Sessions |-> <<>>]
  /\ reply = [s \in Sessions |-> "none"]

Goto(s, h) == st' = [st EXCEPT ![s] = h]

-----------------------------------------------------------------------------
(* Slips of the kind this code invites.  Each replaces the definition named  *)
(* beside it to see that a property notices; none is part of the model.      *)

SentBefore(s, l) == up          \* Sends: shown, and not sent

-----------------------------------------------------------------------------
(* From the query to the first do_read(). *)

resolve_handler(s) ==
  /\ st[s] = "resolve"
  /\ Goto(s, "connect") \/ Goto(s, "done")
  /\ UNCHANGED <<pos, flg_exit, page, reply, socket>>

connect_handler(s) ==
  /\ st[s] = "connect"
  /\ \/ /\ s \notin Proxied
        /\ Goto(s, "read") /\ backlog' = Append(backlog, s)
     \/ /\ s \in Proxied
        /\ Goto(s, "request") /\ UNCHANGED backlog
     \/ Goto(s, "done") /\ UNCHANGED backlog
  /\ UNCHANGED <<pos, flg_exit, page, reply, up, down, shut>>

(* A request that cannot be sent leaves nothing pending. *)
send_socks4a_req(s) ==
  /\ st[s] = "request"
  /\ \/ Goto(s, "reply") /\ reply' = [reply EXCEPT ![s] = "asked"]
     \/ Goto(s, "done") /\ UNCHANGED reply
  /\ UNCHANGED <<pos, flg_exit, page, socket>>

(* The socket is closed: unread input makes the kernel reset the connection, *)
(* and what was sent before may be lost.                                     *)
Leave(s, unread) ==
  /\ Goto(s, "done") /\ shut' = shut \cup {s}
  /\ down' = [down EXCEPT ![s] = <<>>]
  /\ up' \in {up} \cup IF unread = <<>> THEN {} ELSE {[up EXCEPT ![s] = <<>>]}

(* A reply without code 90 is a refusal, and so is one that arrives in parts *)
(* if the first is too short to hold the code; after an error no handler is  *)
(* pending either, and the socket is closed with the session.                *)
get_socks4_reply(s) ==
  /\ st[s] = "reply" /\ reply[s] \in {"granted", "refused"}
  /\ \/ reply[s] = "granted" /\ Goto(s, "read") /\ UNCHANGED socket
     \/ Leave(s, down[s]) /\ UNCHANGED backlog
  /\ UNCHANGED <<pos, flg_exit, page, reply>>

(* The SOCKS server: see SocksSession. *)
Grant(s) ==
  /\ reply[s] = "asked"
  /\ reply' = [reply EXCEPT ![s] = "granted"]
  /\ backlog' = Append(backlog, s)
  /\ UNCHANGED <<st, pos, flg_exit, page, up, down, shut>>

Refuse(s) ==
  /\ reply[s] = "asked"
  /\ reply' = [reply EXCEPT ![s] = "refused"]
  /\ UNCHANGED <<st, pos, flg_exit, page, socket>>

-----------------------------------------------------------------------------
(* do_read() and do_write(). *)

HasPrompt(str) == \E j \in 1 .. Len(str) - 1 : str[j] = Percent /\ str[j + 1] = Blank

Sends(s, l) == [up EXCEPT ![s] = Append(@, l)]

(* Shows the next line and sends it; a file that is read up ends the session. *)
do_write(s, str, rest) ==
  IF pos[s] = Len(File[s])
  THEN /\ Leave(s, rest)
       /\ page' = [page EXCEPT ![s] = @ \o str]
       /\ UNCHANGED <<pos, flg_exit>>
  ELSE LET k == pos[s] + 1
           l == File[s][k]
       IN  /\ pos' = [pos EXCEPT ![s] = k]
           /\ page' = [page EXCEPT ![s] = (@ \o str) \o <<Cmd(k)>>]
           /\ flg_exit' = [flg_exit EXCEPT ![s] = @ \/ l.op = "exit"]
           /\ up' = Sends(s, [k |-> k, op |-> l.op, says |-> l.says])
           /\ down' = [down EXCEPT ![s] = rest]
           /\ Goto(s, "write")
           /\ UNCHANGED shut

do_read(s) ==
  /\ st[s] = "read"
  /\ \E n \in 1 .. MaxRead :
       LET str  == SubSeq(down[s], 1, n)
           rest == SubSeq(down[s], n + 1, Len(down[s]))
       IN  /\ n <= Len(down[s])
           /\ IF flg_exit[s]
              THEN /\ Leave(s, rest) /\ page' = [page EXCEPT ![s] = @ \o str]
                   /\ UNCHANGED <<pos, flg_exit>>
              ELSE IF HasPrompt(str) THEN do_write(s, str, rest)
              ELSE /\ page' = [page EXCEPT ![s] = @ \o str]
                   /\ down' = [down EXCEPT ![s] = rest]
                   /\ UNCHANGED <<st, pos, flg_exit, up, shut>>
  /\ UNCHANGED <<reply, backlog>>

(* The handler of async_send(). *)
Sent(s) ==
  /\ st[s] = "write"
  /\ Goto(s, "read")
  /\ UNCHANGED <<pos, flg_exit, page, reply, socket>>

(* End of file, or a reset, while a handler is pending. *)
Ends(s) ==
  /\ st[s] \in {"read", "write"} /\ down[s] = <<>> /\ s \in ended
  /\ Leave(s, <<>>)
  /\ UNCHANGED <<pos, flg_exit, page, reply, backlog>>

-----------------------------------------------------------------------------
Session(s) == \/ resolve_handler(s) \/ connect_handler(s)
              \/ send_socks4a_req(s) \/ get_socks4_reply(s)
              \/ do_read(s) \/ Sent(s) \/ Ends(s)

Proxy(s) == Grant(s) \/ Refuse(s)

Next == \E s \in Sessions : Session(s) \/ Proxy(s)

(* What a page may show: text, and the commands of the files. *)
Shown == Text \cup {Cmd(k) : k \in UNION {DOMAIN File[s] : s \in Sessions}}

TypeOK ==
  /\ st \in [Sessions -> {"resolve", "connect", "request", "reply", "read", "write", "done"}]
  /\ flg_exit \in [Sessions -> BOOLEAN]
  /\ pos \in [Sessions -> Nat] /\ \A s \in Sessions : pos[s] <= Len(File[s])
  /\ page \in [Sessions -> Seq(Shown)]
  /\ reply \in [Sessions -> {"none", "asked", "granted", "refused"}]
=============================================================================
