----------------------------- MODULE HttpServer -----------------------------
(***************************************************************************)
(* src/Project3/http_server.cpp: a server with one thread that accepts     *)
(* connections, reads a request from each, and forks a process that takes  *)
(* the request apart into its environment, makes the socket its stdin,     *)
(* stdout and stderr, and executes the CGI program the request names.      *)
(*                                                                         *)
(* No socket is closed on exec, so a program also has the sockets of the   *)
(* connections that were waiting for their requests when it was forked: a  *)
(* browser sees the end of its response when the last of them has ended.   *)
(***************************************************************************)
EXTENDS Integers, Sequences, FiniteSets, SequencesExt

CONSTANTS
  Connections,   \* browser connections; each connects at most once
  Programs,      \* the CGI programs in the server's directory
  Requests,      \* what browsers ask for
  Unset,         \* a variable that is not in the environment
  Pieces,        \* bound: writes of a program
  LineBuffered   \* whether the server's stdout was a terminal at its first use

(* A request names a program, and has a query or none.  Its size: it arrives *)
(* whole, or the read leaves some of it in the socket, or what is read ends  *)
(* before parse_header() has what it needs.                                  *)
Request == [cgi : STRING, query : STRING, size : {"fits", "long", "torn"}]

ASSUME HttpAssumption ==
  /\ Requests \subseteq Request
  /\ \A r \in Requests : r.cgi # Unset
  /\ Pieces \in Nat
  /\ LineBuffered \in BOOLEAN

NoRequest == [cgi |-> Unset, query |-> Unset, size |-> "none"]

VARIABLES
  at,        \* a connection: idle, backlog, open, served
  request,   \* what its browser has sent
  gone,      \* the browsers that have closed their sockets
  down,      \* text on its way to a browser
  seen,      \* what a browser has got
  ending,    \* how a browser saw the response end: none, eof, reset
  environ,   \* the server's environment
  child,     \* the process forked for a connection: none, parse, run, ended
  env,       \* its environment
  holds,     \* the connections whose sockets it has
  left       \* what it has still to write

server  == <<at, environ>>
browser == <<request, gone, seen, ending>>
process == <<child, env, holds, left>>
vars    == <<server, browser, down, process>>

Init ==
  /\ at = [c \in Connections |-> "idle"]
  /\ request = [c \in Connections |-> NoRequest]
  /\ gone = {}
  /\ down = [c \in Connections |-> <<>>]
  /\ seen = [c \in Connections |-> <<>>]
  /\ ending = [c \in Connections |-> "none"]
  /\ environ = [CGI_NAME |-> Unset, QUERY_STRING |-> Unset]
  /\ child = [c \in Connections |-> "none"]
  /\ env = [c \in Connections |-> environ]
  /\ holds = [c \in Connections |-> {}]
  /\ left = [c \in Connections |-> <<>>]

Open == {c \in Connections : at[c] = "open"}

(* The socket of c is closed: by the server, and by every process.          *)
Closed(c) == at[c] = "served" /\ \A d \in Connections : c \notin holds[d]

-----------------------------------------------------------------------------
(* The environment and the text of a program. *)

(* A request without a query leaves QUERY_STRING alone.                     *)
With(e, var, value) == IF value = Unset THEN e ELSE [e EXCEPT ![var] = value]
parse_header(e, r)  == With(With(e, "QUERY_STRING", r.query), "CGI_NAME", r.cgi)

Status    == <<"HTTP/1.1 200 OK">>
Started   == <<"server start">>
ExecError == <<"ERROR: exec error">>

(* What is in the buffer of stdout is lost in exec; an exec that fails       *)
(* writes it out.                                                            *)
Response(e) ==
  IF e.CGI_NAME \in Programs
  THEN (IF LineBuffered THEN <<Status>> ELSE <<>>)
         \o [k \in 1 .. Pieces |-> <<e.CGI_NAME, e.QUERY_STRING, k>>]
  ELSE (IF LineBuffered THEN <<>> ELSE <<Started>>) \o <<Status, ExecError>>

-----------------------------------------------------------------------------
(* Slips of the kind this code invites.  Each replaces the definition named  *)
(* beside it to see that a property notices; none is part of the model.      *)

ParentParses(e, r) == parse_header(e, r)   \* Kept: parsed before fork()

CloseFirst(c) == Open \ {c}     \* Inherits: socket_.close() before fork()

StillOpen == "held"             \* AfterFork: socket_.close() only in the child

NameLost(e, r) == With(e, "QUERY_STRING", r.query)   \* Parsed: no CGI_NAME

-----------------------------------------------------------------------------
(* The server's handlers. *)

Accept(c) ==
  /\ at[c] = "backlog"
  /\ at' = [at EXCEPT ![c] = "open"]
  /\ UNCHANGED <<environ, browser, down, process>>

(* What the process of c has of the server's: sockets and environment.       *)
Inherits(c)  == Open
Kept(e, r)   == e
AfterFork    == "served"

Requested(c) == at[c] = "open" /\ request[c] # NoRequest

Fork(c) ==
  /\ Requested(c)
  /\ child' = [child EXCEPT ![c] = "parse"]
  /\ holds' = [holds EXCEPT ![c] = Inherits(c)]
  /\ environ' = Kept(environ, request[c])
  /\ env' = [env EXCEPT ![c] = environ']
  /\ at' = [at EXCEPT ![c] = AfterFork]
  /\ UNCHANGED <<browser, down, left>>

ForkFails(c) ==
  /\ Requested(c)
  /\ at' = [at EXCEPT ![c] = AfterFork]
  /\ UNCHANGED <<environ, browser, down, process>>

(* End of file, or a reset: the session goes, and its socket with it.        *)
ReadError(c) ==
  /\ at[c] = "open" /\ c \in gone
  /\ at' = [at EXCEPT ![c] = "served"]
  /\ UNCHANGED <<environ, browser, down, process>>

-----------------------------------------------------------------------------
(* The process of a connection. *)

Parsed(e, r) == parse_header(e, r)

Exec(c) ==
  /\ child[c] = "parse" /\ request[c].size # "torn"
  /\ child' = [child EXCEPT ![c] = "run"]
  /\ env' = [env EXCEPT ![c] = Parsed(@, request[c])]
  /\ left' = [left EXCEPT ![c] = Response(env'[c])]
  /\ UNCHANGED <<server, browser, down, holds>>

Ends(c) ==
  /\ child' = [child EXCEPT ![c] = "ended"]
  /\ holds' = [holds EXCEPT ![c] = {}]
  /\ left' = [left EXCEPT ![c] = <<>>]

(* parse_header() indexes vectors by what a request should have, and         *)
(* remote_endpoint() throws when the browser has gone.                       *)
Dies(c) ==
  /\ child[c] = "parse" /\ (request[c].size = "torn" \/ c \in gone)
  /\ Ends(c)
  /\ UNCHANGED <<server, browser, down, env>>

Write(c) ==
  /\ child[c] = "run" /\ left[c] # <<>> /\ c \notin gone
  /\ down' = [down EXCEPT ![c] = Append(@, Head(left[c]))]
  /\ left' = [left EXCEPT ![c] = Tail(@)]
  /\ UNCHANGED <<server, browser, child, env, holds>>

(* A program ends when it has written all, or by SIGPIPE.                    *)
Finish(c) ==
  /\ child[c] = "run" /\ (left[c] = <<>> \/ c \in gone)
  /\ Ends(c)
  /\ UNCHANGED <<server, browser, down, env>>

-----------------------------------------------------------------------------
(* The browsers. *)

Connect(c) ==
  /\ at[c] = "idle"
  /\ at' = [at EXCEPT ![c] = "backlog"]
  /\ UNCHANGED <<environ, browser, down, process>>

Ask(c) ==
  /\ at[c] \in {"backlog", "open"} /\ request[c] = NoRequest /\ c \notin gone
  /\ \E r \in Requests : request' = [request EXCEPT ![c] = r]
  /\ UNCHANGED <<server, gone, down, seen, ending, process>>

Leave(c) ==
  /\ at[c] # "idle" /\ c \notin gone /\ ending[c] = "none"
  /\ gone' = gone \cup {c} /\ down' = [down EXCEPT ![c] = <<>>]
  /\ UNCHANGED <<server, request, seen, ending, process>>

Receive(c) ==
  /\ c \notin gone /\ down[c] # <<>>
  /\ seen' = [seen EXCEPT ![c] = Append(@, Head(down[c]))]
  /\ down' = [down EXCEPT ![c] = Tail(@)]
  /\ UNCHANGED <<server, request, gone, ending, process>>

(* A socket that is closed with a part of the request unread, or is sent the  *)
(* rest later, resets the connection, and what is on its way may be lost.     *)
SeeEnd(c) ==
  /\ c \notin gone /\ ending[c] = "none" /\ Closed(c)
  /\ \/ down[c] = <<>>
        /\ ending' = [ending EXCEPT ![c] = "eof"] /\ UNCHANGED down
     \/ request[c].size \in {"long", "torn"}
        /\ ending' = [ending EXCEPT ![c] = "reset"] /\ down' = [down EXCEPT ![c] = <<>>]
  /\ UNCHANGED <<server, request, gone, seen, process>>

-----------------------------------------------------------------------------
Server(c)  == Accept(c) \/ Fork(c) \/ ForkFails(c) \/ ReadError(c)
Program(c) == Exec(c) \/ Dies(c) \/ Write(c) \/ Finish(c)
Browser(c) == Receive(c) \/ SeeEnd(c)

Next == \E c \in Connections :
          Server(c) \/ Program(c) \/ Browser(c) \/ Connect(c) \/ Ask(c) \/ Leave(c)

Spec == Init /\ [][Next]_vars

(* Handlers that are ready run; programs come to their ends; a browser that  *)
(* stays reads.                                                              *)
FairSpec ==
  /\ Spec
  /\ \A c \in Connections :
       WF_vars(Server(c)) /\ WF_vars(Program(c)) /\ WF_vars(Browser(c))

-----------------------------------------------------------------------------
(* A program runs only with a name to run, whatever it inherited.            *)
TypeOK ==
  /\ at \in [Connections -> {"idle", "backlog", "open", "served"}]
  /\ request \in [Connections -> Requests \cup {NoRequest}]
  /\ gone \subseteq Connections
  /\ ending \in [Connections -> {"none", "eof", "reset"}]
  /\ child \in [Connections -> {"none", "parse", "run", "ended"}]
  /\ holds \in [Connections -> SUBSET Connections]
  /\ \A c \in Connections : child[c] = "run" => env[c].CGI_NAME # Unset

(* What the request asks for, and nothing an earlier request has left.       *)
Expected(c) == Response([CGI_NAME |-> request[c].cgi, QUERY_STRING |-> request[c].query])

(* A browser gets the answer to its own request: that program's, with that   *)
(* query, although all requests pass through one server.                     *)
OwnAnswer == \A c \in Connections : IsPrefix(seen[c], Expected(c))

(* End of file means that the response is complete: the server's close()     *)
(* does not cut off the program that still writes.                           *)
EofIsComplete ==
  \A c \in Connections :
    ending[c] = "eof" /\ child[c] # "none" /\ request[c].size # "torn" => seen[c] = Expected(c)

(* A browser that has sent a request and stays sees the end of the response, *)
(* although other programs may have its socket.                              *)
ResponseEnds ==
  \A c \in Connections : request[c] # NoRequest ~> ending[c] # "none" \/ c \in gone
=============================================================================
