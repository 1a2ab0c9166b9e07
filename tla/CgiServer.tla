----------------------------- MODULE CgiServer ------------------------------
(***************************************************************************)
(* src/Project3/cgi_server.cpp: the HTTP server and the console in one     *)
(* process with one thread.  Requests pass through the environment and     *)
(* global tables; the shell sessions of a console write to the socket of   *)
(* the HttpSession they keep alive, and nobody waits for a write before    *)
(* the next one starts.                                                    *)
(***************************************************************************)
EXTENDS Integers, Sequences, FiniteSets, SequencesExt

CONSTANTS
  Connections,   \* browser connections; each connects at most once
  Columns,       \* the sessions of a console: 1 .. Columns (5 in the code)
  Asks,          \* what each browser may ask for
  Unset,         \* a variable that is not in the environment
  FileLines(_),  \* lines that can be sent from the file for a host: up to exit
  EndsInExit(_), \* whether the last of them is exit
  MaxTexts,      \* bound: texts of a remote shell besides one for each line
  Room           \* pieces the stream to a browser holds

Column  == 1 .. Columns
Request == [cgi : STRING, query : {Unset} \cup [Column -> STRING], torn : BOOLEAN]

Requests  == UNION Range(Asks)
NoRequest == [cgi |-> "", query |-> Unset, torn |-> FALSE]
Queries   == {r.query : r \in Requests} \ {Unset}
Hosts     == ({"None"} \cup UNION {Range(q) : q \in Queries}) \ {""}

(* No host is called None: it is the code's mark for a column without one.   *)
ASSUME CgiAssumption ==
  /\ Columns \in Nat /\ MaxTexts \in Nat /\ Room \in Nat \ {0}
  /\ Asks \in [Connections -> SUBSET Request]
  /\ Unset \notin [Column -> STRING] /\ \A q \in Queries : "None" \notin Range(q)
  /\ \A h \in Hosts \cup {""} : FileLines(h) \in Nat /\ (EndsInExit(h) => FileLines(h) > 0)

VARIABLES
  alive,      \* no exception has ended the process
  at,         \* a connection: idle, backlog, open, busy, closed
  request,    \* what its browser has sent
  gone,       \* the browsers that have closed their sockets
  environ,    \* the environment
  Host,       \* the global tables; Port and FileName go with it
  st,         \* a shell session's pending handler
  to,         \* the host it was started for
  pos,        \* the lines it has sent
  told,       \* the texts it has read
  down,       \* what is in the stream to a browser
  writing,    \* async_write()s of an HttpSession that wait for room
  seen,       \* a page: what is in its columns, and in 0 the rest
  spoilt      \* the pages that have shown freed memory

http    == <<alive, at, environ, Host>>
shell   == <<st, to, pos, told>>
page    == <<down, writing>>
browser == <<request, gone, seen, spoilt>>
vars    == <<http, shell, page, browser>>

Blank == [i \in {0} \cup Column |-> <<>>]

PerSession(v) == [c \in Connections |-> [i \in Column |-> v]]

Init ==
  /\ alive = TRUE
  /\ at = [c \in Connections |-> "idle"]
  /\ request = [c \in Connections |-> NoRequest]
  /\ gone = {}
  /\ environ = [CGI_NAME |-> Unset, QUERY_STRING |-> Unset]
  /\ Host = [i \in Column |-> ""]
  /\ st = PerSession("none") /\ to = PerSession("")
  /\ pos = PerSession(0) /\ told = PerSession(0)
  /\ down = [c \in Connections |-> <<>>]
  /\ writing = [c \in Connections |-> <<>>]
  /\ seen = [c \in Connections |-> Blank] /\ spoilt = {}

-----------------------------------------------------------------------------
(* Slips of the kind this code invites.  Each replaces the definition named  *)
(* beside it to see that a property notices; none is part of the model.      *)

EmptyHosts(q) == q              \* parse_query: no "None" for empty fields

OldHosts(q) ==                  \* parse_query: no initialisation
  [i \in Column |-> IF q[i] = "" THEN Host[i] ELSE q[i]]

FirstLine(c, i) == 1            \* NextLine: the file is opened for each line

ReadAgain == "read"             \* AfterError: the error code is not looked at

-----------------------------------------------------------------------------
(* Writing to a browser. *)

PanelPage     == <<"panel">>
Table(hosts)  == <<"table", hosts>>
Text(i, str)  == <<"col", i, str>>
Command(i, k) == <<"cmd", i, k>>
Garbage       == <<"garbage">>

(* Each buffer is a local variable that is gone when the function returns:   *)
(* what finds room is copied at once, the rest is read from freed memory.    *)
async_write(c, pieces) ==
  LET room == IF writing[c] = <<>> THEN Room - Len(down[c]) ELSE 0
      n    == IF room < Len(pieces) THEN room ELSE Len(pieces)
  IN  IF c \in gone THEN UNCHANGED page
      ELSE /\ down' = [down EXCEPT ![c] = @ \o SubSeq(pieces, 1, n)]
           /\ writing' = [writing EXCEPT ![c] = @ \o [k \in 1 .. Len(pieces) - n |-> Garbage]]

Copy(c) ==
  /\ alive /\ writing[c] # <<>> /\ Len(down[c]) < Room
  /\ down' = [down EXCEPT ![c] = Append(@, Head(writing[c]))]
  /\ writing' = [writing EXCEPT ![c] = Tail(@)]
  /\ UNCHANGED <<http, shell, browser>>

-----------------------------------------------------------------------------
(* Requests. *)

Accept(c) ==
  /\ alive /\ at[c] = "backlog"
  /\ at' = [at EXCEPT ![c] = "open"]
  /\ UNCHANGED <<alive, environ, Host, shell, page, browser>>

(* A request without a query leaves QUERY_STRING as an earlier one set it.   *)
parse(e, r) == [CGI_NAME     |-> r.cgi,
                QUERY_STRING |-> IF r.query = Unset THEN e.QUERY_STRING ELSE r.query]

parse_query(q) == [i \in Column |-> IF q[i] = "" THEN "None" ELSE q[i]]

Read(c) == alive /\ at[c] = "open" /\ request[c] # NoRequest

(* send_html_content(): the panel, or the console's tables.                  *)
Panel(c) ==
  /\ Read(c) /\ ~request[c].torn /\ request[c].cgi = "panel.cgi"
  /\ environ' = parse(environ, request[c])
  /\ at' = [at EXCEPT ![c] = "busy"]
  /\ async_write(c, <<PanelPage>>)
  /\ UNCHANGED <<alive, Host, shell, browser>>

(* start() copies its session's host before the next request can change it.  *)
Console(c) ==
  /\ Read(c) /\ ~request[c].torn /\ request[c].cgi = "console.cgi"
  /\ environ' = parse(environ, request[c])
  /\ environ'.QUERY_STRING # Unset
  /\ Host' = parse_query(environ'.QUERY_STRING)
  /\ at' = [at EXCEPT ![c] = "busy"]
  /\ async_write(c, <<Table(Host')>>)
  /\ st' = [st EXCEPT ![c] = [i \in Column |-> IF Host'[i] = "None" THEN "none" ELSE "resolve"]]
  /\ to' = [to EXCEPT ![c] = [i \in Column |-> IF Host'[i] = "None" THEN "" ELSE Host'[i]]]
  /\ UNCHANGED <<alive, pos, told, browser>>

(* The session goes, and the connection ends without a byte.                 *)
Unknown(c) ==
  /\ Read(c) /\ ~request[c].torn /\ request[c].cgi \notin {"panel.cgi", "console.cgi"}
  /\ environ' = parse(environ, request[c])
  /\ at' = [at EXCEPT ![c] = "busy"]
  /\ UNCHANGED <<alive, Host, shell, page, browser>>

(* Nothing catches what a handler throws: remote_endpoint() when the browser *)
(* has gone, or a string made of a variable that is not set.  A torn request *)
(* makes parse() index past its vectors.                                     *)
Crash(c) ==
  /\ Read(c)
  /\ \/ request[c].torn
     \/ c \in gone
     \/ request[c].cgi = "console.cgi" /\ parse(environ, request[c]).QUERY_STRING = Unset
  /\ alive' = FALSE
  /\ UNCHANGED <<at, environ, Host, shell, page, browser>>

ReadError(c) ==
  /\ alive /\ at[c] = "open" /\ c \in gone
  /\ at' = [at EXCEPT ![c] = "closed"]
  /\ UNCHANGED <<alive, environ, Host, shell, page, browser>>

-----------------------------------------------------------------------------
(* Shell sessions: see ShellSession; here their part in the pages. *)

Goto(c, i, h) == st' = [st EXCEPT ![c][i] = h]

(* Resolver and connection succeed, or end the session.                      *)
Connects(c, i) ==
  /\ alive /\ st[c][i] = "resolve"
  /\ Goto(c, i, "read") \/ Goto(c, i, "done")
  /\ UNCHANGED <<http, to, pos, told, page, browser>>

HasPrompt(str) == str = "prompt"

NextLine(c, i) == pos[c][i] + 1

(* The text goes to the page, and after a prompt the next line, which is     *)
(* also sent.  A session ends with the text that follows exit, or with a     *)
(* prompt for which its file has no line.  The handler of async_send(),      *)
(* which reads again, touches nothing that a page shows.                     *)
do_read(c, i) ==
  /\ alive /\ st[c][i] = "read" /\ told[c][i] < FileLines(to[c][i]) + MaxTexts
  /\ told' = [told EXCEPT ![c][i] = @ + 1]
  /\ \E str \in {"text", "prompt"} :
       LET k        == NextLine(c, i)
           lines    == FileLines(to[c][i])
           flg_exit == EndsInExit(to[c][i]) /\ pos[c][i] = lines
           sends    == ~flg_exit /\ HasPrompt(str) /\ k <= lines
       IN  /\ async_write(c, <<Text(i, str)>> \o IF sends THEN <<Command(i, k)>> ELSE <<>>)
           /\ pos' = IF sends THEN [pos EXCEPT ![c][i] = k] ELSE pos
           /\ IF flg_exit \/ (HasPrompt(str) /\ ~sends) THEN Goto(c, i, "done") ELSE UNCHANGED st
  /\ UNCHANGED <<http, to, browser>>

AfterError == "done"

(* The remote shell has closed. *)
Ends(c, i) ==
  /\ alive /\ st[c][i] = "read"
  /\ Goto(c, i, AfterError)
  /\ UNCHANGED <<http, to, pos, told, page, browser>>

-----------------------------------------------------------------------------
(* The browsers; a server that is dead has no sockets. *)

Connect(c) ==
  /\ alive /\ at[c] = "idle"
  /\ at' = [at EXCEPT ![c] = "backlog"]
  /\ UNCHANGED <<alive, environ, Host, shell, page, browser>>

Ask(c) ==
  /\ alive /\ at[c] \in {"backlog", "open"} /\ request[c] = NoRequest /\ c \notin gone
  /\ \E r \in Asks[c] : request' = [request EXCEPT ![c] = r]
  /\ UNCHANGED <<http, shell, page, gone, seen, spoilt>>

Leave(c) ==
  /\ alive /\ at[c] \in {"backlog", "open", "busy"} /\ c \notin gone
  /\ gone' = gone \cup {c}
  /\ down' = [down EXCEPT ![c] = <<>>] /\ writing' = [writing EXCEPT ![c] = <<>>]
  /\ UNCHANGED <<http, shell, request, seen, spoilt>>

(* A script writes into the column it names; after freed memory the page may  *)
(* be anything.                                                              *)
Place(piece) == IF piece[1] \in {"col", "cmd"} THEN piece[2] ELSE 0

Receive(c) ==
  /\ alive /\ c \notin gone /\ down[c] # <<>>
  /\ LET piece == Head(down[c]) IN
     IF piece = Garbage \/ c \in spoilt
     THEN spoilt' = spoilt \cup {c} /\ seen' = [seen EXCEPT ![c] = Blank]
     ELSE seen' = [seen EXCEPT ![c][Place(piece)] = Append(@, piece)] /\ UNCHANGED spoilt
  /\ down' = [down EXCEPT ![c] = Tail(@)]
  /\ UNCHANGED <<http, shell, writing, request, gone>>

-----------------------------------------------------------------------------
Handler(c)    == Accept(c) \/ Panel(c) \/ Console(c) \/ Unknown(c) \/ Crash(c) \/ ReadError(c)
Session(c, i) == Connects(c, i) \/ do_read(c, i) \/ Ends(c, i)
Stream(c)     == Copy(c) \/ Receive(c)

Next == \E c \in Connections :
          \/ Handler(c) \/ Stream(c) \/ Connect(c) \/ Ask(c) \/ Leave(c)
          \/ \E i \in Column : Session(c, i)

Spec == Init /\ [][Next]_vars

(* Handlers that are ready run, a browser that stays reads, and a remote     *)
(* shell says something or closes.                                           *)
FairSpec ==
  /\ Spec
  /\ \A c \in Connections :
       WF_vars(Handler(c)) /\ WF_vars(Stream(c)) /\ \A i \in Column : WF_vars(Session(c, i))

-----------------------------------------------------------------------------
TypeOK ==
  /\ alive \in BOOLEAN
  /\ at \in [Connections -> {"idle", "backlog", "open", "busy", "closed"}]
  /\ request \in [Connections -> Requests \cup {NoRequest}]
  /\ gone \subseteq Connections
  /\ Host \in [Column -> Hosts] \/ Host = [i \in Column |-> ""]
  /\ st \in [Connections -> [Column -> {"none", "resolve", "read", "done"}]]
  /\ to \in [Connections -> [Column -> Hosts \cup {""}]]
  /\ \A c \in Connections, i \in Column : pos[c][i] \in 0 .. FileLines(to[c][i])
  /\ told \in [Connections -> [Column -> Nat]]
  /\ \A c \in Connections : Len(down[c]) <= Room

(* A console that was asked for with a query has just the sessions of its    *)
(* own query, to its own hosts, and says so in its table, although the       *)
(* tables and the environment belong to all requests.                        *)
OwnSessions ==
  \A c \in Connections :
    request[c].query # Unset /\ request[c].cgi = "console.cgi" /\ at[c] = "busy" =>
      /\ to[c] = request[c].query
      /\ \A i \in Column : st[c][i] = "none" <=> request[c].query[i] = ""
      /\ \A k \in DOMAIN seen[c][0] :
           seen[c][0][k] = Table(parse_query(request[c].query))

(* In each column of a page that shows no freed memory every line stands     *)
(* right behind a prompt, and the lines are those of the file, in order and  *)
(* each once, although sessions write in turn and never wait.                *)
PageInOrder ==
  \A c \in Connections, i \in Column :
    LET col == seen[c][i] IN
      \A j \in DOMAIN col : col[j][1] = "cmd" =>
        /\ j > 1 /\ col[j - 1] = Text(i, "prompt")
        /\ {col[m][3] : m \in {m \in 1 .. j - 1 : col[m][1] = "cmd"}} = 1 .. col[j][3] - 1

(* The HttpSession has gone, and its socket with it: its read is done, no    *)
(* shell session keeps it, and no write.                                     *)
Released(c) ==
  \/ at[c] = "closed"
  \/ at[c] = "busy" /\ writing[c] = <<>> /\ \A i \in Column : st[c][i] \in {"none", "done"}

(* A browser that has sent a request and stays sees the end of the response  *)
(* when the shells have ended, unless the server dies.                       *)
ResponseEnds ==
  \A c \in Connections :
    request[c] # NoRequest ~> (Released(c) /\ down[c] = <<>>) \/ c \in gone \/ ~alive
=============================================================================
