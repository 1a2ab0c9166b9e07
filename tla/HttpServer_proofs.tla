------------------------- MODULE HttpServer_proofs -------------------------
(***************************************************************************)
(* Every browser gets the answer to its own request, and all of it when it *)
(* sees the end of file, whatever the number of connections, programs and  *)
(* requests.                                                               *)
(*                                                                         *)
(* The argument follows the text of one response.  The server's own        *)
(* environment stays blank, so what a process makes of it is what the      *)
(* request says; from then on what the browser has seen, what is on its    *)
(* way to it and what the program has still to write are, in this order,   *)
(* the expected response.  A process holds its own socket until it ends,   *)
(* so the browser can see the end only when nothing is left to write.      *)
(***************************************************************************)
EXTENDS HttpServer, DataFacts

Blank == [CGI_NAME |-> Unset, QUERY_STRING |-> Unset]
Value == STRING \cup {Unset}
Text  == {Status, Started, ExecError} \cup (Value \X Value \X (1 .. Pieces))

Types ==
  /\ at \in [Connections -> {"idle", "backlog", "open", "served"}]
  /\ request \in [Connections -> Requests \cup {NoRequest}]
  /\ gone \subseteq Connections
  /\ ending \in [Connections -> {"none", "eof", "reset"}]
  /\ child \in [Connections -> {"none", "parse", "run", "ended"}]
  /\ holds \in [Connections -> SUBSET Connections]
  /\ down \in [Connections -> Seq(Text)]
  /\ seen \in [Connections -> Seq(Text)]
  /\ left \in [Connections -> Seq(Text)]
  /\ env \in [Connections -> [CGI_NAME : Value, QUERY_STRING : Value]]
  /\ environ = Blank

(* Before there is a process for c nothing has been said to its browser.    *)
Unserved(c) == child[c] = "none" => holds[c] = {} /\ seen[c] = <<>> /\ down[c] = <<>>

Forked(c) == child[c] # "none" => at[c] = "served" /\ request[c] # NoRequest

Parsing(c) == child[c] = "parse" => env[c] = Blank /\ seen[c] = <<>> /\ down[c] = <<>>

(* A process that lives has the socket of its own connection.               *)
OwnSocket(c) == child[c] \in {"parse", "run"} => c \in holds[c]

Running(c) ==
  child[c] = "run" =>
    /\ request[c].size # "torn"
    /\ env[c] = Parsed(Blank, request[c])
    /\ c \notin gone => Stream(seen[c], down[c], left[c]) = Expected(c)

Ended(c) ==
  child[c] = "ended" =>
    IF request[c].size = "torn" THEN seen[c] = <<>> /\ down[c] = <<>>
    ELSE c \notin gone /\ ending[c] # "reset" => seen[c] \o down[c] = Expected(c)

(* The browser of c has seen the end only when the socket was closed.       *)
Over(c) == ending[c] # "none" => down[c] = <<>> /\ c \notin gone /\ Closed(c)

Progress(c) ==
  /\ Unserved(c) /\ Forked(c) /\ Parsing(c) /\ OwnSocket(c)
  /\ Running(c) /\ Ended(c) /\ Over(c)
  /\ IsPrefix(seen[c], Expected(c))

HttpInv == Types /\ \A c \in Connections : Progress(c)

-----------------------------------------------------------------------------
(* The operators. *)

(* Taking a request apart in the blank environment leaves what the request   *)
(* says, so a program answers as the request expects.                        *)
LEMMA BlankParsed ==
  ASSUME NEW r \in Requests
  PROVE  /\ Parsed(Blank, r) = [CGI_NAME |-> r.cgi, QUERY_STRING |-> r.query]
         /\ Parsed(Blank, r) \in [CGI_NAME : Value, QUERY_STRING : Value]
         /\ Parsed(Blank, r).CGI_NAME # Unset
         /\ r # NoRequest
<1>1. r.cgi \in STRING /\ r.query \in STRING /\ r.cgi # Unset
  BY HttpAssumption DEF Request
<1>2. With(Blank, "QUERY_STRING", r.query) = [CGI_NAME |-> Unset, QUERY_STRING |-> r.query]
  BY <1>1 DEF With, Blank
<1>3. With([CGI_NAME |-> Unset, QUERY_STRING |-> r.query], "CGI_NAME", r.cgi)
        = [CGI_NAME |-> r.cgi, QUERY_STRING |-> r.query]
  BY <1>1 DEF With
<1>5. Parsed(Blank, r) = [CGI_NAME |-> r.cgi, QUERY_STRING |-> r.query]
  BY <1>2, <1>3 DEF Parsed, parse_header
<1>4. r # NoRequest
  BY <1>1 DEF NoRequest
<1> QED BY <1>1, <1>4, <1>5 DEF Value

(* A response is text.                                                       *)
LEMMA ResponseText ==
  ASSUME NEW e, e.CGI_NAME \in Value, e.QUERY_STRING \in Value
  PROVE  Response(e) \in Seq(Text)
<1>1. Status \in Text /\ Started \in Text /\ ExecError \in Text
  BY DEF Text
<1>2. \A k \in 1 .. Pieces : <<e.CGI_NAME, e.QUERY_STRING, k>> \in Text
  BY DEF Text
<1> HIDE DEF Text, Status, Started, ExecError
<1>3. [k \in 1 .. Pieces |-> <<e.CGI_NAME, e.QUERY_STRING, k>>] \in Seq(Text)
  BY <1>2, HttpAssumption
<1>4. /\ <<Status>> \in Seq(Text) /\ <<Started>> \in Seq(Text) /\ <<>> \in Seq(Text)
      /\ <<Status, ExecError>> \in Seq(Text)
  BY <1>1
<1> QED BY <1>3, <1>4, ConcatProperties DEF Response

LEMMA ExpectedText ==
  ASSUME Types, NEW c \in Connections
  PROVE  Expected(c) \in Seq(Text)
<1>1. request[c] \in Requests \cup {NoRequest}
  BY DEF Types
<1>2. request[c].cgi \in Value /\ request[c].query \in Value
  BY <1>1, HttpAssumption DEF Request, NoRequest, Value
<1> QED BY <1>2, ResponseText DEF Expected

-----------------------------------------------------------------------------
(* Writing and reading move text along the stream of a connection.           *)
LEMMA WritesOn ==
  ASSUME Types, NEW c \in Connections, left[c] # <<>>
  PROVE  Stream(seen[c], Append(down[c], Head(left[c])), Tail(left[c]))
           = Stream(seen[c], down[c], left[c])
<1>1. seen[c] \in Seq(Text) /\ down[c] \in Seq(Text) /\ left[c] \in Seq(Text)
  BY DEF Types
<1> QED BY <1>1, PassOnBehind

LEMMA ReadsOn ==
  ASSUME Types, NEW c \in Connections, down[c] # <<>>
  PROVE  /\ IsPrefix(Append(seen[c], Head(down[c])), seen[c] \o down[c])
         /\ IsPrefix(Append(seen[c], Head(down[c])), Stream(seen[c], down[c], left[c]))
<1>1. seen[c] \in Seq(Text) /\ down[c] \in Seq(Text) /\ left[c] \in Seq(Text)
  BY DEF Types
<1> QED BY <1>1, PassOnPrefix

-----------------------------------------------------------------------------
(* A connection that a step leaves alone keeps its progress, so long as the  *)
(* step does not open its socket again.                                      *)
LEMMA Untouched ==
  ASSUME NEW d \in Connections, Progress(d),
         at'[d] = at[d], request'[d] = request[d], (d \in gone') <=> (d \in gone),
         down'[d] = down[d], seen'[d] = seen[d], ending'[d] = ending[d],
         child'[d] = child[d], env'[d] = env[d], holds'[d] = holds[d], left'[d] = left[d],
         Closed(d) => Closed(d)'
  PROVE  Progress(d)'
<1>1. Expected(d)' = Expected(d)
  BY DEF Expected
<1> QED BY <1>1 DEF Progress, Unserved, Forked, Parsing, OwnSocket, Running, Ended, Over

(* The server's handlers. *)

LEMMA AcceptKeeps ==
  ASSUME HttpInv, NEW c \in Connections, Accept(c) PROVE HttpInv'
<1> USE DEF Accept, server, browser, process
<1>1. Types'
  BY DEF HttpInv, Types
<1>2. Progress(c)'
  BY DEF HttpInv, Types, Progress, Unserved, Forked, Parsing, OwnSocket, Running, Ended, Over,
         Closed, Expected
<1>3. ASSUME NEW d \in Connections, d # c PROVE Progress(d)'
  BY <1>3, Untouched DEF HttpInv, Types, Closed
<1> QED BY <1>1, <1>2, <1>3 DEF HttpInv

(* The new process inherits the open sockets: its own is one of them, and    *)
(* one that the server has already closed is not.                            *)
LEMMA ForkKeeps ==
  ASSUME HttpInv, NEW c \in Connections, Fork(c) PROVE HttpInv'
<1> USE DEF Fork, Requested, Inherits, Kept, AfterFork, browser
<1>1. Types'
  BY DEF HttpInv, Types, Open, Blank, Value
<1>2. c \in Inherits(c) /\ child[c] = "none"
  BY DEF HttpInv, Types, Progress, Forked, Open
<1>3. Progress(c)'
  BY <1>2 DEF HttpInv, Types, Progress, Unserved, Forked, Parsing, OwnSocket, Running, Ended,
              Over, Closed, Expected
<1>4. ASSUME NEW d \in Connections, d # c PROVE Progress(d)'
  BY <1>4, Untouched DEF HttpInv, Types, Closed, Open
<1> QED BY <1>1, <1>3, <1>4 DEF HttpInv

LEMMA ClosesKeeps ==
  ASSUME HttpInv, NEW c \in Connections, ForkFails(c) \/ ReadError(c) PROVE HttpInv'
<1> USE DEF ForkFails, ReadError, Requested, AfterFork, browser, process
<1>1. Types'
  BY DEF HttpInv, Types
<1>2. Progress(c)'
  BY DEF HttpInv, Types, Progress, Unserved, Forked, Parsing, OwnSocket, Running, Ended, Over,
         Closed, Expected
<1>3. ASSUME NEW d \in Connections, d # c PROVE Progress(d)'
  BY <1>3, Untouched DEF HttpInv, Types, Closed
<1> QED BY <1>1, <1>2, <1>3 DEF HttpInv

-----------------------------------------------------------------------------
(* The process of a connection. *)

(* The whole response is still to be written when the program starts.        *)
LEMMA ExecKeeps ==
  ASSUME HttpInv, NEW c \in Connections, Exec(c) PROVE HttpInv'
<1> USE DEF Exec, server, browser
<1>1. /\ request[c] \in Requests /\ env[c] = Blank
      /\ seen[c] = <<>> /\ down[c] = <<>> /\ c \in holds[c] /\ at[c] = "served"
  BY DEF HttpInv, Types, Progress, Forked, Parsing, OwnSocket
<1>2. /\ env'[c] = Parsed(Blank, request[c])
      /\ env'[c] \in [CGI_NAME : Value, QUERY_STRING : Value]
      /\ Response(env'[c]) = Expected(c)
  <2>1. env'[c] = Parsed(Blank, request[c])
    BY <1>1 DEF HttpInv, Types
  <2> QED BY <1>1, <2>1, BlankParsed DEF Expected
<1>3. Expected(c) \in Seq(Text)
  BY ExpectedText DEF HttpInv
<1>4. left'[c] = Expected(c) /\ child'[c] = "run"
  BY <1>2 DEF HttpInv, Types
<1>5. Types'
  <2>1. left' = [left EXCEPT ![c] = Expected(c)]
    BY <1>2
  <2>2. env' = [env EXCEPT ![c] = env'[c]]
    BY DEF HttpInv, Types
  <2> QED BY <1>2, <1>3, <2>1, <2>2 DEF HttpInv, Types
<1>6. Expected(c)' = Expected(c)
  BY DEF Expected
<1>7. Stream(seen[c], down[c], Expected(c)) = Expected(c)
  BY <1>1, <1>3 DEF Stream
<1>8. Progress(c)'
  BY <1>1, <1>2, <1>4, <1>6, <1>7
     DEF HttpInv, Progress, Unserved, Forked, Parsing, OwnSocket, Running, Ended, Over, Closed
<1>9. ASSUME NEW d \in Connections, d # c PROVE Progress(d)'
  BY <1>9, Untouched DEF HttpInv, Types, Closed
<1> QED BY <1>5, <1>8, <1>9 DEF HttpInv

(* A process that dies has said nothing.                                     *)
LEMMA DiesKeeps ==
  ASSUME HttpInv, NEW c \in Connections, Dies(c) PROVE HttpInv'
<1> USE DEF Dies, Ends, server, browser
<1>1. Types'
  BY EmptySeq DEF HttpInv, Types
<1>2. Progress(c)'
  BY DEF HttpInv, Types, Progress, Unserved, Forked, Parsing, OwnSocket, Running, Ended, Over,
         Closed, Expected
<1>3. ASSUME NEW d \in Connections, d # c PROVE Progress(d)'
  BY <1>3, Untouched DEF HttpInv, Types, Closed
<1> QED BY <1>1, <1>2, <1>3 DEF HttpInv

(* What is written moves from the program's end of the stream to the socket. *)
LEMMA WriteKeeps ==
  ASSUME HttpInv, NEW c \in Connections, Write(c) PROVE HttpInv'
<1> USE DEF Write, server, browser
<1> DEFINE s == seen[c]
           t == down[c]
           u == left[c]
<1>1. s \in Seq(Text) /\ t \in Seq(Text) /\ u \in Seq(Text) /\ u # <<>>
  BY DEF HttpInv, Types
<1>2. /\ Append(t, Head(u)) \o Tail(u) = t \o u
      /\ Append(t, Head(u)) \in Seq(Text) /\ Tail(u) \in Seq(Text)
  BY <1>1, PassOn
<1>3. /\ down'[c] = Append(t, Head(u)) /\ left'[c] = Tail(u)
      /\ seen'[c] = s /\ child'[c] = "run"
  BY DEF HttpInv, Types
<1>4. Types'
  BY <1>2 DEF HttpInv, Types
<1>5. Stream(s, t, u) = Expected(c)
  BY DEF HttpInv, Progress, Running
<1>6. Stream(s, Append(t, Head(u)), Tail(u)) = Expected(c)
  BY <1>1, <1>5, WritesOn DEF HttpInv
<1>7. Expected(c)' = Expected(c)
  BY DEF Expected
<1>8. c \in holds[c]
  BY DEF HttpInv, Progress, OwnSocket
<1>9. Progress(c)'
  <2> HIDE DEF s, t, u
  <2>1. Stream(seen'[c], down'[c], left'[c]) = Expected(c)'
    BY <1>3, <1>6, <1>7
  <2> QED BY <1>3, <1>7, <1>8, <2>1
     DEF HttpInv, Progress, Unserved, Forked, Parsing, OwnSocket, Running, Ended, Over, Closed, s
<1>10. ASSUME NEW d \in Connections, d # c PROVE Progress(d)'
  BY <1>10, Untouched DEF HttpInv, Types, Closed
<1> QED BY <1>4, <1>9, <1>10 DEF HttpInv

(* A program whose browser is there ends with nothing left to write.         *)
LEMMA FinishKeeps ==
  ASSUME HttpInv, NEW c \in Connections, Finish(c) PROVE HttpInv'
<1> USE DEF Finish, Ends, server, browser
<1>1. Types'
  BY EmptySeq DEF HttpInv, Types
<1>2. c \notin gone => seen[c] \o down[c] = Expected(c)
  <2>1. seen[c] \in Seq(Text) /\ down[c] \in Seq(Text) /\ seen[c] \o down[c] \in Seq(Text)
    BY ConcatProperties DEF HttpInv, Types
  <2>2. (seen[c] \o down[c]) \o <<>> = seen[c] \o down[c]
    BY <2>1
  <2> QED BY <2>2 DEF HttpInv, Progress, Running, Stream
<1>3. Progress(c)'
  BY <1>2
     DEF HttpInv, Types, Progress, Unserved, Forked, Parsing, OwnSocket, Running, Ended, Over,
         Closed, Expected
<1>4. ASSUME NEW d \in Connections, d # c PROVE Progress(d)'
  BY <1>4, Untouched DEF HttpInv, Types, Closed
<1> QED BY <1>1, <1>3, <1>4 DEF HttpInv

-----------------------------------------------------------------------------
(* The browsers. *)

LEMMA ConnectKeeps ==
  ASSUME HttpInv, NEW c \in Connections, Connect(c) PROVE HttpInv'
<1> USE DEF Connect, browser, process
<1>1. Types'
  BY DEF HttpInv, Types
<1>2. Progress(c)'
  BY DEF HttpInv, Types, Progress, Unserved, Forked, Parsing, OwnSocket, Running, Ended, Over,
         Closed, Expected
<1>3. ASSUME NEW d \in Connections, d # c PROVE Progress(d)'
  BY <1>3, Untouched DEF HttpInv, Types, Closed
<1> QED BY <1>1, <1>2, <1>3 DEF HttpInv

(* A request comes before there is a process, and nothing has been said.     *)
LEMMA AskKeeps ==
  ASSUME HttpInv, NEW c \in Connections, Ask(c) PROVE HttpInv'
<1> USE DEF Ask, server, process
<1>1. Types'
  BY DEF HttpInv, Types
<1>2. child[c] = "none" /\ seen'[c] = <<>>
  BY DEF HttpInv, Types, Progress, Forked, Unserved
<1>3. Expected(c)' \in Seq(Text)
  <2>1. Types' => Expected(c)' \in Seq(Text)
    <3>1. (Types => Expected(c) \in Seq(Text))'
      BY ExpectedText, PTL
    <3> QED BY <3>1
  <2> QED BY <1>1, <2>1
<1>4. IsPrefix(seen[c], Expected(c))'
  <2>1. IsPrefix(<<>>, Expected(c)')
    BY <1>3, EmptySeq, PrefixFacts
  <2> QED BY <1>2, <2>1
<1>5. Progress(c)'
  BY <1>2, <1>4
     DEF HttpInv, Types, Progress, Unserved, Forked, Parsing, OwnSocket, Running, Ended, Over, Closed
<1>6. ASSUME NEW d \in Connections, d # c PROVE Progress(d)'
  BY <1>6, Untouched DEF HttpInv, Types, Closed
<1> QED BY <1>1, <1>5, <1>6 DEF HttpInv

LEMMA LeaveKeeps ==
  ASSUME HttpInv, NEW c \in Connections, Leave(c) PROVE HttpInv'
<1> USE DEF Leave, server, process
<1>1. Types'
  BY EmptySeq DEF HttpInv, Types
<1>2. Progress(c)'
  BY DEF HttpInv, Types, Progress, Unserved, Forked, Parsing, OwnSocket, Running, Ended, Over,
         Closed, Expected
<1>3. ASSUME NEW d \in Connections, d # c PROVE Progress(d)'
  BY <1>3, Untouched DEF HttpInv, Types, Closed
<1> QED BY <1>1, <1>2, <1>3 DEF HttpInv

(* What a browser reads moves from the socket to what it has seen, and the   *)
(* two of them start with the expected response or are it.                   *)
LEMMA ReceiveKeeps ==
  ASSUME HttpInv, NEW c \in Connections, Receive(c) PROVE HttpInv'
<1> USE DEF Receive, server, process
<1> DEFINE s == seen[c]
           t == down[c]
           u == left[c]
           s1 == Append(s, Head(t))
           t1 == Tail(t)
<1>1. s \in Seq(Text) /\ t \in Seq(Text) /\ u \in Seq(Text) /\ t # <<>>
  BY DEF HttpInv, Types
<1>2. s1 \o t1 = s \o t /\ s1 \in Seq(Text) /\ t1 \in Seq(Text)
  BY <1>1, PassOn
<1>3. seen'[c] = s1 /\ down'[c] = t1 /\ c \notin gone
  BY DEF HttpInv, Types
<1>4. Types'
  BY <1>2 DEF HttpInv, Types
<1>5. /\ child[c] \in {"run", "ended"} /\ ending[c] = "none"
      /\ child[c] = "ended" => request[c].size # "torn"
  BY DEF HttpInv, Types, Progress, Unserved, Parsing, Ended, Over
<1>6. /\ child[c] = "run" => Stream(s, t, u) = Expected(c)
      /\ child[c] = "ended" => s \o t = Expected(c)
  BY <1>3, <1>5 DEF HttpInv, Progress, Running, Ended
<1>7. Expected(c)' = Expected(c)
  BY DEF Expected
<1> HIDE DEF s, t, u, s1, t1
<1>8. IsPrefix(s1, Expected(c))
  BY <1>1, <1>5, <1>6, ReadsOn DEF HttpInv, s, t, u, s1
<1>9. Progress(c)'
  <2>1. /\ child[c] = "run" => Stream(seen'[c], down'[c], left[c]) = Expected(c)
        /\ child[c] = "ended" => seen'[c] \o down'[c] = Expected(c)
    BY <1>2, <1>3, <1>6 DEF u, Stream
  <2> QED BY <1>3, <1>5, <1>7, <1>8, <2>1
     DEF HttpInv, Progress, Unserved, Forked, Parsing, OwnSocket, Running, Ended, Over, Closed
<1>10. ASSUME NEW d \in Connections, d # c PROVE Progress(d)'
  BY <1>10, Untouched DEF HttpInv, Types, Closed
<1> QED BY <1>4, <1>9, <1>10 DEF HttpInv

(* When a browser sees the end nobody has its socket, so nobody runs for it. *)
LEMMA SeeEndKeeps ==
  ASSUME HttpInv, NEW c \in Connections, SeeEnd(c) PROVE HttpInv'
<1> USE DEF SeeEnd, server, process
<1>1. Types'
  <2>1. CASE ending' = [ending EXCEPT ![c] = "eof"] /\ down' = down
    BY <2>1 DEF HttpInv, Types
  <2>2. CASE ending' = [ending EXCEPT ![c] = "reset"] /\ down' = [down EXCEPT ![c] = <<>>]
    BY <2>2, EmptySeq DEF HttpInv, Types
  <2> QED BY <2>1, <2>2
<1>2. child[c] \in {"none", "ended"}
  BY DEF HttpInv, Types, Progress, OwnSocket, Closed
<1>3. \/ down'[c] = down[c] /\ ending'[c] = "eof" /\ down[c] = <<>>
      \/ down'[c] = <<>> /\ ending'[c] = "reset"
  BY DEF HttpInv, Types
<1>4. Expected(c)' = Expected(c)
  BY DEF Expected
<1>5. Progress(c)'
  BY <1>2, <1>3, <1>4
     DEF HttpInv, Types, Progress, Unserved, Forked, Parsing, OwnSocket, Running, Ended, Over, Closed
<1>6. ASSUME NEW d \in Connections, d # c PROVE Progress(d)'
  BY <1>6, Untouched DEF HttpInv, Types, Closed
<1> QED BY <1>1, <1>5, <1>6 DEF HttpInv

-----------------------------------------------------------------------------
LEMMA HttpInit == Init => HttpInv
<1> SUFFICES ASSUME Init PROVE HttpInv
  OBVIOUS
<1>1. Types
  BY EmptySeq DEF Init, Types, Blank, Value
<1>2. ASSUME NEW c \in Connections PROVE Progress(c)
  <2>1. Expected(c) \in Seq(Text)
    BY <1>1, ExpectedText
  <2>2. IsPrefix(<<>>, Expected(c))
    BY <2>1, EmptySeq, PrefixFacts
  <2> QED BY <2>2
     DEF Init, Progress, Unserved, Forked, Parsing, OwnSocket, Running, Ended, Over
<1> QED BY <1>1, <1>2 DEF HttpInv

LEMMA HttpStep == HttpInv /\ [Next]_vars => HttpInv'
<1> SUFFICES ASSUME HttpInv, [Next]_vars PROVE HttpInv'
  OBVIOUS
<1>1. ASSUME NEW c \in Connections, Server(c) PROVE HttpInv'
  BY <1>1, AcceptKeeps, ForkKeeps, ClosesKeeps DEF Server
<1>2. ASSUME NEW c \in Connections, Program(c) PROVE HttpInv'
  BY <1>2, ExecKeeps, DiesKeeps, WriteKeeps, FinishKeeps DEF Program
<1>3. ASSUME NEW c \in Connections, Browser(c) PROVE HttpInv'
  BY <1>3, ReceiveKeeps, SeeEndKeeps DEF Browser
<1>4. ASSUME NEW c \in Connections, Connect(c) \/ Ask(c) \/ Leave(c) PROVE HttpInv'
  BY <1>4, ConnectKeeps, AskKeeps, LeaveKeeps
<1>5. CASE UNCHANGED vars
  BY <1>5 DEF vars, server, browser, process, HttpInv, Types, Progress, Unserved, Forked, Parsing,
              OwnSocket, Running, Ended, Over, Closed, Expected
<1> QED BY <1>1, <1>2, <1>3, <1>4, <1>5 DEF Next

LEMMA HttpInvariant == Spec => []HttpInv
BY HttpInit, HttpStep, PTL DEF Spec

(* Every connection, request and process is in one of the states the code    *)
(* puts it in, and what runs has a name: an environment without CGI_NAME is  *)
(* never executed.                                                           *)
THEOREM TypesCorrect == Spec => []TypeOK
<1>1. HttpInv => TypeOK
  <2> SUFFICES ASSUME HttpInv, NEW c \in Connections, child[c] = "run"
               PROVE  env[c].CGI_NAME # Unset
    BY DEF HttpInv, Types, TypeOK
  <2>1. request[c] \in Requests /\ env[c] = Parsed(Blank, request[c])
    BY DEF HttpInv, Types, Progress, Forked, Running
  <2> QED BY <2>1, BlankParsed
<1> QED BY <1>1, HttpInvariant, PTL

(* A browser only ever sees the answer to its own request, from its start:   *)
(* nothing of another connection's, and nothing an earlier request has left  *)
(* in an environment that one server hands to all its processes.             *)
THEOREM OwnAnswerCorrect == Spec => []OwnAnswer
<1>1. HttpInv => OwnAnswer
  BY DEF HttpInv, Progress, OwnAnswer
<1> QED BY <1>1, HttpInvariant, PTL

(* End of file, of a connection that had a process and a request with all    *)
(* that parse_header() wants, means that the whole response was seen.        *)
THEOREM EofIsCompleteCorrect == Spec => []EofIsComplete
<1>1. HttpInv => EofIsComplete
  <2> SUFFICES ASSUME HttpInv, NEW c \in Connections, ending[c] = "eof", child[c] # "none",
                      request[c].size # "torn"
               PROVE  seen[c] = Expected(c)
    BY DEF EofIsComplete
  <2>1. child[c] = "ended" /\ down[c] = <<>> /\ c \notin gone
    BY DEF HttpInv, Types, Progress, OwnSocket, Over, Closed
  <2>2. seen[c] \o down[c] = Expected(c)
    BY <2>1 DEF HttpInv, Progress, Ended
  <2>3. seen[c] \in Seq(Text)
    BY DEF HttpInv, Types
  <2> QED BY <2>1, <2>2, <2>3
<1> QED BY <1>1, HttpInvariant, PTL
=============================================================================
