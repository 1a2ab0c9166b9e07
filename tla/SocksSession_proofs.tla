------------------------ MODULE SocksSession_proofs ------------------------
(***************************************************************************)
(* A session relays faithfully and grants only what it may, for every      *)
(* capacity of the streams, size of the buffers and amount of data.        *)
(*                                                                         *)
(* The argument follows the stream to a peer: what the peer has received,  *)
(* what is on its way to it, what the running handler has yet to write,    *)
(* and what waits to be read.  While the session relays, reading, writing  *)
(* and receiving only move data along this stream, and sending adds to its *)
(* end; when the session ends the stream is cut, and only where input was  *)
(* left unread.                                                            *)
(***************************************************************************)
EXTENDS SocksSession, DataFacts

Data == Piece \cup Codes

(* Nothing but replies before the relay. *)
Quiet ==
  /\ reading = {} /\ writing = Nobody /\ peer["serv"] = "absent"
  /\ got["serv"] = <<>> /\ out["serv"] = <<>>
  /\ \A s \in Sides : data[s] = <<>> /\ in[s] = <<>> /\ sent[s] = 0

Unanswered == pc \in {"request", "resolve", "connect"} =>
  /\ Quiet /\ got["cli"] = <<>> /\ out["cli"] = <<>>
  /\ pc # "request" => req.CD = 1

Accepting == pc = "accept" =>
  /\ Quiet /\ req.CD = 2 /\ 2 \in rules
  /\ IsPrefix(Arrived("cli"), <<90>>)
  /\ Receiving("cli") => Arrived("cli") = <<90>>

(* What s sends is carried to the other side. *)
Begun(s) == IsPrefix(Arrived(Other(s)), Before(Other(s)) \o AllOf(s))

Carries(s) ==
  /\ Begun(s)
  /\ Receiving(Other(s)) => Flow(s) = Before(Other(s)) \o AllOf(s)

Permitted == req # NoReq /\ req.CD \in rules /\ peer["serv"] # "absent"

Relays == pc = "relay" =>
  /\ Permitted /\ writing \notin reading
  /\ \A s \in Sides : (data[s] # <<>> <=> writing = s) /\ Carries(s)

(* A session that ended before it could relay. *)
Refused ==
  /\ got["serv"] = <<>> /\ out["serv"] = <<>> /\ peer["serv"] # "shut"
  /\ \A s \in Sides : sent[s] = 0
  /\ \/ IsPrefix(Arrived("cli"), <<91, 91>>)
     \/ req.CD = 2 /\ 2 \in rules /\ IsPrefix(Arrived("cli"), <<90, 91>>)

(* One that has relayed. *)
Complete(s) == Arrived(Other(s)) = Before(Other(s)) \o AllOf(s)

Served ==
  /\ Permitted
  /\ \A s \in Sides :
       /\ Begun(s)
       /\ peer[s] = "shut" /\ peer[Other(s)] = "open" /\ in[Other(s)] = <<>> => Complete(s)

Ended == pc = "exited" => reading = {} /\ writing = Nobody /\ (Refused \/ Served)

SocksInv == TypeOK /\ Unanswered /\ Accepting /\ Relays /\ Ended

-----------------------------------------------------------------------------
(* What the operators give. *)

LEMMA TwoSides ==
  /\ Sides = {"cli", "serv"} /\ "cli" # "serv"
  /\ Other("cli") = "serv" /\ Other("serv") = "cli"
  /\ \A s \in Sides : Other(s) \in Sides /\ Other(s) # s /\ Other(Other(s)) = s
BY DEF Sides, Other

(* Codes are not data. *)
LEMMA CodesAreNotData == Piece \cap Codes = {} /\ Codes \subseteq Data /\ Piece \subseteq Data
BY SocksAssumption DEF Piece, Codes, Data

LEMMA GrantsText ==
  ASSUME TypeOK
  PROVE  /\ req.CD \in 0 .. 2 /\ Grants \in Seq(Data) /\ Len(Grants) = req.CD
         /\ req # NoReq => req.CD \in 1 .. 2
         /\ req.CD = 1 => Grants = <<90>>
         /\ req.CD = 2 => Grants = <<90, 90>>
<1>1. req \in Requests \cup {NoReq}
  BY DEF TypeOK
<1>2. req.CD \in 0 .. 2 /\ (req # NoReq => req.CD \in 1 .. 2)
  BY <1>1, SocksAssumption DEF Request, NoReq
<1>3. 90 \in Data
  BY DEF Data, Codes
<1>4. Grants \in Seq(Data) /\ Len(Grants) = req.CD /\ \A k \in 1 .. req.CD : Grants[k] = 90
  BY <1>2, <1>3 DEF Grants
<1>5. <<90>> \in Seq(Data) /\ <<90, 90>> \in Seq(Data)
  BY <1>3
<1> HIDE DEF Grants
<1>6. req.CD = 1 => Grants = <<90>>
  BY <1>4, <1>5, SeqEqual
<1>7. req.CD = 2 => Grants = <<90, 90>>
  BY <1>4, <1>5, SeqEqual
<1> QED BY <1>2, <1>4, <1>6, <1>7

LEMMA StreamText ==
  ASSUME TypeOK, NEW s \in Sides
  PROVE  /\ got[s] \in Seq(Data) /\ out[s] \in Seq(Data)
         /\ data[s] \in Seq(Data) /\ in[s] \in Seq(Data)
         /\ AllOf(s) \in Seq(Data) /\ Before(s) \in Seq(Data) /\ Arrived(s) \in Seq(Data)
         /\ sent[s] \in Nat
         /\ sent[s] = 0 => AllOf(s) = <<>>
<1>1. got[s] \in Seq(Data) /\ out[s] \in Seq(Data)
  BY DEF TypeOK, Data
<1>2. data[s] \in Seq(Piece) /\ in[s] \in Seq(Piece)
  BY DEF TypeOK
<1>3. data[s] \in Seq(Data) /\ in[s] \in Seq(Data)
  BY <1>2, CodesAreNotData
<1>4. sent[s] \in 0 .. MaxData /\ MaxData \in Nat
  BY SocksAssumption DEF TypeOK
<1>5. \A k \in 1 .. sent[s] : k \in Data
  BY <1>4 DEF Data, Piece
<1>6. AllOf(s) \in Seq(Data)
  BY <1>4, <1>5 DEF AllOf
<1>7. sent[s] = 0 => AllOf(s) = <<>>
  BY <1>4 DEF AllOf
<1>8. Before(s) \in Seq(Data)
  BY GrantsText, EmptySeq DEF Before
<1>9. Arrived(s) \in Seq(Data)
  BY <1>1 DEF Arrived
<1> QED BY <1>1, <1>3, <1>4, <1>6, <1>7, <1>8, <1>9

LEMMA StreamTextNext ==
  ASSUME TypeOK', NEW s \in Sides
  PROVE  /\ Arrived(s)' \in Seq(Data) /\ data'[s] \in Seq(Data) /\ in'[s] \in Seq(Data)
         /\ AllOf(s)' \in Seq(Data) /\ Before(s)' \in Seq(Data)
<1>1. (TypeOK => /\ Arrived(s) \in Seq(Data) /\ data[s] \in Seq(Data) /\ in[s] \in Seq(Data)
                 /\ AllOf(s) \in Seq(Data) /\ Before(s) \in Seq(Data))'
  BY StreamText, PTL
<1> QED BY <1>1

(* Some streams of replies. *)
LEMMA ReplyText ==
  /\ <<90>> \in Seq(Data) /\ <<91>> \in Seq(Data) /\ <<>> \in Seq(Data)
  /\ <<90, 91>> \in Seq(Data) /\ <<91, 91>> \in Seq(Data) /\ <<90, 90>> \in Seq(Data)
  /\ IsPrefix(<<91>>, <<91, 91>>) /\ IsPrefix(<<90>>, <<90, 91>>)
  /\ IsPrefix(<<91, 91>>, <<91, 91>>) /\ IsPrefix(<<90, 91>>, <<90, 91>>)
  /\ IsPrefix(<<90>>, <<90>>)
  /\ IsPrefix(<<>>, <<91, 91>>) /\ IsPrefix(<<>>, <<90>>)
  /\ <<90>> \o <<91>> = <<90, 91>> /\ <<90>> \o <<90>> = <<90, 90>>
<1>1. 90 \in Data /\ 91 \in Data
  BY DEF Data, Codes
<1>2. /\ <<90>> \in Seq(Data) /\ <<91>> \in Seq(Data) /\ <<>> \in Seq(Data)
      /\ <<90, 91>> \in Seq(Data) /\ <<91, 91>> \in Seq(Data) /\ <<90, 90>> \in Seq(Data)
  BY <1>1
<1>3. /\ <<91>> \o <<91>> = <<91, 91>> /\ <<90>> \o <<91>> = <<90, 91>>
      /\ <<90>> \o <<90>> = <<90, 90>>
  <2>1. ASSUME NEW x \in Data, NEW y \in Data PROVE <<x>> \o <<y>> = <<x, y>>
    <3>1. /\ <<x>> \in Seq(Data) /\ Len(<<x>>) = 1 /\ <<x>>[1] = x
          /\ <<y>> \in Seq(Data) /\ Len(<<y>>) = 1 /\ <<y>>[1] = y
          /\ <<x, y>> \in Seq(Data) /\ Len(<<x, y>>) = 2
          /\ <<x, y>>[1] = x /\ <<x, y>>[2] = y
      OBVIOUS
    <3> QED BY <3>1, TwoOnes, Zenon
  <2> QED BY <1>1, <2>1
<1>4. IsPrefix(<<91>>, <<91>> \o <<91>>) /\ IsPrefix(<<90>>, <<90>> \o <<91>>)
  BY <1>2, PrefixFacts, Zenon
<1>5. /\ IsPrefix(<<91, 91>>, <<91, 91>>) /\ IsPrefix(<<90, 91>>, <<90, 91>>)
      /\ IsPrefix(<<90>>, <<90>>)
  BY <1>2, PrefixFacts, Zenon
<1>6. IsPrefix(<<>>, <<91, 91>>) /\ IsPrefix(<<>>, <<90>>)
  BY <1>2, PrefixFacts, Zenon
<1> QED BY <1>2, <1>3, <1>4, <1>5, <1>6

-----------------------------------------------------------------------------
(* The end of a session. *)

(* Closing cuts what is under way, and only where input was left unread.     *)
LEMMA LeaveCuts ==
  ASSUME TypeOK, NEW w \in [Sides -> Seq(Data)], Leave(w)
  PROVE  /\ pc' = "exited" /\ reading' = {} /\ writing' = Nobody /\ in' = in
         /\ data' = [s \in Sides |-> <<>>] /\ out' \in [Sides -> Seq(Data)]
         /\ \A s \in Sides : /\ IsPrefix(got[s] \o out'[s], got[s] \o w[s])
                             /\ in[s] = <<>> => out'[s] = w[s]
<1>1. PICK cut \in [Sides -> 0 .. Capacity + 2] :
        /\ \A s \in Sides : IF in[s] = <<>> THEN cut[s] = Len(w[s]) ELSE cut[s] <= Len(w[s])
        /\ out' = [s \in Sides |-> SubSeq(w[s], 1, cut[s])]
  BY DEF Leave
<1>2. ASSUME NEW s \in Sides
      PROVE  /\ cut[s] \in 0 .. Len(w[s]) /\ out'[s] = SubSeq(w[s], 1, cut[s])
             /\ in[s] = <<>> => out'[s] = w[s]
  <2>1. w[s] \in Seq(Data) /\ Len(w[s]) \in Nat /\ cut[s] \in Nat
    BY SocksAssumption
  <2>2. cut[s] \in 0 .. Len(w[s]) /\ out'[s] = SubSeq(w[s], 1, cut[s])
    BY <1>1, <2>1
  <2>3. SubSeq(w[s], 1, Len(w[s])) = w[s]
    BY <2>1
  <2> QED BY <1>1, <2>2, <2>3
<1>3. ASSUME NEW s \in Sides
      PROVE  /\ out'[s] \in Seq(Data) /\ IsPrefix(got[s] \o out'[s], got[s] \o w[s])
  <2>1. got[s] \in Seq(Data) /\ w[s] \in Seq(Data)
    BY StreamText
  <2>2. PICK r \in Seq(Data), u \in Seq(Data) : r = got[s] /\ u = w[s]
    BY <2>1
  <2>3. PICK n \in 0 .. Len(u) : n = cut[s]
    BY <1>2, <2>2
  <2>4. SubSeq(u, 1, n) \in Seq(Data) /\ IsPrefix(r \o SubSeq(u, 1, n), r \o u)
    BY CutPrefix
  <2> QED BY <1>2, <2>2, <2>3, <2>4
<1>4. out' \in [Sides -> Seq(Data)]
  BY <1>1, <1>3
<1> QED BY <1>2, <1>3, <1>4 DEF Leave

(* A session without a relay ends with replies only.                         *)
LEMMA RefusalKeeps ==
  ASSUME SocksInv, Quiet, NEW w \in [Sides -> Seq(Data)], Leave(w), w["serv"] = <<>>,
         \/ IsPrefix(got["cli"] \o w["cli"], <<91, 91>>)
         \/ req.CD = 2 /\ 2 \in rules /\ IsPrefix(got["cli"] \o w["cli"], <<90, 91>>),
         req' = req, rules' = rules, sent' = sent, got' = got,
         peer' \in [Sides -> {"absent", "open", "shut", "closed"}],
         peer'["serv"] \in {"absent", "open"}
  PROVE  SocksInv'
<1>1. TypeOK
  BY DEF SocksInv
<1>2. /\ pc' = "exited" /\ reading' = {} /\ writing' = Nobody /\ in' = in
      /\ data' = [s \in Sides |-> <<>>] /\ out' \in [Sides -> Seq(Data)]
      /\ \A s \in Sides : /\ IsPrefix(got[s] \o out'[s], got[s] \o w[s])
                          /\ in[s] = <<>> => out'[s] = w[s]
  BY <1>1, LeaveCuts
<1>3. TypeOK'
  BY <1>1, <1>2, EmptySeq DEF TypeOK, Data
<1>4. out'["serv"] = <<>>
  BY <1>2 DEF Quiet, Sides
<1>5. /\ got["cli"] \o out'["cli"] \in Seq(Data) /\ got["cli"] \o w["cli"] \in Seq(Data)
      /\ IsPrefix(got["cli"] \o out'["cli"], got["cli"] \o w["cli"])
  <2>1. "cli" \in Sides
    BY DEF Sides
  <2>2. got["cli"] \in Seq(Data) /\ out'["cli"] \in Seq(Data) /\ w["cli"] \in Seq(Data)
    BY <1>1, <1>2, <2>1, StreamText
  <2> QED BY <1>2, <2>1, <2>2
<1>6. Refused'
  <2>1. ASSUME NEW t \in Seq(Data), IsPrefix(got["cli"] \o w["cli"], t)
        PROVE  IsPrefix(got["cli"] \o out'["cli"], t)
    BY <1>5, <2>1, PrefixTransitive
  <2>2. \/ IsPrefix(got["cli"] \o out'["cli"], <<91, 91>>)
        \/ req.CD = 2 /\ 2 \in rules /\ IsPrefix(got["cli"] \o out'["cli"], <<90, 91>>)
    BY <2>1, ReplyText
  <2> QED BY <1>4, <2>2 DEF Refused, Quiet, Arrived
<1> QED BY <1>2, <1>3, <1>6 DEF SocksInv, Unanswered, Accepting, Relays, Ended

-----------------------------------------------------------------------------
(* Before the relay. *)

(* A reply to a client that has got nothing yet.                             *)
LEMMA RepliedText ==
  ASSUME TypeOK, NEW codes \in Seq(Data)
  PROVE  /\ Replied(codes) \in [Sides -> Seq(Data)] /\ Replied(codes)["serv"] = out["serv"]
         /\ Receiving("cli") => Replied(codes)["cli"] = out["cli"] \o codes
         /\ ~Receiving("cli") => Replied(codes) = out
<1>1. "cli" \in Sides /\ "serv" \in Sides /\ "cli" # "serv"
  BY DEF Sides
<1>2. out \in [Sides -> Seq(Data)]
  BY DEF TypeOK, Data
<1>3. out["cli"] \o codes \in Seq(Data)
  <2>1. PICK r \in Seq(Data) : r = out["cli"]
    BY <1>1, <1>2
  <2>2. r \o codes \in Seq(Data)
    OBVIOUS
  <2> QED BY <2>1, <2>2
<1> QED BY <1>1, <1>2, <1>3 DEF Replied

LEMMA NothingBefore ==
  ASSUME TypeOK, got["cli"] = <<>>, out["cli"] = <<>>, NEW codes \in Seq(Data)
  PROVE  /\ got["cli"] \o out["cli"] = <<>> /\ Arrived("cli") = <<>>
         /\ Receiving("cli") => /\ Replied(codes)["cli"] = codes
                                /\ got["cli"] \o Replied(codes)["cli"] = codes
         /\ ~Receiving("cli") => got["cli"] \o Replied(codes)["cli"] = <<>>
<1>1. <<>> \o codes = codes /\ <<>> \o <<>> = <<>>
  OBVIOUS
<1> QED BY <1>1, RepliedText DEF Arrived

Rejections == {<<91>>, <<91, 91>>}

(* A request that is not served.                                             *)
LEMMA UnansweredEnds ==
  ASSUME SocksInv, pc \in {"request", "resolve", "connect"}, pc' = "exited",
         \/ BadVersion \/ NoRequest \/ RefuseBind \/ do_bind \/ ResolveFails \/ ConnectFails
         \/ Connected
  PROVE  SocksInv'
<1>1. TypeOK /\ Quiet /\ got["cli"] = <<>> /\ out["cli"] = <<>>
  BY DEF SocksInv, Unanswered
<1>2. /\ out \in [Sides -> Seq(Data)] /\ out["serv"] = <<>>
      /\ IsPrefix(got["cli"] \o out["cli"], <<91, 91>>)
  BY <1>1, NothingBefore, ReplyText DEF Quiet, TypeOK, Data
<1>3. ASSUME NEW codes \in Rejections
      PROVE  /\ Replied(codes) \in [Sides -> Seq(Data)] /\ Replied(codes)["serv"] = <<>>
             /\ IsPrefix(got["cli"] \o Replied(codes)["cli"], <<91, 91>>)
  <2>1. codes \in Seq(Data) /\ IsPrefix(codes, <<91, 91>>) /\ IsPrefix(<<>>, <<91, 91>>)
    BY ReplyText DEF Rejections
  <2>2. /\ Replied(codes) \in [Sides -> Seq(Data)] /\ Replied(codes)["serv"] = <<>>
    BY <1>1, <1>2, <2>1, RepliedText
  <2>3. got["cli"] \o Replied(codes)["cli"] \in {codes, <<>>}
    BY <1>1, <2>1, NothingBefore
  <2> QED BY <2>1, <2>2, <2>3
<1>4. /\ Leave(out) \/ Leave(Replied(<<91>>)) \/ Leave(Replied(<<91, 91>>))
      /\ req' = req /\ rules' = rules /\ sent' = sent /\ got' = got
      /\ peer' \in [Sides -> {"absent", "open", "shut", "closed"}]
      /\ peer'["serv"] \in {"absent", "open"}
  <2>1. peer \in [Sides -> {"absent", "open", "shut", "closed"}] /\ peer["serv"] = "absent"
        /\ "serv" \in Sides
    BY <1>1 DEF TypeOK, Quiet, Sides
  <2> QED BY <2>1 DEF BadVersion, NoRequest, RefuseBind, do_bind, ResolveFails, ConnectFails,
                      Connected, Connects, Relay
<1>5. CASE Leave(out)
  BY <1>1, <1>2, <1>4, <1>5, RefusalKeeps
<1>6. CASE Leave(Replied(<<91>>))
  BY <1>1, <1>3, <1>4, <1>6, RefusalKeeps DEF Rejections
<1>7. CASE Leave(Replied(<<91, 91>>))
  BY <1>1, <1>3, <1>4, <1>7, RefusalKeeps DEF Rejections
<1> QED BY <1>4, <1>5, <1>6, <1>7

(* The client of a BIND has been granted a port, and waits.                  *)
LEMMA AcceptingEnds ==
  ASSUME SocksInv, AcceptFails \/ Accepted, pc' = "exited"
  PROVE  SocksInv'
<1>0. pc = "accept"
  BY DEF AcceptFails, Accepted
<1>1. /\ TypeOK /\ Quiet /\ req.CD = 2 /\ 2 \in rules
      /\ IsPrefix(got["cli"] \o out["cli"], <<90>>)
      /\ Receiving("cli") => got["cli"] \o out["cli"] = <<90>>
  BY <1>0 DEF SocksInv, Accepting, Arrived
<1>2. got["cli"] \in Seq(Data) /\ out["cli"] \in Seq(Data) /\ got["cli"] \o out["cli"] \in Seq(Data)
  <2>1. "cli" \in Sides
    BY DEF Sides
  <2>2. got["cli"] \in Seq(Data) /\ out["cli"] \in Seq(Data)
    BY <1>1, <2>1, StreamText
  <2> QED BY <2>2
<1>3. IsPrefix(got["cli"] \o out["cli"], <<90, 91>>)
  BY <1>1, <1>2, ReplyText, PrefixTransitive
<1>4. /\ out \in [Sides -> Seq(Data)] /\ out["serv"] = <<>>
  BY <1>1 DEF Quiet, TypeOK, Data
<1>5. /\ Replied(<<91>>) \in [Sides -> Seq(Data)] /\ Replied(<<91>>)["serv"] = <<>>
      /\ IsPrefix(got["cli"] \o Replied(<<91>>)["cli"], <<90, 91>>)
  <2>1. <<91>> \in Seq(Data) /\ <<90>> \o <<91>> = <<90, 91>>
    BY ReplyText
  <2>2. /\ Replied(<<91>>) \in [Sides -> Seq(Data)] /\ Replied(<<91>>)["serv"] = <<>>
    BY <1>1, <1>4, <2>1, RepliedText
  <2>3. CASE Receiving("cli")
    <3>1. Replied(<<91>>)["cli"] = out["cli"] \o <<91>>
      BY <1>1, <2>1, <2>3, RepliedText
    <3>2. got["cli"] \o (out["cli"] \o <<91>>) = (got["cli"] \o out["cli"]) \o <<91>>
      <4>1. PICK r \in Seq(Data), t \in Seq(Data), u \in Seq(Data) :
              r = got["cli"] /\ t = out["cli"] /\ u = <<91>>
        BY <1>2, <2>1
      <4>2. r \o (t \o u) = (r \o t) \o u
        OBVIOUS
      <4> QED BY <4>1, <4>2
    <3> QED BY <1>1, <2>1, <2>2, <2>3, <3>1, <3>2, ReplyText
  <2>4. CASE ~Receiving("cli")
    BY <1>1, <1>3, <2>1, <2>2, <2>4, RepliedText
  <2> QED BY <2>3, <2>4
<1>6. /\ Leave(out) \/ Leave(Replied(<<91>>))
      /\ req' = req /\ rules' = rules /\ sent' = sent /\ got' = got
      /\ peer' \in [Sides -> {"absent", "open", "shut", "closed"}]
      /\ peer'["serv"] \in {"absent", "open"}
  <2>1. peer \in [Sides -> {"absent", "open", "shut", "closed"}] /\ peer["serv"] = "absent"
        /\ "serv" \in Sides
    BY <1>1 DEF TypeOK, Quiet, Sides
  <2> QED BY <2>1 DEF AcceptFails, Accepted, Connects, Relay
<1>7. CASE Leave(out)
  BY <1>1, <1>3, <1>4, <1>6, <1>7, RefusalKeeps
<1>8. CASE Leave(Replied(<<91>>))
  BY <1>1, <1>5, <1>6, <1>8, RefusalKeeps
<1> QED BY <1>6, <1>7, <1>8

LEMMA OpeningKeeps ==
  ASSUME SocksInv, do_connect \/ Resolved \/ \E r \in Requests : SendRequest(r)
  PROVE  SocksInv'
<1>1. TypeOK'
  BY DEF SocksInv, TypeOK, do_connect, Resolved, SendRequest
<1>2. /\ pc \in {"request", "resolve"} /\ pc' \in {"request", "resolve", "connect"}
      /\ pc' # "request" => req'.CD = 1
      /\ UNCHANGED <<rules, reading, writing, data, in, out, peer, sent, got>>
  BY DEF SocksInv, Unanswered, do_connect, Resolved, SendRequest
<1>3. Unanswered'
  BY <1>2 DEF SocksInv, Unanswered, Quiet
<1> QED BY <1>1, <1>2, <1>3 DEF SocksInv, Accepting, Relays, Ended

LEMMA BindKeeps ==
  ASSUME SocksInv, do_bind, ~Leave(out)
  PROVE  SocksInv'
<1>1. /\ pc = "request" /\ req.CD = 2 /\ 2 \in rules
      /\ pc' = "accept" /\ out' = Replied(<<90>>)
      /\ UNCHANGED <<reading, writing, data, in, req, rules, peer, sent, got>>
  BY DEF do_bind, is_block, FirstReply
<1>2. TypeOK /\ Quiet /\ got["cli"] = <<>> /\ out["cli"] = <<>>
  BY <1>1 DEF SocksInv, Unanswered
<1>3. <<90>> \in Seq(Data)
  BY ReplyText
<1>4. out' \in [Sides -> Seq(Data)] /\ out'["serv"] = <<>>
  BY <1>1, <1>2, <1>3, RepliedText DEF Quiet
<1>5. TypeOK'
  BY <1>1, <1>2, <1>4 DEF TypeOK, Data
<1>6. /\ Receiving("cli") => got["cli"] \o out'["cli"] = <<90>>
      /\ ~Receiving("cli") => got["cli"] \o out'["cli"] = <<>>
  BY <1>1, <1>2, <1>3, NothingBefore
<1>7. Accepting'
  <2>1. /\ Quiet' /\ req'.CD = 2 /\ 2 \in rules'
    BY <1>1, <1>2, <1>4 DEF Quiet
  <2>2. Receiving("cli")' = Receiving("cli") /\ Arrived("cli")' = got["cli"] \o out'["cli"]
    BY <1>1 DEF Receiving, Arrived
  <2>3. IsPrefix(Arrived("cli")', <<90>>)
    BY <1>6, <2>2, ReplyText
  <2> QED BY <1>6, <2>1, <2>2, <2>3 DEF Accepting
<1> QED BY <1>1, <1>5, <1>7 DEF SocksInv, Unanswered, Relays, Ended

Granting == Replied(<<90>>)

(* The grants are all that either side has been sent when the relay starts.  *)
LEMMA RelayStarts ==
  ASSUME SocksInv, Quiet, Relay, out' = Granting, Connects, ~is_block, req # NoReq,
         UNCHANGED <<req, rules, sent, got>>,
         Receiving("cli") => got["cli"] \o Granting["cli"] = Grants,
         ~Receiving("cli") => IsPrefix(Arrived("cli"), Grants)
  PROVE  SocksInv'
<1>1. TypeOK
  BY DEF SocksInv
<1>2. /\ pc' = "relay" /\ reading' = Sides
      /\ UNCHANGED <<writing, data, in, req, rules, sent, got>>
      /\ writing = Nobody /\ got["serv"] = <<>> /\ out["serv"] = <<>>
      /\ \A s \in Sides : data[s] = <<>> /\ in[s] = <<>> /\ sent[s] = 0
  BY DEF Quiet, Relay, BothLoops
<1>3. /\ peer' \in [Sides -> {"absent", "open", "shut", "closed"}]
      /\ peer'["serv"] = "open" /\ peer'["cli"] = peer["cli"]
  BY <1>1, TwoSides DEF TypeOK, Connects
<1>4. out' \in [Sides -> Seq(Data)] /\ out'["serv"] = <<>> /\ (~Receiving("cli") => out' = out)
  BY <1>1, <1>2, ReplyText, RepliedText DEF Granting
<1>5. TypeOK'
  BY <1>1, <1>2, <1>3, <1>4 DEF TypeOK, Data
<1>6. Permitted'
  BY <1>2, <1>3 DEF Permitted, is_block
<1>7. /\ \A s \in Sides : AllOf(s)' = <<>> /\ Arrived(s)' \in Seq(Data)
      /\ Grants' = Grants /\ Before("cli")' = Grants /\ Before("serv")' = <<>>
      /\ Grants \in Seq(Data)
  <2>1. Grants' = Grants
    BY <1>2 DEF Grants
  <2>2. ASSUME NEW s \in Sides PROVE AllOf(s)' = <<>> /\ Arrived(s)' \in Seq(Data)
    <3>1. AllOf(s)' = <<>>
      BY <1>2 DEF AllOf
    <3>2. got'[s] \in Seq(Data) /\ out'[s] \in Seq(Data)
      BY <1>4, <1>5 DEF TypeOK, Data
    <3> QED BY <3>1, <3>2 DEF Arrived
  <2> QED BY <1>1, <2>1, <2>2, GrantsText, TwoSides DEF Before
<1>8. /\ IsPrefix(Arrived("cli")', Grants)
      /\ Receiving("cli")' => Arrived("cli")' = Grants
  <2>1. Receiving("cli")' = Receiving("cli")
    BY <1>3 DEF Receiving
  <2>2. CASE Receiving("cli")
    <3>1. Arrived("cli")' = Grants
      BY <1>2, <2>2 DEF Arrived
    <3> QED BY <1>7, <3>1, PrefixFacts
  <2>3. CASE ~Receiving("cli")
    <3>1. Arrived("cli")' = Arrived("cli")
      BY <1>2, <1>4, <2>3 DEF Arrived
    <3> QED BY <2>1, <2>3, <3>1
  <2> QED BY <2>2, <2>3
<1>9. Arrived("serv")' = <<>>
  BY <1>2, <1>4 DEF Arrived
<1>10. ASSUME NEW s \in Sides PROVE Carries(s)'
  <2>0. PICK a \in Seq(Data), b \in Seq(Data) : a = Arrived(Other(s))' /\ b = Before(Other(s))'
    BY <1>7, EmptySeq, TwoSides
  <2>1. Before(Other(s))' \o AllOf(s)' = Before(Other(s))'
    <3>1. b \o <<>> = b
      OBVIOUS
    <3> QED BY <1>7, <2>0, <3>1
  <2>2. Flow(s)' = Arrived(Other(s))'
    <3>1. (a \o <<>>) \o <<>> = a
      OBVIOUS
    <3>2. data'[s] = <<>> /\ in'[s] = <<>>
      BY <1>2
    <3> QED BY <2>0, <3>1, <3>2 DEF Flow
  <2>3. s = "cli" => /\ Other(s) = "serv" /\ Arrived("serv")' = Before("serv")'
                     /\ IsPrefix(Arrived("serv")', Before("serv")')
    BY <1>7, <1>9, EmptySeq, PrefixFacts, TwoSides
  <2>4. s = "serv" => /\ Other(s) = "cli" /\ IsPrefix(Arrived("cli")', Before("cli")')
                      /\ Receiving("cli")' => Arrived("cli")' = Before("cli")'
    BY <1>7, <1>8, TwoSides
  <2> QED BY <2>1, <2>2, <2>3, <2>4, TwoSides DEF Carries, Begun
<1>11. Relays'
  BY <1>2, <1>6, <1>10 DEF Relays, Nobody, Sides
<1> QED BY <1>2, <1>5, <1>11 DEF SocksInv, Unanswered, Accepting, Ended

LEMMA ConnectedKeeps ==
  ASSUME SocksInv, Connected PROVE SocksInv'
<1>1. pc = "connect"
  BY DEF Connected
<1>2. TypeOK /\ Quiet /\ got["cli"] = <<>> /\ out["cli"] = <<>> /\ req.CD = 1
  BY <1>1 DEF SocksInv, Unanswered
<1>3. CASE Leave(out) \/ Leave(Replied(<<91>>))
  <2>1. pc' = "exited"
    BY <1>3 DEF Leave
  <2> QED BY <1>1, <2>1, UnansweredEnds
<1>4. CASE Relay /\ out' = Replied(<<90>>) /\ ~is_block
  <2>1. req # NoReq /\ Grants = <<90>>
    BY <1>2, GrantsText DEF NoReq
  <2>2. /\ Receiving("cli") => got["cli"] \o Replied(<<90>>)["cli"] = Grants
        /\ IsPrefix(Arrived("cli"), Grants)
    BY <1>2, <2>1, ReplyText, NothingBefore
  <2> QED BY <1>2, <1>4, <2>1, <2>2, RelayStarts DEF Connected, Granting
<1> QED BY <1>3, <1>4 DEF Connected

LEMMA AcceptedKeeps ==
  ASSUME SocksInv, Accepted PROVE SocksInv'
<1>1. pc = "accept"
  BY DEF Accepted
<1>2. /\ TypeOK /\ Quiet /\ req.CD = 2 /\ 2 \in rules
      /\ IsPrefix(got["cli"] \o out["cli"], <<90>>)
      /\ Receiving("cli") => got["cli"] \o out["cli"] = <<90>>
  BY <1>1 DEF SocksInv, Accepting, Arrived
<1>3. CASE Leave(out)
  <2>1. pc' = "exited"
    BY <1>3 DEF Leave
  <2> QED BY <2>1, AcceptingEnds
<1>4. CASE Relay /\ out' = Replied(<<90>>)
  <2>1. req # NoReq /\ Grants = <<90, 90>> /\ ~is_block
    BY <1>2, GrantsText DEF NoReq, is_block
  <2>2. got["cli"] \in Seq(Data) /\ out["cli"] \in Seq(Data) /\ <<90>> \in Seq(Data)
    <3>1. "cli" \in Sides
      BY DEF Sides
    <3> QED BY <1>2, <3>1, StreamText, ReplyText
  <2>3. Receiving("cli") => got["cli"] \o Granting["cli"] = Grants
    <3> SUFFICES ASSUME Receiving("cli") PROVE got["cli"] \o Granting["cli"] = Grants
      OBVIOUS
    <3>1. Granting["cli"] = out["cli"] \o <<90>>
      BY <1>2, <2>2, RepliedText DEF Granting
    <3>2. got["cli"] \o (out["cli"] \o <<90>>) = (got["cli"] \o out["cli"]) \o <<90>>
      <4>1. PICK r \in Seq(Data), t \in Seq(Data), u \in Seq(Data) :
              r = got["cli"] /\ t = out["cli"] /\ u = <<90>>
        BY <2>2
      <4>2. r \o (t \o u) = (r \o t) \o u
        OBVIOUS
      <4> QED BY <4>1, <4>2
    <3> QED BY <1>2, <2>1, <3>1, <3>2, ReplyText
  <2>4. IsPrefix(Arrived("cli"), Grants)
    <3>1. IsPrefix(<<90>>, <<90>> \o <<90>>) /\ <<90, 90>> \in Seq(Data)
      BY <2>2, ReplyText, PrefixFacts, Zenon
    <3>2. IsPrefix(<<90>>, <<90, 90>>)
      BY <3>1, ReplyText
    <3>3. Arrived("cli") \in Seq(Data)
      BY <1>2, TwoSides, StreamText DEF Sides
    <3>4. IsPrefix(Arrived("cli"), <<90, 90>>)
      BY <1>2, <2>2, <3>1, <3>2, <3>3, PrefixTransitive DEF Arrived
    <3> QED BY <2>1, <3>4
  <2> QED BY <1>2, <1>4, <2>1, <2>3, <2>4, RelayStarts DEF Accepted, Granting
<1> QED BY <1>3, <1>4 DEF Accepted

-----------------------------------------------------------------------------
(* The relay. *)

(* Moving data along the stream from s keeps what the stream says.           *)
LEMMA CarriesOn ==
  ASSUME TypeOK', NEW s \in Sides, Carries(s),
         Receiving(Other(s)) => Flow(s)' = Flow(s),
         ~Receiving(Other(s)) => Arrived(Other(s))' = Arrived(Other(s)),
         UNCHANGED <<req, sent, peer>>
  PROVE  Carries(s)'
<1>1. /\ Before(Other(s))' = Before(Other(s)) /\ AllOf(s)' = AllOf(s)
      /\ Receiving(Other(s))' = Receiving(Other(s))
  BY DEF Before, Grants, AllOf, Receiving
<1>2. CASE Receiving(Other(s))
  <2>1. /\ Arrived(Other(s))' \in Seq(Data) /\ data'[s] \in Seq(Data) /\ in'[s] \in Seq(Data)
    BY StreamTextNext, TwoSides
  <2>2. IsPrefix(Arrived(Other(s))', Flow(s)')
    <3>1. Flow(s)' = Stream(Arrived(Other(s))', data'[s], in'[s])
      BY DEF Flow, Stream
    <3> QED BY <2>1, <3>1, StreamPrefix
  <2> QED BY <1>1, <1>2, <2>2 DEF Carries, Begun
<1>3. CASE ~Receiving(Other(s))
  BY <1>1, <1>3 DEF Carries, Begun
<1> QED BY <1>2, <1>3

LEMMA ReadSomeKeeps ==
  ASSUME SocksInv, NEW s \in Sides, ReadSome(s) PROVE SocksInv'
<1>1. PICK k \in 1 .. MaxRead :
        /\ k <= Len(in[s])
        /\ data' = [data EXCEPT ![s] = SubSeq(in[s], 1, k)]
        /\ in' = [in EXCEPT ![s] = SubSeq(@, k + 1, Len(@))]
  BY DEF ReadSome
<1>2. /\ pc = "relay" /\ writing = Nobody /\ writing' = s /\ reading' = reading \ {s}
      /\ UNCHANGED <<pc, req, rules, out, peer, sent, got>>
  BY DEF ReadSome, Idle
<1>3. TypeOK /\ Permitted /\ \A t \in Sides : data[t] = <<>> /\ Carries(t)
  BY <1>2 DEF SocksInv, Relays, Nobody, Sides
<1>4. in[s] \in Seq(Piece) /\ k \in 0 .. Len(in[s]) /\ k > 0
  BY <1>1, <1>3, SocksAssumption DEF TypeOK
<1>5. /\ data'[s] = SubSeq(in[s], 1, k) /\ in'[s] = SubSeq(in[s], k + 1, Len(in[s]))
      /\ data'[s] \in Seq(Piece) /\ in'[s] \in Seq(Piece) /\ data'[s] # <<>>
      /\ \A t \in Sides : t # s => data'[t] = data[t] /\ in'[t] = in[t]
  <2>1. /\ data'[s] = SubSeq(in[s], 1, k) /\ in'[s] = SubSeq(in[s], k + 1, Len(in[s]))
        /\ \A t \in Sides : t # s => data'[t] = data[t] /\ in'[t] = in[t]
    BY <1>1, <1>3 DEF TypeOK
  <2>2. PICK q \in Seq(Piece) : q = in[s]
    BY <1>4
  <2>3. PICK n \in 0 .. Len(q) : n = k
    BY <1>4, <2>2
  <2>4. /\ SubSeq(q, 1, n) \in Seq(Piece) /\ SubSeq(q, n + 1, Len(q)) \in Seq(Piece)
        /\ n > 0 => SubSeq(q, 1, n) # <<>>
    BY TwoParts
  <2> QED BY <1>4, <2>1, <2>2, <2>3, <2>4
<1>6. TypeOK'
  <2>1. data' \in [Sides -> Seq(Piece)] /\ in' \in [Sides -> Seq(Piece)]
    BY <1>1, <1>3, <1>5 DEF TypeOK
  <2> QED BY <1>2, <1>3, <2>1 DEF TypeOK
<1>7. Flow(s)' = Flow(s)
  <2>1. PICK r \in Seq(Data), q \in Seq(Data) : r = Arrived(Other(s)) /\ q = in[s]
    BY <1>3, StreamText, TwoSides
  <2>2. PICK n \in 0 .. Len(q) : n = k
    BY <1>4, <2>1
  <2>3. Stream(r, SubSeq(q, 1, n), SubSeq(q, n + 1, Len(q))) = Stream(r, <<>>, q)
    BY TakeFromLast
  <2>4. Arrived(Other(s))' = Arrived(Other(s))
    BY <1>2 DEF Arrived
  <2>5. Flow(s)' = Stream(Arrived(Other(s)), data'[s], in'[s])
    BY <2>4 DEF Flow, Stream
  <2>6. Flow(s) = Stream(Arrived(Other(s)), data[s], in[s])
    BY DEF Flow, Stream
  <2> QED BY <1>3, <1>5, <2>1, <2>2, <2>3, <2>5, <2>6
<1>8. ASSUME NEW t \in Sides PROVE Carries(t)'
  <2>1. Arrived(Other(t))' = Arrived(Other(t))
    BY <1>2 DEF Arrived
  <2>2. Flow(t)' = Flow(t)
    BY <1>5, <1>7, <2>1 DEF Flow
  <2> QED BY <1>2, <1>3, <1>6, <2>1, <2>2, CarriesOn
<1>9. \A t \in Sides : data'[t] # <<>> <=> writing' = t
  BY <1>2, <1>3, <1>5
<1>10. Permitted'
  BY <1>2, <1>3 DEF Permitted
<1> QED BY <1>2, <1>6, <1>8, <1>9, <1>10 DEF SocksInv, Unanswered, Accepting, Relays, Ended

(* What the kernel takes is on its way; what a peer that is gone would have  *)
(* got is nobody's.                                                          *)
LEMMA WriteKeeps ==
  ASSUME SocksInv, NEW s \in Sides, Write(s) PROVE SocksInv'
<1> DEFINE o == Other(s)
<1>1. /\ pc = "relay" /\ writing = s /\ data' = [data EXCEPT ![s] = Tail(data[s])]
      /\ IF Tail(data[s]) = <<>> THEN writing' = Nobody /\ reading' = Rearmed(s)
                                 ELSE UNCHANGED <<writing, reading>>
      /\ UNCHANGED <<pc, req, rules, in, peer, sent, got>>
      /\ \/ Receiving(o) /\ out' = [out EXCEPT ![o] = Append(@, Head(data[s]))]
         \/ ~Receiving(o) /\ UNCHANGED out
  BY DEF Write, Wrote, Unwritten, MayFail
<1>2. /\ TypeOK /\ Permitted /\ writing \notin reading
      /\ \A t \in Sides : (data[t] # <<>> <=> writing = t) /\ Carries(t)
  BY <1>1 DEF SocksInv, Relays
<1>3. /\ data[s] \in Seq(Piece) /\ data[s] # <<>>
      /\ Head(data[s]) \in Piece /\ Tail(data[s]) \in Seq(Piece)
  <2>1. data[s] \in Seq(Piece) /\ data[s] # <<>>
    BY <1>1, <1>2 DEF TypeOK
  <2> QED BY <2>1, HeadTailProperties
<1>4. /\ data'[s] = Tail(data[s]) /\ \A t \in Sides : t # s => data'[t] = data[t]
      /\ Receiving(o) => out'[o] = Append(out[o], Head(data[s]))
      /\ ~Receiving(o) => out' = out
      /\ out'[s] = out[s]
  BY <1>1, <1>2, TwoSides DEF TypeOK
<1>5. TypeOK'
  <2>1. data' \in [Sides -> Seq(Piece)]
    BY <1>1, <1>2, <1>3 DEF TypeOK
  <2>2. out' \in [Sides -> Seq(Data)]
    <3>1. out \in [Sides -> Seq(Data)] /\ out[o] \in Seq(Data) /\ Head(data[s]) \in Data
      BY <1>2, <1>3, CodesAreNotData, TwoSides DEF TypeOK, Data
    <3>2. Append(out[o], Head(data[s])) \in Seq(Data)
      BY <3>1
    <3> QED BY <1>1, <3>1, <3>2
  <2>3. reading' \subseteq Sides /\ writing' \in Sides \cup {Nobody}
    BY <1>1, <1>2 DEF TypeOK, Rearmed
  <2> QED BY <1>1, <1>2, <2>1, <2>2, <2>3 DEF TypeOK, Data
<1>6. Receiving(o) => Flow(s)' = Flow(s)
  <2> SUFFICES ASSUME Receiving(o) PROVE Flow(s)' = Flow(s)
    OBVIOUS
  <2>1. PICK g \in Seq(Data), u \in Seq(Data), d \in Seq(Data), q \in Seq(Data) :
          g = got[o] /\ u = out[o] /\ d = data[s] /\ q = in[s]
    BY <1>2, StreamText, TwoSides
  <2>2. d # <<>> /\ Head(d) \in Data
    BY <1>3, <2>1, CodesAreNotData
  <2>3. Stream(g \o Append(u, Head(d)), Tail(d), q) = Stream(g \o u, d, q)
    BY <2>2, PassOnWithin
  <2>4. Arrived(o)' = g \o Append(u, Head(d)) /\ Arrived(o) = g \o u
    BY <1>1, <1>4, <2>1 DEF Arrived
  <2>5. Flow(s)' = Stream(Arrived(o)', Tail(d), q)
    BY <1>1, <1>4, <2>1 DEF Flow, Stream
  <2>6. Flow(s) = Stream(Arrived(o), d, q)
    BY <2>1 DEF Flow, Stream
  <2> QED BY <2>3, <2>4, <2>5, <2>6
<1>7. Carries(s)'
  <2>1. ~Receiving(o) => Arrived(o)' = Arrived(o)
    BY <1>1, <1>4 DEF Arrived
  <2> QED BY <1>1, <1>2, <1>5, <1>6, <2>1, CarriesOn
<1>8. Carries(o)'
  <2>1. o \in Sides /\ Other(o) = s /\ o # s
    BY TwoSides
  <2>2. Arrived(s)' = Arrived(s)
    BY <1>1, <1>4 DEF Arrived
  <2>3. Flow(o)' = Flow(o)
    BY <1>1, <1>4, <2>1, <2>2 DEF Flow
  <2> QED BY <1>1, <1>2, <1>5, <2>1, <2>2, <2>3, CarriesOn
<1>9. /\ writing' \notin reading'
      /\ \A t \in Sides : (data'[t] # <<>> <=> writing' = t)
  BY <1>1, <1>2, <1>4 DEF TypeOK, Nobody, Sides, Rearmed
<1>10. \A t \in Sides : t = s \/ t = o
  BY TwoSides
<1>11. Permitted'
  BY <1>1, <1>2 DEF Permitted
<1> QED BY <1>1, <1>5, <1>7, <1>8, <1>9, <1>10, <1>11
     DEF SocksInv, Unanswered, Accepting, Relays, Ended

(* The relay ends with a side that has nothing more to be read and to be     *)
(* written, or with nobody to write it to.                                   *)
LEMMA RelayEnds ==
  ASSUME SocksInv, NEW s \in Sides, WriteFails(s) \/ Ends(s) PROVE SocksInv'
<1>1. /\ pc = "relay" /\ Leave(out)
      /\ UNCHANGED <<req, rules, peer, sent, got>>
  BY DEF WriteFails, Ends
<1>2. /\ TypeOK /\ Permitted
      /\ \A t \in Sides : (data[t] # <<>> <=> writing = t) /\ Carries(t)
  BY <1>1 DEF SocksInv, Relays
<1>3. out \in [Sides -> Seq(Data)]
  BY <1>2 DEF TypeOK, Data
<1>4. /\ pc' = "exited" /\ reading' = {} /\ writing' = Nobody /\ in' = in
      /\ data' = [t \in Sides |-> <<>>] /\ out' \in [Sides -> Seq(Data)]
      /\ \A t \in Sides : /\ IsPrefix(got[t] \o out'[t], got[t] \o out[t])
                          /\ in[t] = <<>> => out'[t] = out[t]
  BY <1>1, <1>2, <1>3, LeaveCuts
<1>5. TypeOK'
  BY <1>1, <1>2, <1>4, EmptySeq DEF TypeOK, Data
<1>6. ASSUME NEW t \in Sides, peer[t] = "shut", peer[Other(t)] = "open"
      PROVE  in[t] = <<>> /\ data[t] = <<>>
  <2>1. s = t \/ s = Other(t)
    BY TwoSides
  <2>2. CASE WriteFails(s)
    BY <1>6, <2>1, <2>2, TwoSides DEF WriteFails, MayFail, Receiving
  <2>3. CASE Ends(s)
    <3>1. s = t /\ in[s] = <<>> /\ writing = Nobody
      BY <1>6, <2>1, <2>3, TwoSides DEF Ends, AtEnd, Idle
    <3> QED BY <1>2, <3>1 DEF Nobody, Sides
  <2> QED BY <2>2, <2>3
<1>7. ASSUME NEW t \in Sides
      PROVE  /\ Begun(t)'
             /\ peer[t] = "shut" /\ peer[Other(t)] = "open" /\ in[Other(t)] = <<>> => Complete(t)'
  <2>1. Before(Other(t))' = Before(Other(t)) /\ AllOf(t)' = AllOf(t)
    BY <1>1 DEF Before, Grants, AllOf
  <2>2. Begun(t)'
    <3>1. /\ Arrived(Other(t)) \in Seq(Data) /\ Arrived(Other(t))' \in Seq(Data)
          /\ Before(Other(t)) \o AllOf(t) \in Seq(Data)
      <4>1. Before(Other(t)) \in Seq(Data) /\ AllOf(t) \in Seq(Data)
        BY <1>2, StreamText, TwoSides
      <4>2. PICK b \in Seq(Data), a \in Seq(Data) : b = Before(Other(t)) /\ a = AllOf(t)
        BY <4>1
      <4>3. b \o a \in Seq(Data)
        OBVIOUS
      <4>4. Arrived(Other(t)) \in Seq(Data) /\ Arrived(Other(t))' \in Seq(Data)
        BY <1>2, <1>5, StreamText, StreamTextNext, TwoSides
      <4> QED BY <4>2, <4>3, <4>4
    <3>2. IsPrefix(Arrived(Other(t))', Arrived(Other(t)))
      BY <1>1, <1>4, TwoSides DEF Arrived
    <3>3. IsPrefix(Arrived(Other(t)), Before(Other(t)) \o AllOf(t))
      BY <1>2 DEF Carries, Begun
    <3>4. IsPrefix(Arrived(Other(t))', Before(Other(t)) \o AllOf(t))
      BY <3>1, <3>2, <3>3, PrefixTransitive
    <3> QED BY <2>1, <3>4 DEF Begun
  <2>3. ASSUME peer[t] = "shut", peer[Other(t)] = "open", in[Other(t)] = <<>>
        PROVE  Complete(t)'
    <3>1. in[t] = <<>> /\ data[t] = <<>>
      BY <1>6, <2>3
    <3>2. Flow(t) = Before(Other(t)) \o AllOf(t)
      BY <1>2, <2>3 DEF Carries, Receiving
    <3>3. Flow(t) = Arrived(Other(t))
      <4>1. PICK a \in Seq(Data) : a = Arrived(Other(t))
        BY <1>2, StreamText, TwoSides
      <4>2. (a \o <<>>) \o <<>> = a
        OBVIOUS
      <4> QED BY <3>1, <4>1, <4>2 DEF Flow
    <3>4. Arrived(Other(t))' = Arrived(Other(t))
      BY <1>1, <1>4, <2>3, TwoSides DEF Arrived
    <3> QED BY <2>1, <3>2, <3>3, <3>4 DEF Complete
  <2> QED BY <2>2, <2>3
<1>8. Served'
  BY <1>1, <1>2, <1>4, <1>7 DEF Served, Permitted
<1> QED BY <1>4, <1>5, <1>8 DEF SocksInv, Unanswered, Accepting, Relays, Ended

-----------------------------------------------------------------------------
(* The peers. *)

(* The grants of a BIND are not complete while it waits: who sends, relays.  *)
LEMMA SendersRelay ==
  ASSUME SocksInv, NEW s \in Sides, Send(s) PROVE pc = "relay"
<1>1. /\ pc # "exited" /\ peer[s] = "open" /\ Relaying(s) /\ TypeOK
  BY DEF Send, SocksInv
<1>2. pc \in {"request", "resolve", "connect", "accept"} => peer["serv"] = "absent"
  BY DEF SocksInv, Unanswered, Accepting, Quiet
<1>3. CASE s = "serv"
  BY <1>1, <1>2, <1>3 DEF TypeOK
<1>4. CASE s = "cli"
  <2>1. req # NoReq /\ IsPrefix(Grants, got["cli"])
    BY <1>1, <1>4 DEF Relaying, Granted
  <2>2. Len(Grants) = req.CD /\ req.CD \in 1 .. 2 /\ Len(Grants) <= Len(got["cli"])
    <3>1. Len(Grants) = req.CD /\ req.CD \in 1 .. 2
      BY <1>1, <2>1, GrantsText
    <3>2. Len(Grants) <= Len(got["cli"])
      BY <2>1 DEF IsPrefix
    <3> QED BY <3>1, <3>2
  <2>3. pc \notin {"request", "resolve", "connect"}
    <3>1. Len(got["cli"]) # 0
      BY <2>2
    <3>2. Len(<<>>) = 0
      OBVIOUS
    <3> QED BY <3>1, <3>2 DEF SocksInv, Unanswered
  <2>4. ASSUME pc = "accept" PROVE FALSE
    <3>1. req.CD = 2 /\ IsPrefix(Arrived("cli"), <<90>>)
      BY <2>4 DEF SocksInv, Accepting
    <3>2. Len(Arrived("cli")) <= 1
      BY <3>1 DEF IsPrefix
    <3>3. got["cli"] \in Seq(Data) /\ out["cli"] \in Seq(Data)
      BY <1>1, StreamText, TwoSides DEF Sides
    <3>4. PICK g \in Seq(Data), u \in Seq(Data) : g = got["cli"] /\ u = out["cli"]
      BY <3>3
    <3>5. Len(g \o u) = Len(g) + Len(u) /\ Len(g) \in Nat /\ Len(u) \in Nat
      OBVIOUS
    <3>6. Arrived("cli") = g \o u
      BY <3>4 DEF Arrived
    <3>7. Len(g) <= 1
      BY <3>2, <3>5, <3>6
    <3> QED BY <2>2, <3>1, <3>4, <3>7
  <2> QED BY <1>1, <2>3, <2>4 DEF TypeOK
<1> QED BY <1>3, <1>4 DEF Sides

(* A new piece is the last of what was sent, and of the stream.              *)
LEMMA SendKeeps ==
  ASSUME SocksInv, NEW s \in Sides, Send(s) PROVE SocksInv'
<1>1. /\ pc = "relay" /\ sent[s] < MaxData
      /\ sent' = [sent EXCEPT ![s] = @ + 1]
      /\ in' = [in EXCEPT ![s] = Append(@, sent[s] + 1)]
      /\ UNCHANGED <<pc, req, reading, writing, data, rules, out, peer, got>>
  BY SendersRelay DEF Send, proxy
<1>2. TypeOK /\ Permitted /\ writing \notin reading
      /\ \A t \in Sides : (data[t] # <<>> <=> writing = t) /\ Carries(t)
  BY <1>1 DEF SocksInv, Relays
<1>3. sent[s] \in Nat /\ sent[s] + 1 \in Piece /\ sent[s] + 1 \in 0 .. MaxData
  BY <1>1, <1>2, SocksAssumption DEF TypeOK, Piece
<1>4. /\ sent'[s] = sent[s] + 1 /\ in'[s] = Append(in[s], sent[s] + 1)
      /\ \A t \in Sides : t # s => sent'[t] = sent[t] /\ in'[t] = in[t]
  BY <1>1, <1>2 DEF TypeOK
<1>5. TypeOK'
  <2>1. sent' \in [Sides -> 0 .. MaxData]
    BY <1>1, <1>2, <1>3 DEF TypeOK
  <2>2. in' \in [Sides -> Seq(Piece)]
    BY <1>1, <1>2, <1>3 DEF TypeOK
  <2> QED BY <1>1, <1>2, <2>1, <2>2 DEF TypeOK
<1>6. /\ \A t \in Sides : /\ Arrived(t)' = Arrived(t) /\ Before(t)' = Before(t)
                          /\ Receiving(t)' = Receiving(t)
  BY <1>1 DEF Arrived, Before, Grants, Receiving
<1>7. AllOf(s)' = Append(AllOf(s), sent[s] + 1)
  <2> DEFINE n == sent[s]
  <2>1. [k \in 1 .. n + 1 |-> k] = Append([k \in 1 .. n |-> k], n + 1)
    <3>1. n \in Nat
      BY <1>3
    <3> HIDE DEF n
    <3>2. /\ [k \in 1 .. n + 1 |-> k] \in Seq(Nat) /\ Len([k \in 1 .. n + 1 |-> k]) = n + 1
          /\ [k \in 1 .. n |-> k] \in Seq(Nat) /\ Len([k \in 1 .. n |-> k]) = n
      BY <3>1
    <3> QED BY <3>1, <3>2
  <2> QED BY <1>4, <2>1 DEF AllOf
<1>8. Carries(s)'
  <2> DEFINE o == Other(s)
             v == sent[s] + 1
  <2>1. PICK a \in Seq(Data), d \in Seq(Data), q \in Seq(Data), b \in Seq(Data), w \in Seq(Data) :
          a = Arrived(o) /\ d = data[s] /\ q = in[s] /\ b = Before(o) /\ w = AllOf(s)
    BY <1>2, StreamText, TwoSides
  <2>2. v \in Data
    BY <1>3, CodesAreNotData
  <2>3. PICK x \in Data : x = v
    BY <2>2
  <2>4. Stream(a, d, Append(q, x)) = Append(Stream(a, d, q), x)
    BY AddLast
  <2>5. b \o Append(w, x) = Append(b \o w, x)
    BY AddBehind
  <2>6. Receiving(o)' => Flow(s)' = Before(o)' \o AllOf(s)'
    <3>1. Flow(s)' = Stream(a, d, Append(q, x))
      BY <1>1, <1>4, <1>6, <2>1, <2>3, TwoSides DEF Flow, Stream
    <3>2. Flow(s) = Stream(a, d, q)
      BY <2>1 DEF Flow, Stream
    <3>3. Before(o)' \o AllOf(s)' = b \o Append(w, x)
      BY <1>6, <1>7, <2>1, <2>3, TwoSides
    <3>4. Receiving(o) => Flow(s) = b \o w
      BY <1>2, <2>1 DEF Carries
    <3> QED BY <1>6, <2>4, <2>5, <3>1, <3>2, <3>3, <3>4, TwoSides
  <2>7. Begun(s)'
    <3>1. b \o w \in Seq(Data)
      OBVIOUS
    <3>2. PICK y \in Seq(Data) : y = b \o w
      BY <3>1
    <3>3. IsPrefix(y, Append(y, x)) /\ Append(y, x) \in Seq(Data)
      BY AppendPrefix
    <3>4. IsPrefix(a, y)
      BY <1>2, <2>1, <3>2 DEF Carries, Begun
    <3>5. IsPrefix(a, Append(y, x))
      BY <3>3, <3>4, PrefixTransitive
    <3>6. Arrived(o)' = a /\ Before(o)' \o AllOf(s)' = Append(y, x)
      BY <1>6, <1>7, <2>1, <2>3, <2>5, <3>2, TwoSides
    <3> QED BY <3>5, <3>6 DEF Begun
  <2> QED BY <2>6, <2>7 DEF Carries
<1>9. ASSUME NEW t \in Sides, t # s PROVE Carries(t)'
  <2>1. AllOf(t)' = AllOf(t)
    BY <1>4, <1>9 DEF AllOf
  <2>2. Flow(t)' = Flow(t)
    BY <1>1, <1>4, <1>6, <1>9, TwoSides DEF Flow
  <2> QED BY <1>2, <1>6, <2>1, <2>2, TwoSides DEF Carries, Begun
<1>10. Permitted'
  BY <1>1, <1>2 DEF Permitted
<1> QED BY <1>1, <1>2, <1>5, <1>8, <1>9, <1>10
     DEF SocksInv, Unanswered, Accepting, Relays, Ended

(* What arrives had been on its way.                                         *)
LEMMA ReceiveKeeps ==
  ASSUME SocksInv, NEW s \in Sides, Receive(s) PROVE SocksInv'
<1>1. /\ Receiving(s) /\ out[s] # <<>>
      /\ got' = [got EXCEPT ![s] = Append(@, Head(out[s]))]
      /\ out' = [out EXCEPT ![s] = Tail(@)]
      /\ UNCHANGED <<pc, req, reading, writing, data, rules, in, peer, sent>>
  BY DEF Receive, proxy
<1>2. TypeOK
  BY DEF SocksInv
<1>3. PICK g \in Seq(Data), u \in Seq(Data) : g = got[s] /\ u = out[s]
  BY <1>2, StreamText
<1>4. /\ Append(g, Head(u)) \o Tail(u) = g \o u
      /\ Append(g, Head(u)) \in Seq(Data) /\ Tail(u) \in Seq(Data)
  <2>1. u # <<>>
    BY <1>1, <1>3
  <2> QED BY <2>1, PassOn, Zenon
<1>5. /\ got'[s] = Append(g, Head(u)) /\ out'[s] = Tail(u)
      /\ \A t \in Sides : t # s => got'[t] = got[t] /\ out'[t] = out[t]
  BY <1>1, <1>2, <1>3 DEF TypeOK
<1>6. TypeOK'
  <2>1. got' \in [Sides -> Seq(Data)] /\ out' \in [Sides -> Seq(Data)]
    BY <1>1, <1>2, <1>3, <1>4 DEF TypeOK, Data
  <2> QED BY <1>1, <1>2, <2>1 DEF TypeOK, Data
<1>7. \A t \in Sides : /\ Arrived(t)' = Arrived(t) /\ Before(t)' = Before(t)
                       /\ AllOf(t)' = AllOf(t) /\ Receiving(t)' = Receiving(t)
  BY <1>1, <1>3, <1>4, <1>5 DEF Arrived, Before, Grants, AllOf, Receiving
<1>8. \A t \in Sides : /\ Flow(t)' = Flow(t) /\ Carries(t)' = Carries(t)
                       /\ Begun(t)' = Begun(t) /\ Complete(t)' = Complete(t)
  <2>1. ASSUME NEW t \in Sides PROVE Flow(t)' = Flow(t)
    BY <1>1, <1>7, TwoSides DEF Flow
  <2> QED BY <1>7, <2>1, TwoSides DEF Carries, Begun, Complete
<1>9. got["serv"] = <<>> /\ out["serv"] = <<>> => got'["serv"] = <<>> /\ out'["serv"] = <<>>
  BY <1>1, <1>5, TwoSides
<1>10. Unanswered'
  BY <1>1, <1>9 DEF SocksInv, Unanswered, Quiet, Sides
<1>11. Accepting'
  BY <1>1, <1>7, <1>9, TwoSides DEF SocksInv, Accepting, Quiet
<1>12. Relays'
  BY <1>1, <1>8 DEF SocksInv, Relays, Permitted
<1>13. Ended'
  BY <1>1, <1>7, <1>8, <1>9, TwoSides DEF SocksInv, Ended, Refused, Served, Permitted
<1> QED BY <1>6, <1>10, <1>11, <1>12, <1>13 DEF SocksInv

LEMMA ShutKeeps ==
  ASSUME SocksInv, NEW s \in Sides, Shut(s) PROVE SocksInv'
<1>1. /\ pc # "exited" /\ peer[s] = "open" /\ peer' = [peer EXCEPT ![s] = "shut"]
      /\ UNCHANGED <<pc, req, reading, writing, data, rules, in, out, sent, got>>
  BY DEF Shut, proxy
<1>2. TypeOK /\ TypeOK'
  BY <1>1 DEF SocksInv, TypeOK
<1>3. \A t \in Sides : /\ Arrived(t)' = Arrived(t) /\ Before(t)' = Before(t)
                       /\ AllOf(t)' = AllOf(t) /\ Receiving(t)' = Receiving(t)
                       /\ (peer'[t] = "absent" <=> peer[t] = "absent")
  BY <1>1, <1>2 DEF Arrived, Before, Grants, AllOf, Receiving, TypeOK
<1>4. \A t \in Sides : Flow(t)' = Flow(t)
  BY <1>1, <1>3, TwoSides DEF Flow
<1>5. \A t \in Sides : Carries(t)' = Carries(t)
  BY <1>3, <1>4, TwoSides DEF Carries, Begun
<1>6. Unanswered' /\ Accepting' /\ Relays'
  BY <1>1, <1>3, <1>5, TwoSides DEF SocksInv, Unanswered, Accepting, Quiet, Relays, Permitted
<1> QED BY <1>1, <1>2, <1>6 DEF SocksInv, Ended

(* What was on its way to a peer that closes is gone, and what it has        *)
(* received is still the beginning of the stream.                            *)
LEMMA CloseKeeps ==
  ASSUME SocksInv, NEW s \in Sides, Close(s) PROVE SocksInv'
<1>1. /\ Receiving(s)
      /\ peer' = [peer EXCEPT ![s] = "closed"] /\ out' = [out EXCEPT ![s] = <<>>]
      /\ UNCHANGED <<pc, req, reading, writing, data, rules, in, sent, got>>
  BY DEF Close, proxy
<1>2. TypeOK
  BY DEF SocksInv
<1>3. /\ peer'[s] = "closed" /\ out'[s] = <<>>
      /\ \A t \in Sides : t # s => peer'[t] = peer[t] /\ out'[t] = out[t]
  BY <1>1, <1>2 DEF TypeOK
<1>4. TypeOK'
  BY <1>1, <1>2, EmptySeq DEF TypeOK
<1>5. \A t \in Sides : /\ Before(t)' = Before(t) /\ AllOf(t)' = AllOf(t)
                       /\ t # s => /\ Arrived(t)' = Arrived(t)
                                   /\ Receiving(t)' = Receiving(t)
  BY <1>1, <1>3 DEF Arrived, Before, Grants, AllOf, Receiving
<1>6. ~Receiving(s)'
  BY <1>3 DEF Receiving
<1>7. ASSUME NEW x \in Seq(Data), IsPrefix(Arrived(s), x)
      PROVE  IsPrefix(Arrived(s)', x)
  <2>1. PICK g \in Seq(Data), u \in Seq(Data) : g = got[s] /\ u = out[s]
    BY <1>2, StreamText
  <2>2. PICK a \in Seq(Data) : a = g \o u /\ IsPrefix(g, a)
    <3>1. g \o u \in Seq(Data) /\ IsPrefix(g, g \o u)
      BY PrefixFacts
    <3> QED BY <3>1
  <2>3. IsPrefix(a, x)
    BY <1>7, <2>1, <2>2 DEF Arrived
  <2>4. IsPrefix(g, x)
    BY <1>7, <2>2, <2>3, PrefixTransitive
  <2>5. g \o <<>> = g
    OBVIOUS
  <2> QED BY <1>1, <1>3, <2>1, <2>4, <2>5 DEF Arrived
<1>8. ASSUME NEW t \in Sides, Begun(t) PROVE Begun(t)'
  <2>1. Before(Other(t)) \o AllOf(t) \in Seq(Data)
    <3>1. PICK b \in Seq(Data), w \in Seq(Data) : b = Before(Other(t)) /\ w = AllOf(t)
      BY <1>2, StreamText, TwoSides
    <3>2. b \o w \in Seq(Data)
      OBVIOUS
    <3> QED BY <3>1, <3>2
  <2>2. IsPrefix(Arrived(Other(t))', Before(Other(t)) \o AllOf(t))
    BY <1>5, <1>7, <1>8, <2>1, TwoSides DEF Begun
  <2> QED BY <1>5, <2>2, TwoSides DEF Begun
<1>9. ASSUME NEW t \in Sides, Carries(t) PROVE Carries(t)'
  <2>1. Begun(t)'
    BY <1>8, <1>9 DEF Carries
  <2>2. CASE Other(t) = s
    BY <1>6, <2>1, <2>2 DEF Carries
  <2>3. CASE Other(t) # s
    <3>1. Flow(t)' = Flow(t)
      BY <1>1, <1>5, <2>3, TwoSides DEF Flow
    <3> QED BY <1>5, <1>9, <2>1, <2>3, <3>1, TwoSides DEF Carries
  <2> QED BY <2>2, <2>3
<1>10. /\ peer["serv"] = "absent" => s # "serv"
       /\ peer["serv"] # "absent" => peer'["serv"] # "absent"
       /\ peer["serv"] # "shut" => peer'["serv"] # "shut"
       /\ out["serv"] = <<>> => out'["serv"] = <<>>
       /\ out["cli"] = <<>> => out'["cli"] = <<>>
  BY <1>1, <1>3, TwoSides DEF Receiving
<1>11. Unanswered'
  BY <1>1, <1>3, <1>10, TwoSides DEF SocksInv, Unanswered, Quiet
<1>12. Accepting'
  <2> SUFFICES ASSUME pc = "accept" PROVE Accepting'
    BY <1>1 DEF Accepting
  <2>1. Quiet /\ req.CD = 2 /\ 2 \in rules /\ IsPrefix(Arrived("cli"), <<90>>) /\ s = "cli"
    BY <1>10, TwoSides DEF SocksInv, Accepting, Quiet
  <2>2. IsPrefix(Arrived("cli")', <<90>>)
    BY <1>7, <2>1, ReplyText
  <2> QED BY <1>1, <1>3, <1>6, <1>10, <2>1, <2>2, TwoSides DEF Accepting, Quiet
<1>13. Relays'
  BY <1>1, <1>9, <1>10 DEF SocksInv, Relays, Permitted
<1>14. Refused => Refused'
  <2> SUFFICES ASSUME Refused PROVE Refused'
    OBVIOUS
  <2>1. ASSUME NEW x \in Seq(Data), IsPrefix(Arrived("cli"), x)
        PROVE  IsPrefix(Arrived("cli")', x)
    BY <1>5, <1>7, <2>1, TwoSides
  <2>2. \/ IsPrefix(Arrived("cli")', <<91, 91>>)
        \/ req.CD = 2 /\ 2 \in rules /\ IsPrefix(Arrived("cli")', <<90, 91>>)
    BY <2>1, ReplyText DEF Refused
  <2> QED BY <1>1, <1>10, <2>2 DEF Refused
<1>15. Served => Served'
  <2> SUFFICES ASSUME Served PROVE Served'
    OBVIOUS
  <2>1. ASSUME NEW t \in Sides
        PROVE  /\ Begun(t)'
               /\ peer'[t] = "shut" /\ peer'[Other(t)] = "open" /\ in'[Other(t)] = <<>>
                    => Complete(t)'
    <3>1. t = s \/ Other(t) = s
      BY TwoSides
    <3>2. ~(peer'[t] = "shut" /\ peer'[Other(t)] = "open")
      BY <1>3, <3>1
    <3> QED BY <1>8, <3>2 DEF Served
  <2> QED BY <1>1, <1>10, <2>1 DEF Served, Permitted
<1> QED BY <1>1, <1>4, <1>11, <1>12, <1>13, <1>14, <1>15 DEF SocksInv, Ended

-----------------------------------------------------------------------------
LEMMA SocksInit == Init => SocksInv
<1> SUFFICES ASSUME Init PROVE SocksInv
  OBVIOUS
<1>1. TypeOK
  BY SocksAssumption, EmptySeq DEF Init, TypeOK
<1>2. Quiet /\ got["cli"] = <<>> /\ out["cli"] = <<>> /\ pc = "request"
  BY DEF Init, Quiet, Sides
<1> QED BY <1>1, <1>2 DEF SocksInv, Unanswered, Accepting, Relays, Ended

LEMMA SocksStep == SocksInv /\ [Next]_vars => SocksInv'
<1> SUFFICES ASSUME SocksInv, [Next]_vars PROVE SocksInv'
  OBVIOUS
<1>1. CASE Request_
  <2>1. CASE BadVersion \/ NoRequest \/ RefuseBind
    <3>1. pc = "request" /\ pc' = "exited"
      BY <2>1 DEF BadVersion, NoRequest, RefuseBind, Leave
    <3> QED BY <2>1, <3>1, UnansweredEnds
  <2>2. CASE do_connect
    BY <2>2, OpeningKeeps
  <2>3. CASE do_bind
    <3>1. CASE Leave(out)
      <4>1. pc = "request" /\ pc' = "exited"
        BY <2>3, <3>1 DEF do_bind, Leave
      <4> QED BY <2>3, <4>1, UnansweredEnds
    <3>2. CASE ~Leave(out)
      BY <2>3, <3>2, BindKeeps
    <3> QED BY <3>1, <3>2
  <2> QED BY <1>1, <2>1, <2>2, <2>3 DEF Request_
<1>2. CASE Opening
  <2>1. CASE Resolved
    BY <2>1, OpeningKeeps
  <2>2. CASE ResolveFails \/ ConnectFails
    <3>1. pc \in {"resolve", "connect"} /\ pc' = "exited"
      BY <2>2 DEF ResolveFails, ConnectFails, Leave
    <3> QED BY <2>2, <3>1, UnansweredEnds
  <2>3. CASE Connected
    BY <2>3, ConnectedKeeps
  <2> QED BY <1>2, <2>1, <2>2, <2>3 DEF Opening
<1>3. CASE Accepted \/ AcceptFails
  <2>1. CASE Accepted
    BY <2>1, AcceptedKeeps
  <2>2. CASE AcceptFails
    <3>1. pc' = "exited"
      BY <2>2 DEF AcceptFails, Leave
    <3> QED BY <2>2, <3>1, AcceptingEnds
  <2> QED BY <1>3, <2>1, <2>2
<1>4. ASSUME NEW s \in Sides, Loop(s) PROVE SocksInv'
  BY <1>4, ReadSomeKeeps, WriteKeeps, RelayEnds DEF Loop
<1>5. ASSUME NEW r \in Requests, SendRequest(r) PROVE SocksInv'
  BY <1>5, OpeningKeeps
<1>6. ASSUME NEW s \in Sides, Peer(s) PROVE SocksInv'
  BY <1>6, SendKeeps, ReceiveKeeps, ShutKeeps, CloseKeeps DEF Peer
<1>7. CASE UNCHANGED vars
  BY <1>7 DEF vars, proxy, SocksInv, TypeOK, Unanswered, Accepting, Quiet, Relays, Permitted, Ended,
              Refused, Served, Begun, Carries, Complete, Arrived, Before, Grants, AllOf, Flow,
              Receiving
<1>8. Process => Request_ \/ Opening \/ \E s \in Sides : Loop(s)
  BY DEF Process
<1>9. CASE Next
  BY <1>1, <1>2, <1>3, <1>4, <1>5, <1>6, <1>8, <1>9 DEF Next
<1> QED BY <1>7, <1>9

LEMMA SocksInvariant == Spec => []SocksInv
BY SocksInit, SocksStep, PTL DEF Spec

(* The session's handlers, buffers and streams keep their types.             *)
THEOREM TypesCorrect == Spec => []TypeOK
<1>1. SocksInv => TypeOK
  BY DEF SocksInv
<1> QED BY <1>1, SocksInvariant, PTL

(* What a relaying session has received is what has been sent, in order; the *)
(* relay loses nothing while the receiver is there.                          *)
THEOREM RelayedCorrect == Spec => []Relayed
<1>1. SocksInv => Relayed
  <2> SUFFICES ASSUME SocksInv, NEW s \in Sides
               PROVE  /\ \/ IsPrefix(got[Other(s)], Before(Other(s)) \o AllOf(s))
                         \/ Other(s) = "cli" /\ \E r \in Refusals : IsPrefix(got[Other(s)], r)
                      /\ pc = "relay" /\ Receiving(Other(s))
                           => Flow(s) = Before(Other(s)) \o AllOf(s)
    BY DEF Relayed
  <2> DEFINE o == Other(s)
  <2>1. TypeOK
    BY DEF SocksInv
  <2>2. pc = "relay" /\ Receiving(o) => Flow(s) = Before(o) \o AllOf(s)
    BY DEF SocksInv, Relays, Carries
  <2>3. PICK g \in Seq(Data), u \in Seq(Data), b \in Seq(Data), w \in Seq(Data) :
          g = got[o] /\ u = out[o] /\ b = Before(o) /\ w = AllOf(s)
    BY <2>1, StreamText, TwoSides
  <2>4. g \o u \in Seq(Data) /\ IsPrefix(g, g \o u) /\ b \o w \in Seq(Data)
        /\ IsPrefix(<<>>, b \o w)
    <3>1. g \o u \in Seq(Data) /\ b \o w \in Seq(Data)
      OBVIOUS
    <3>2. IsPrefix(g, g \o u)
      BY PrefixFacts, Zenon
    <3>3. IsPrefix(<<>>, b \o w)
      BY <3>1, PrefixFacts, Zenon
    <3> QED BY <3>1, <3>2, <3>3
  <2>5. ASSUME NEW x \in Seq(Data), IsPrefix(Arrived(o), x) PROVE IsPrefix(got[o], x)
    <3>1. Arrived(o) = g \o u
      BY <2>3 DEF Arrived
    <3> QED BY <2>3, <2>4, <2>5, <3>1, PrefixTransitive
  <2>6. ASSUME Begun(s) PROVE IsPrefix(got[o], Before(o) \o AllOf(s))
    <3>1. IsPrefix(Arrived(o), b \o w)
      BY <2>3, <2>6 DEF Begun
    <3>2. IsPrefix(got[o], b \o w)
      BY <2>4, <2>5, <3>1
    <3> QED BY <2>3, <3>2
  <2>7. ASSUME got[o] = <<>> PROVE IsPrefix(got[o], Before(o) \o AllOf(s))
    BY <2>3, <2>4, <2>7
  <2>8. ASSUME o = "cli", NEW r \in Refusals, IsPrefix(Arrived(o), r)
        PROVE  IsPrefix(got[o], r)
    BY <2>5, <2>8, ReplyText DEF Refusals
  <2>9. \/ Begun(s) \/ got[o] = <<>>
        \/ o = "cli" /\ \E r \in Refusals : IsPrefix(Arrived(o), r)
    <3>1. CASE pc \in {"request", "resolve", "connect"}
      BY <3>1, TwoSides DEF SocksInv, Unanswered, Quiet
    <3>2. CASE pc = "accept"
      <4>1. CASE o = "serv"
        BY <3>2, <4>1 DEF SocksInv, Accepting, Quiet
      <4>2. CASE o = "cli"
        <5>1. IsPrefix(Arrived(o), <<90>>) /\ IsPrefix(<<90>>, <<90, 91>>)
          BY <3>2, <4>2, ReplyText DEF SocksInv, Accepting
        <5>2. IsPrefix(Arrived(o), <<90, 91>>)
          <6>1. Arrived(o) \in Seq(Data) /\ <<90>> \in Seq(Data) /\ <<90, 91>> \in Seq(Data)
            BY <2>1, StreamText, ReplyText, TwoSides
          <6> QED BY <5>1, <6>1, PrefixTransitive
        <5> QED BY <4>2, <5>2 DEF Refusals
      <4> QED BY <4>1, <4>2, TwoSides
    <3>3. CASE pc = "relay"
      BY <3>3 DEF SocksInv, Relays, Carries
    <3>4. CASE pc = "exited"
      <4>1. CASE Served
        BY <4>1 DEF Served
      <4>2. CASE Refused
        BY <4>2, TwoSides DEF Refused, Refusals
      <4> QED BY <3>4, <4>1, <4>2 DEF SocksInv, Ended
    <3> QED BY <2>1, <3>1, <3>2, <3>3, <3>4 DEF TypeOK
  <2> QED BY <2>2, <2>6, <2>7, <2>8, <2>9
<1> QED BY <1>1, SocksInvariant, PTL

(* A side that is shut down has been heard to its end when the session ends, *)
(* unless the other one is gone or has sent what was never read.             *)
THEOREM EndIsCompleteCorrect == Spec => []EndIsComplete
<1>1. SocksInv => EndIsComplete
  <2> SUFFICES ASSUME SocksInv, NEW s \in Sides, pc = "exited", peer[s] = "shut",
                      peer[Other(s)] = "open", in[Other(s)] = <<>>
               PROVE  Arrived(Other(s)) = Before(Other(s)) \o AllOf(s)
    BY DEF EndIsComplete
  <2>1. CASE Served
    BY <2>1 DEF Served, Complete
  <2>2. CASE Refused
    <3>1. s = "cli" /\ Other(s) = "serv" /\ AllOf(s) = <<>> /\ TypeOK
      BY <2>2, StreamText, TwoSides DEF Refused, SocksInv
    <3>2. <<>> \o <<>> = <<>>
      OBVIOUS
    <3>3. Arrived("serv") = <<>> /\ Before("serv") \o AllOf(s) = <<>>
      BY <2>2, <3>1, <3>2 DEF Refused, Arrived, Before
    <3> QED BY <3>1, <3>3
  <2> QED BY <2>1, <2>2 DEF SocksInv, Ended
<1> QED BY <1>1, SocksInvariant, PTL

-----------------------------------------------------------------------------
(* What the client has been sent, element by element.                        *)
LEMMA ToClientText ==
  ASSUME TypeOK
  PROVE  /\ ToClient \in Seq(Data) /\ Len(ToClient) \in Nat /\ ToClient = Arrived("cli")
         /\ \A x : x \in Range(ToClient) <=> \E k \in 1 .. Len(ToClient) : ToClient[k] = x
         /\ Granted(ToClient) <=> /\ req # NoReq /\ req.CD <= Len(ToClient)
                                  /\ \A k \in 1 .. req.CD : ToClient[k] = 90
<1>1. ToClient \in Seq(Data) /\ ToClient = Arrived("cli")
  BY StreamText, TwoSides DEF ToClient, Arrived
<1>2. PICK a \in Seq(Data) : a = ToClient
  BY <1>1
<1>3. \A x : x \in Range(a) <=> \E k \in 1 .. Len(a) : a[k] = x
  BY DEF Range
<1>4. PICK g \in Seq(Data) : g = Grants
  BY GrantsText
<1>5. req.CD \in 0 .. 2 /\ Len(g) = req.CD /\ \A k \in 1 .. req.CD : g[k] = 90
  BY <1>4, GrantsText DEF Grants
<1>6. IsPrefix(g, a) <=> Len(g) <= Len(a) /\ \A k \in 1 .. Len(g) : g[k] = a[k]
  BY PrefixElements
<1>7. Granted(a) <=> req # NoReq /\ req.CD <= Len(a) /\ \A k \in 1 .. req.CD : a[k] = 90
  BY <1>4, <1>5, <1>6 DEF Granted
<1> QED BY <1>1, <1>2, <1>3, <1>7

(* A refusal, and the beginning of one.                                      *)
LEMMA RefusalHolds ==
  ASSUME TypeOK, NEW m \in {90, 91}, IsPrefix(ToClient, <<m, 91>>),
         m = 90 => req.CD = 2 /\ 2 \in rules
  PROVE  GrantsHold
<1>0. m \in Data /\ 91 \in Data
  BY DEF Data, Codes
<1>1. PICK a \in Seq(Data), r \in Seq(Data) : a = ToClient /\ r = <<m, 91>>
  <2>1. <<m, 91>> \in Seq(Data)
    BY <1>0
  <2> QED BY <2>1, ToClientText
<1>2. Len(r) = 2 /\ r[1] = m /\ r[2] = 91 /\ Len(a) \in Nat
  BY <1>1
<1>3. Len(a) <= 2 /\ \A k \in 1 .. Len(a) : a[k] = r[k]
  <2>1. IsPrefix(a, r)
    BY <1>1
  <2>2. Len(a) <= Len(r) /\ \A k \in 1 .. Len(a) : a[k] = r[k]
    BY <2>1, PrefixElements
  <2> QED BY <1>2, <2>2
<1>4. \A k \in 1 .. Len(a) : a[k] = IF k = 1 THEN m ELSE 91
  BY <1>2, <1>3
<1>5. req # NoReq => req.CD \in 1 .. 2
  BY GrantsText
<1>6. ~Granted(a)
  BY <1>1, <1>2, <1>4, <1>5, ToClientText
<1>7. \A x \in Range(a) : x = 91 \/ (x = 90 /\ m = 90)
  <2>1. \A x : x \in Range(a) => \E k \in 1 .. Len(a) : a[k] = x
    BY <1>1, ToClientText
  <2>2. \A k \in 1 .. Len(a) : a[k] = m \/ a[k] = 91
    BY <1>4
  <2> SUFFICES ASSUME NEW x \in Range(a) PROVE x = 91 \/ (x = 90 /\ m = 90)
    OBVIOUS
  <2>3. PICK k \in 1 .. Len(a) : a[k] = x
    BY <2>1
  <2>4. x = m \/ x = 91
    BY <2>2, <2>3
  <2>5. m = 90 \/ m = 91
    OBVIOUS
  <2> QED BY <2>4, <2>5
<1> QED BY <1>1, <1>6, <1>7 DEF GrantsHold, Codes

(* A stream that has begun with the grants of the request.                   *)
LEMMA BegunHolds ==
  ASSUME TypeOK, Permitted, Begun("serv") PROVE GrantsHold
<1>1. PICK a \in Seq(Data), g \in Seq(Data), w \in Seq(Data) :
        a = ToClient /\ g = Grants /\ w = AllOf("serv")
  BY ToClientText, GrantsText, StreamText, TwoSides
<1>2. req.CD \in 1 .. 2 /\ Len(g) = req.CD /\ \A k \in 1 .. req.CD : g[k] = 90
  BY <1>1, GrantsText DEF Grants, Permitted
<1>3. \A k \in 1 .. Len(w) : w[k] \in Piece
  <2>1. sent["serv"] \in 0 .. MaxData /\ MaxData \in Nat
    BY SocksAssumption, TwoSides DEF TypeOK
  <2>2. Len(w) = sent["serv"] /\ \A k \in 1 .. sent["serv"] : w[k] = k
    BY <1>1, <2>1 DEF AllOf
  <2> QED BY <2>1, <2>2 DEF Piece
<1>4. IsPrefix(a, g \o w)
  BY <1>1, TwoSides, ToClientText DEF Begun, Before
<1>5. g \o w \in Seq(Data) /\ Len(g \o w) = Len(g) + Len(w)
      /\ \A k \in 1 .. Len(g) + Len(w) :
           (g \o w)[k] = IF k <= Len(g) THEN g[k] ELSE w[k - Len(g)]
  OBVIOUS
<1>6. Len(a) <= Len(g \o w) /\ \A k \in 1 .. Len(a) : a[k] = (g \o w)[k]
  BY <1>4, <1>5, PrefixElements
<1>7. ASSUME NEW k \in 1 .. Len(a)
      PROVE  IF k <= req.CD THEN a[k] = 90 ELSE a[k] \in Piece
  <2>1. Len(g) \in Nat /\ Len(w) \in Nat /\ Len(a) \in Nat
    OBVIOUS
  <2>2. k \in 1 .. Len(g) + Len(w) /\ a[k] = (g \o w)[k]
    BY <1>5, <1>6, <2>1
  <2>3. CASE k <= req.CD
    BY <1>2, <1>5, <2>2, <2>3
  <2>4. CASE ~(k <= req.CD)
    <3>1. k - Len(g) \in 1 .. Len(w) /\ a[k] = w[k - Len(g)]
      BY <1>2, <1>5, <2>1, <2>2, <2>4
    <3> QED BY <1>3, <2>4, <3>1
  <2> QED BY <2>3, <2>4
<1>8. 91 \notin Piece
  BY CodesAreNotData DEF Codes
<1>9. 91 \notin Range(a)
  BY <1>1, <1>7, <1>8, ToClientText
<1>10. CASE Len(a) < req.CD
  <2>1. \A k \in 1 .. Len(a) : a[k] = 90
    BY <1>2, <1>7, <1>10
  <2>2. Range(a) \subseteq Codes
    BY <1>1, <2>1, ToClientText DEF Codes
  <2> QED BY <1>1, <1>9, <2>2 DEF GrantsHold, Permitted
<1>11. CASE req.CD <= Len(a)
  <2>1. \A k \in 1 .. req.CD : a[k] = 90
    BY <1>2, <1>7, <1>11
  <2>2. Granted(a)
    BY <1>1, <1>11, <2>1, ToClientText DEF Permitted
  <2> QED BY <1>1, <1>9, <2>2 DEF GrantsHold, Permitted
<1>12. Len(a) < req.CD \/ req.CD <= Len(a)
  BY <1>2
<1> QED BY <1>10, <1>11, <1>12

(* A client is granted only what the rules permit, and in the end only a     *)
(* connection that exists; data comes behind the last grant, a refusal never.*)
THEOREM GrantsHoldCorrect == Spec => []GrantsHold
<1>1. SocksInv => GrantsHold
  <2> SUFFICES ASSUME SocksInv PROVE GrantsHold
    OBVIOUS
  <2>1. TypeOK
    BY DEF SocksInv
  <2>2. CASE pc \in {"request", "resolve", "connect"}
    <3>1. got["cli"] = <<>> /\ out["cli"] = <<>>
      BY <2>2 DEF SocksInv, Unanswered
    <3>2. ToClient = <<>>
      BY <3>1 DEF ToClient
    <3> QED BY <2>1, <3>2, ReplyText, RefusalHolds
  <2>3. CASE pc = "accept"
    <3>1. req.CD = 2 /\ 2 \in rules /\ IsPrefix(Arrived("cli"), <<90>>)
      BY <2>3 DEF SocksInv, Accepting
    <3>2. IsPrefix(ToClient, <<90, 91>>)
      <4>1. IsPrefix(ToClient, <<90>>) /\ IsPrefix(<<90>>, <<90, 91>>)
        BY <2>1, <3>1, ReplyText, ToClientText
      <4>2. ToClient \in Seq(Data) /\ <<90>> \in Seq(Data) /\ <<90, 91>> \in Seq(Data)
        BY <2>1, ReplyText, ToClientText
      <4> QED BY <4>1, <4>2, PrefixTransitive
    <3> QED BY <2>1, <3>1, <3>2, RefusalHolds
  <2>4. CASE pc = "relay"
    BY <2>1, <2>4, BegunHolds, TwoSides DEF SocksInv, Relays, Carries
  <2>5. CASE pc = "exited" /\ Refused
    <3>1. \/ IsPrefix(ToClient, <<91, 91>>)
          \/ req.CD = 2 /\ 2 \in rules /\ IsPrefix(ToClient, <<90, 91>>)
      BY <2>1, <2>5, ToClientText DEF Refused
    <3> QED BY <2>1, <3>1, RefusalHolds
  <2>6. CASE pc = "exited" /\ Served
    BY <2>1, <2>6, BegunHolds, TwoSides DEF Served
  <2> QED BY <2>1, <2>2, <2>3, <2>4, <2>5, <2>6 DEF SocksInv, TypeOK, Ended
<1> QED BY <1>1, SocksInvariant, PTL
=============================================================================
