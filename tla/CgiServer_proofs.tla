-------------------------- MODULE CgiServer_proofs --------------------------
(***************************************************************************)
(* Consoles of the Windows CGI server belong to the requests that asked    *)
(* for them, and their columns are in order, for every number of           *)
(* connections, columns and hosts and every length of the files.           *)
(*                                                                         *)
(* A column is followed from the line counter of its session through the   *)
(* stream to the browser to the page: the commands shown and those in the  *)
(* stream are the lines up to the counter, each once, as long as nothing   *)
(* has been read from freed memory.                                        *)
(***************************************************************************)
EXTENDS CgiServer, SequenceTheorems, TLAPS

Prompt(i)   == Text(i, "prompt")
InColumn(i) == {Text(i, str) : str \in {"text", "prompt"}} \cup {Command(i, k) : k \in Nat}
InRest      == {PanelPage} \cup {Table(h) : h \in [Column -> Hosts]}
Shown(i)    == IF i = 0 THEN InRest ELSE InColumn(i)
Places      == {0} \cup Column
Pieces      == {Garbage} \cup UNION {Shown(i) : i \in Places}

Types ==
  /\ TypeOK
  /\ environ.QUERY_STRING \in {Unset} \cup Queries
  /\ pos \in [Connections -> [Column -> Nat]]
  /\ down \in [Connections -> Seq(Pieces)]
  /\ writing \in [Connections -> Seq({Garbage})]
  /\ seen \in [Connections -> [Places -> Seq(Pieces)]]
  /\ \A c \in Connections, i \in Places : seen[c][i] \in Seq(Shown(i))
  /\ spoilt \subseteq Connections

(* Before its request a connection has nothing, and after it no other request. *)
Fresh(c) ==
  /\ at[c] # "busy" =>
       /\ \A i \in Column : st[c][i] = "none" /\ pos[c][i] = 0
       /\ down[c] = <<>> /\ writing[c] = <<>>
       /\ \A i \in Places : seen[c][i] = <<>>
  /\ at[c] = "busy" => request[c] # NoRequest

(* A console has the sessions of its query, and so has the table on its way. *)
ByQuery(c) == at[c] = "busy" /\ request[c].cgi = "console.cgi" /\ request[c].query # Unset

Own(c) == ByQuery(c) =>
  /\ to[c] = request[c].query
  /\ \A i \in Column : st[c][i] = "none" <=> request[c].query[i] = ""
  /\ \A k \in 1 .. Len(down[c]) :
       down[c][k] \in InRest => down[c][k] = Table(parse_query(request[c].query))
  /\ \A k \in 1 .. Len(seen[c][0]) : seen[c][0][k] = Table(parse_query(request[c].query))

(* The numbers of the commands of column i among the first n pieces of s.    *)
Nums(i, s, n) == {k \in Nat : \E m \in 1 .. n : s[m] = Command(i, k)}

Clean(s, n) == \A m \in 1 .. n : s[m] # Garbage

(* A column; what is to come to it; and what has been written for it.        *)
Sorted(i, col) ==
  \A j \in 1 .. Len(col), k \in Nat :
    col[j] = Command(i, k) => /\ j > 1 /\ col[j - 1] = Prompt(i)
                              /\ Nums(i, col, j - 1) = 1 .. k - 1

Follows(i, col, s, j) == IF j > 1 THEN s[j - 1] = Prompt(i)
                                  ELSE col # <<>> /\ col[Len(col)] = Prompt(i)

Coming(i, col, s) ==
  \A j \in 1 .. Len(s), k \in Nat :
    Clean(s, j) /\ s[j] = Command(i, k) =>
      /\ Follows(i, col, s, j)
      /\ Nums(i, col, Len(col)) \cup Nums(i, s, j - 1) = 1 .. k - 1

Counted(i, col, s, w, n) ==
  w = <<>> /\ Clean(s, Len(s)) => Nums(i, col, Len(col)) \cup Nums(i, s, Len(s)) = 1 .. n

InOrder(c, i) ==
  /\ Sorted(i, seen[c][i])
  /\ c \notin spoilt \cup gone =>
       /\ Coming(i, seen[c][i], down[c])
       /\ Counted(i, seen[c][i], down[c], writing[c], pos[c][i])

CgiInv ==
  /\ Types
  /\ \A c \in Connections : Fresh(c) /\ Own(c) /\ \A i \in Column : InOrder(c, i)

-----------------------------------------------------------------------------
(* What the pieces are.                                                      *)

LEMMA PlaceFacts ==
  /\ 0 \notin Column /\ Column \subseteq Places /\ 0 \in Places
  /\ \A i \in Places : i = 0 \/ i \in Column
<1>1. Columns \in Nat
  BY CgiAssumption
<1> QED BY <1>1 DEF Column, Places

LEMMA CommandFacts ==
  ASSUME NEW i, NEW k
  PROVE  /\ Command(i, k)[1] = "cmd" /\ Command(i, k)[2] = i /\ Command(i, k)[3] = k
         /\ Place(Command(i, k)) = i
         /\ Command(i, k) # Garbage /\ Command(i, k) # PanelPage
         /\ \A h : Command(i, k) # Table(h)
         /\ \A j, str : Command(i, k) # Text(j, str)
         /\ \A j, n : Command(i, k) = Command(j, n) => i = j /\ k = n
<1>1. /\ Command(i, k)[1] = "cmd" /\ Command(i, k)[2] = i /\ Command(i, k)[3] = k
  BY DEF Command
<1>2. Place(Command(i, k)) = i
  BY <1>1 DEF Place
<1>3. Garbage[1] = "garbage" /\ PanelPage[1] = "panel"
  BY DEF Garbage, PanelPage
<1>4. \A h : Table(h)[1] = "table"
  BY DEF Table
<1>5. \A j, str : Text(j, str)[1] = "col"
  BY DEF Text
<1>6. \A j, n : Command(j, n)[1] = "cmd" /\ Command(j, n)[2] = j /\ Command(j, n)[3] = n
  BY DEF Command
<1>7. /\ "cmd" # "garbage" /\ "cmd" # "panel" /\ "cmd" # "table" /\ "cmd" # "col"
  OBVIOUS
<1>8. Command(i, k) # Garbage /\ Command(i, k) # PanelPage
  BY <1>1, <1>3, <1>7
<1>9. \A h : Command(i, k) # Table(h)
  BY <1>1, <1>4, <1>7
<1>10. \A j, str : Command(i, k) # Text(j, str)
  BY <1>1, <1>5, <1>7
<1>11. \A j, n : Command(i, k) = Command(j, n) => i = j /\ k = n
  BY <1>1, <1>6
<1> QED BY <1>1, <1>2, <1>8, <1>9, <1>10, <1>11

LEMMA TextFacts ==
  ASSUME NEW i, NEW str
  PROVE  /\ Text(i, str)[1] = "col" /\ Place(Text(i, str)) = i
         /\ Text(i, str) # Garbage /\ Text(i, str) # PanelPage
         /\ \A h : Text(i, str) # Table(h)
<1>1. Text(i, str)[1] = "col" /\ Text(i, str)[2] = i
  BY DEF Text
<1>2. Place(Text(i, str)) = i
  BY <1>1 DEF Place
<1>3. Garbage[1] = "garbage" /\ PanelPage[1] = "panel"
  BY DEF Garbage, PanelPage
<1>4. \A h : Table(h)[1] = "table"
  BY DEF Table
<1>5. /\ "col" # "garbage" /\ "col" # "panel" /\ "col" # "table"
  OBVIOUS
<1>6. Text(i, str) # Garbage /\ Text(i, str) # PanelPage
  BY <1>1, <1>3, <1>5
<1>7. \A h : Text(i, str) # Table(h)
  BY <1>1, <1>4, <1>5
<1> QED BY <1>1, <1>2, <1>6, <1>7

LEMMA RestFacts ==
  ASSUME NEW p \in InRest
  PROVE  /\ p # Garbage /\ Place(p) = 0 /\ p \in Shown(0) /\ p \in Pieces
         /\ \A i, k : p # Command(i, k)
         /\ \A i, str : p # Text(i, str)
<1>1. p = PanelPage \/ \E h : p = Table(h)
  BY DEF InRest
<1>2. p[1] \in {"panel", "table"}
  BY <1>1 DEF PanelPage, Table
<1>3. Garbage[1] = "garbage"
  BY DEF Garbage
<1>4. p # Garbage /\ Place(p) = 0
  BY <1>2, <1>3 DEF Place
<1>5. /\ \A i, k : p # Command(i, k)
      /\ \A i, str : p # Text(i, str)
  BY <1>1, CommandFacts, TextFacts
<1>6. p \in Shown(0) /\ p \in Pieces
  BY PlaceFacts DEF Shown, Pieces
<1> QED BY <1>4, <1>5, <1>6

LEMMA ColumnFacts ==
  ASSUME NEW i \in Column, NEW p \in InColumn(i)
  PROVE  /\ p # Garbage /\ p \notin InRest /\ Place(p) = i /\ p \in Shown(i) /\ p \in Pieces
         /\ p[1] \in {"col", "cmd"}
         /\ p[1] = "cmd" => \E k \in Nat : p = Command(i, k)
<1>1. (\E str : p = Text(i, str)) \/ \E k \in Nat : p = Command(i, k)
  BY DEF InColumn
<1>2. p # Garbage /\ Place(p) = i /\ p[1] \in {"col", "cmd"}
  BY <1>1, CommandFacts, TextFacts
<1>3. p \notin InRest
  BY <1>1, CommandFacts, TextFacts DEF InRest
<1>4. p \in Shown(i) /\ p \in Pieces
  BY PlaceFacts DEF Shown, Pieces
<1>5. p[1] = "cmd" => \E k \in Nat : p = Command(i, k)
  <2>1. "col" # "cmd"
    OBVIOUS
  <2> QED BY <1>1, <2>1, TextFacts
<1> QED BY <1>2, <1>3, <1>4, <1>5

(* Every piece but garbage has one place.                                    *)
LEMMA PieceFacts ==
  ASSUME NEW p \in Pieces, p # Garbage
  PROVE  /\ Place(p) \in Places /\ p \in Shown(Place(p))
         /\ \A i \in Column : \A k : p = Command(i, k) => Place(p) = i
         /\ \A i \in Column : p = Prompt(i) => Place(p) = i
<1>1. PICK i \in Places : p \in Shown(i)
  BY DEF Pieces
<1>2. Place(p) = i
  <2>1. CASE i = 0
    BY <1>1, <2>1, RestFacts DEF Shown
  <2>2. CASE i # 0
    <3>1. i \in Column /\ p \in InColumn(i)
      BY <1>1, <2>2, PlaceFacts DEF Shown
    <3> QED BY <3>1, ColumnFacts
  <2> QED BY <2>1, <2>2
<1> QED BY <1>1, <1>2, CommandFacts, TextFacts DEF Prompt

LEMMA PromptFacts ==
  ASSUME NEW i \in Column
  PROVE  /\ Prompt(i) \in InColumn(i) /\ \A k : Prompt(i) # Command(i, k)
         /\ \A k \in Nat : Command(i, k) \in InColumn(i)
BY CommandFacts DEF Prompt, InColumn

-----------------------------------------------------------------------------
(* Commands in a stream that grows at its end or is read at its beginning.   *)

LEMMA NumsAdd ==
  ASSUME NEW S, NEW s \in Seq(S), NEW p \in S, NEW i
  PROVE  /\ \A n \in 0 .. Len(s) : Nums(i, Append(s, p), n) = Nums(i, s, n)
         /\ Nums(i, Append(s, p), Len(s) + 1)
              = Nums(i, s, Len(s)) \cup {k \in Nat : p = Command(i, k)}
<1>1. /\ Len(s) \in Nat
      /\ \A m \in 1 .. Len(s) : Append(s, p)[m] = s[m]
      /\ Append(s, p)[Len(s) + 1] = p
  OBVIOUS
<1>2. ASSUME NEW n \in 0 .. Len(s) PROVE Nums(i, Append(s, p), n) = Nums(i, s, n)
  <2>1. \A m \in 1 .. n : Append(s, p)[m] = s[m]
    BY <1>1
  <2> QED BY <2>1 DEF Nums
<1>3. Nums(i, Append(s, p), Len(s) + 1) = Nums(i, s, Len(s)) \cup {k \in Nat : p = Command(i, k)}
  <2>1. \A m : m \in 1 .. Len(s) + 1 <=> m \in 1 .. Len(s) \/ m = Len(s) + 1
    BY <1>1
  <2> QED BY <1>1, <2>1 DEF Nums
<1> QED BY <1>2, <1>3

LEMMA NumsTake ==
  ASSUME NEW S, NEW s \in Seq(S), s # <<>>, NEW i, NEW n \in 0 .. Len(s) - 1
  PROVE  Nums(i, s, n + 1) = {k \in Nat : Head(s) = Command(i, k)} \cup Nums(i, Tail(s), n)
<1>1. /\ Len(s) \in Nat /\ Len(s) >= 1 /\ Head(s) = s[1]
      /\ Tail(s) \in Seq(S) /\ Len(Tail(s)) = Len(s) - 1
      /\ \A m \in 1 .. Len(s) - 1 : Tail(s)[m] = s[m + 1]
  OBVIOUS
<1>2. ASSUME NEW k \in Nat
      PROVE  (\E m \in 1 .. n + 1 : s[m] = Command(i, k))
               <=> Head(s) = Command(i, k) \/ \E m \in 1 .. n : Tail(s)[m] = Command(i, k)
  <2>1. ASSUME NEW m \in 1 .. n + 1, s[m] = Command(i, k), m # 1
        PROVE  \E l \in 1 .. n : Tail(s)[l] = Command(i, k)
    <3>1. m - 1 \in 1 .. n /\ Tail(s)[m - 1] = s[m]
      BY <1>1, <2>1
    <3> QED BY <2>1, <3>1
  <2>2. ASSUME NEW l \in 1 .. n, Tail(s)[l] = Command(i, k)
        PROVE  \E m \in 1 .. n + 1 : s[m] = Command(i, k)
    <3>1. l + 1 \in 1 .. n + 1 /\ Tail(s)[l] = s[l + 1]
      BY <1>1
    <3> QED BY <2>2, <3>1
  <2>3. 1 \in 1 .. n + 1
    OBVIOUS
  <2> QED BY <1>1, <2>1, <2>2, <2>3
<1> QED BY <1>2 DEF Nums

LEMMA CleanAdd ==
  ASSUME NEW S, NEW s \in Seq(S), NEW p \in S
  PROVE  /\ \A n \in 0 .. Len(s) : Clean(Append(s, p), n) <=> Clean(s, n)
         /\ Clean(Append(s, p), Len(s) + 1) <=> Clean(s, Len(s)) /\ p # Garbage
<1>1. /\ Len(s) \in Nat
      /\ \A m \in 1 .. Len(s) : Append(s, p)[m] = s[m]
      /\ Append(s, p)[Len(s) + 1] = p
  OBVIOUS
<1>2. \A m : m \in 1 .. Len(s) + 1 <=> m \in 1 .. Len(s) \/ m = Len(s) + 1
  BY <1>1
<1>3. \A n \in 0 .. Len(s) : \A m \in 1 .. n : m \in 1 .. Len(s)
  BY <1>1
<1>4. \A n \in 0 .. Len(s) : Clean(Append(s, p), n) <=> Clean(s, n)
  BY <1>1, <1>3 DEF Clean
<1>5. Clean(Append(s, p), Len(s) + 1) <=> Clean(s, Len(s)) /\ p # Garbage
  BY <1>1, <1>2 DEF Clean
<1> QED BY <1>4, <1>5

LEMMA CleanTake ==
  ASSUME NEW S, NEW s \in Seq(S), s # <<>>, NEW n \in 0 .. Len(s) - 1
  PROVE  Clean(s, n + 1) <=> Head(s) # Garbage /\ Clean(Tail(s), n)
<1>1. /\ Len(s) \in Nat /\ Len(s) >= 1 /\ Head(s) = s[1]
      /\ \A m \in 1 .. Len(s) - 1 : Tail(s)[m] = s[m + 1]
  OBVIOUS
<1>2. ASSUME Clean(s, n + 1) PROVE Head(s) # Garbage /\ Clean(Tail(s), n)
  <2>1. 1 \in 1 .. n + 1 /\ \A m \in 1 .. n : m + 1 \in 1 .. n + 1 /\ Tail(s)[m] = s[m + 1]
    BY <1>1
  <2> QED BY <1>1, <1>2, <2>1 DEF Clean
<1>3. ASSUME Head(s) # Garbage, Clean(Tail(s), n) PROVE Clean(s, n + 1)
  <2>1. \A m \in 1 .. n + 1 : m = 1 \/ (m - 1 \in 1 .. n /\ Tail(s)[m - 1] = s[m])
    BY <1>1
  <2> QED BY <1>1, <1>3, <2>1 DEF Clean
<1> QED BY <1>2, <1>3

(* Writing a piece that is no command of the column.                         *)
LEMMA AddPiece ==
  ASSUME NEW i \in Column, NEW col \in Seq(Pieces), NEW s \in Seq(Pieces), NEW p \in Pieces,
         \A k \in Nat : p # Command(i, k),
         Coming(i, col, s)
  PROVE  /\ Coming(i, col, Append(s, p))
         /\ \A w, n : Counted(i, col, s, w, n) => Counted(i, col, Append(s, p), w, n)
<1>1. /\ Len(s) \in Nat /\ Append(s, p) \in Seq(Pieces) /\ Len(Append(s, p)) = Len(s) + 1
      /\ \A m \in 1 .. Len(s) : Append(s, p)[m] = s[m]
      /\ Append(s, p)[Len(s) + 1] = p
  OBVIOUS
<1>2. Coming(i, col, Append(s, p))
  <2> SUFFICES ASSUME NEW j \in 1 .. Len(s) + 1, NEW k \in Nat,
                      Clean(Append(s, p), j), Append(s, p)[j] = Command(i, k)
               PROVE  /\ Follows(i, col, Append(s, p), j)
                      /\ Nums(i, col, Len(col)) \cup Nums(i, Append(s, p), j - 1) = 1 .. k - 1
    BY <1>1 DEF Coming
  <2>1. j \in 1 .. Len(s) /\ j \in 0 .. Len(s) /\ j - 1 \in 0 .. Len(s)
    BY <1>1
  <2>2. s[j] = Command(i, k) /\ Clean(s, j)
    BY <1>1, <2>1, CleanAdd
  <2>3. Follows(i, col, s, j) /\ Nums(i, col, Len(col)) \cup Nums(i, s, j - 1) = 1 .. k - 1
    BY <2>1, <2>2 DEF Coming
  <2>4. Nums(i, Append(s, p), j - 1) = Nums(i, s, j - 1)
    BY <2>1, NumsAdd
  <2>5. j > 1 => j - 1 \in 1 .. Len(s)
    BY <2>1
  <2>6. Follows(i, col, Append(s, p), j)
    BY <1>1, <2>3, <2>5 DEF Follows
  <2> QED BY <2>3, <2>4, <2>6
<1>3. ASSUME NEW w, NEW n, Counted(i, col, s, w, n)
      PROVE  Counted(i, col, Append(s, p), w, n)
  <2> SUFFICES ASSUME w = <<>>, Clean(Append(s, p), Len(s) + 1)
               PROVE  Nums(i, col, Len(col)) \cup Nums(i, Append(s, p), Len(s) + 1) = 1 .. n
    BY <1>1 DEF Counted
  <2>1. Clean(s, Len(s))
    BY CleanAdd
  <2>2. Nums(i, Append(s, p), Len(s) + 1) = Nums(i, s, Len(s)) \cup {k \in Nat : p = Command(i, k)}
    BY NumsAdd
  <2>3. Nums(i, Append(s, p), Len(s) + 1) = Nums(i, s, Len(s))
    BY <2>2
  <2> QED BY <1>3, <2>1, <2>3 DEF Counted
<1> QED BY <1>2, <1>3

(* What comes behind garbage does not count.                                 *)
LEMMA AddGarbage ==
  ASSUME NEW i \in Column, NEW col \in Seq(Pieces), NEW s \in Seq(Pieces), Coming(i, col, s)
  PROVE  /\ Coming(i, col, Append(s, Garbage))
         /\ \A w, n : Counted(i, col, Append(s, Garbage), w, n)
<1>1. Garbage \in Pieces /\ \A k \in Nat : Garbage # Command(i, k)
  BY CommandFacts DEF Pieces
<1>2. Coming(i, col, Append(s, Garbage))
  BY <1>1, AddPiece
<1>3. Len(Append(s, Garbage)) = Len(s) + 1 /\ ~Clean(Append(s, Garbage), Len(s) + 1)
  BY <1>1, CleanAdd
<1> QED BY <1>2, <1>3 DEF Counted

(* Writing the next command of the column, right behind its prompt.          *)
LEMMA AddCommand ==
  ASSUME NEW i \in Column, NEW col \in Seq(Pieces), NEW s \in Seq(Pieces), NEW n \in Nat,
         Coming(i, col, s), Counted(i, col, s, <<>>, n),
         s # <<>>, s[Len(s)] = Prompt(i), NEW p \in Pieces, p = Command(i, n + 1)
  PROVE  /\ Coming(i, col, Append(s, p))
         /\ Counted(i, col, Append(s, p), <<>>, n + 1)
<1> DEFINE t == Append(s, p)
<1>0. p # Garbage
  BY CommandFacts
<1>1. /\ Len(s) \in Nat /\ Len(s) >= 1 /\ t \in Seq(Pieces) /\ Len(t) = Len(s) + 1
      /\ \A m \in 1 .. Len(s) : t[m] = s[m]
      /\ t[Len(s) + 1] = p
  OBVIOUS
<1>2. /\ \A m \in 0 .. Len(s) : Nums(i, t, m) = Nums(i, s, m)
      /\ Nums(i, t, Len(s) + 1) = Nums(i, s, Len(s)) \cup {k \in Nat : p = Command(i, k)}
  BY NumsAdd
<1>3. {k \in Nat : p = Command(i, k)} = {n + 1}
  BY CommandFacts
<1>4. /\ \A m \in 0 .. Len(s) : Clean(t, m) <=> Clean(s, m)
      /\ Clean(t, Len(s) + 1) <=> Clean(s, Len(s))
  BY <1>0, CleanAdd
<1> HIDE DEF t
<1>5. Coming(i, col, t)
  <2> SUFFICES ASSUME NEW j \in 1 .. Len(s) + 1, NEW k \in Nat, Clean(t, j), t[j] = Command(i, k)
               PROVE  /\ Follows(i, col, t, j)
                      /\ Nums(i, col, Len(col)) \cup Nums(i, t, j - 1) = 1 .. k - 1
    BY <1>1 DEF Coming
  <2>1. CASE j \in 1 .. Len(s)
    <3>1. j \in 0 .. Len(s) /\ j - 1 \in 0 .. Len(s) /\ (j > 1 => j - 1 \in 1 .. Len(s))
      BY <1>1, <2>1
    <3>2. s[j] = Command(i, k) /\ Clean(s, j)
      BY <1>1, <1>4, <2>1, <3>1
    <3>3. Follows(i, col, s, j) /\ Nums(i, col, Len(col)) \cup Nums(i, s, j - 1) = 1 .. k - 1
      BY <2>1, <3>2 DEF Coming
    <3>4. Follows(i, col, t, j)
      BY <1>1, <3>1, <3>3 DEF Follows
    <3> QED BY <1>2, <3>1, <3>3, <3>4
  <2>2. CASE j = Len(s) + 1
    <3>1. k = n + 1
      BY <1>1, <2>2, CommandFacts
    <3>2. Follows(i, col, t, j)
      BY <1>1, <2>2 DEF Follows
    <3>3. Clean(s, Len(s))
      BY <1>4, <2>2
    <3>4. Nums(i, col, Len(col)) \cup Nums(i, s, Len(s)) = 1 .. n
      BY <3>3 DEF Counted
    <3>5. j - 1 = Len(s) /\ Nums(i, t, j - 1) = Nums(i, s, Len(s)) /\ k - 1 = n
      BY <1>1, <1>2, <2>2, <3>1
    <3> QED BY <3>2, <3>4, <3>5
  <2> QED BY <1>1, <2>1, <2>2
<1>6. Counted(i, col, t, <<>>, n + 1)
  <2> SUFFICES ASSUME Clean(t, Len(s) + 1)
               PROVE  Nums(i, col, Len(col)) \cup Nums(i, t, Len(s) + 1) = 1 .. n + 1
    BY <1>1 DEF Counted
  <2>1. Nums(i, col, Len(col)) \cup Nums(i, s, Len(s)) = 1 .. n
    BY <1>4 DEF Counted
  <2>2. 1 .. n + 1 = (1 .. n) \cup {n + 1}
    OBVIOUS
  <2> QED BY <1>2, <1>3, <2>1, <2>2
<1> QED BY <1>5, <1>6 DEF t

(* The browser takes a piece of another place.                               *)
LEMMA TakePiece ==
  ASSUME NEW i \in Column, NEW col \in Seq(Pieces), NEW s \in Seq(Pieces), s # <<>>,
         Head(s) # Garbage, Head(s) # Prompt(i), \A k \in Nat : Head(s) # Command(i, k),
         Coming(i, col, s)
  PROVE  /\ Coming(i, col, Tail(s))
         /\ \A w, n : Counted(i, col, s, w, n) => Counted(i, col, Tail(s), w, n)
<1>1. /\ Len(s) \in Nat /\ Len(s) >= 1 /\ Head(s) = s[1]
      /\ Tail(s) \in Seq(Pieces) /\ Len(Tail(s)) = Len(s) - 1
      /\ \A m \in 1 .. Len(s) - 1 : Tail(s)[m] = s[m + 1]
  OBVIOUS
<1>2. \A n \in 0 .. Len(s) - 1 : Nums(i, s, n + 1) = Nums(i, Tail(s), n)
  <2>1. {k \in Nat : Head(s) = Command(i, k)} = {}
    OBVIOUS
  <2>2. \A n \in 0 .. Len(s) - 1 :
          Nums(i, s, n + 1) = {k \in Nat : Head(s) = Command(i, k)} \cup Nums(i, Tail(s), n)
    BY NumsTake
  <2> QED BY <2>1, <2>2
<1>3. \A n \in 0 .. Len(s) - 1 : Clean(s, n + 1) <=> Clean(Tail(s), n)
  BY CleanTake
<1>4. Coming(i, col, Tail(s))
  <2> SUFFICES ASSUME NEW j \in 1 .. Len(s) - 1, NEW k \in Nat,
                      Clean(Tail(s), j), Tail(s)[j] = Command(i, k)
               PROVE  /\ Follows(i, col, Tail(s), j)
                      /\ Nums(i, col, Len(col)) \cup Nums(i, Tail(s), j - 1) = 1 .. k - 1
    BY <1>1 DEF Coming
  <2>1. /\ j \in 0 .. Len(s) - 1 /\ j - 1 \in 0 .. Len(s) - 1 /\ j + 1 \in 1 .. Len(s)
        /\ (j + 1) - 1 = j /\ (j - 1) + 1 = j /\ j + 1 > 1
        /\ (j > 1 => j - 1 \in 1 .. Len(s) - 1)
    BY <1>1
  <2>2. Clean(s, j + 1) /\ s[j + 1] = Command(i, k)
    BY <1>1, <1>3, <2>1
  <2>3. /\ Follows(i, col, s, j + 1)
        /\ Nums(i, col, Len(col)) \cup Nums(i, s, (j + 1) - 1) = 1 .. k - 1
    BY <2>1, <2>2 DEF Coming
  <2>4. Nums(i, s, j) = Nums(i, Tail(s), j - 1)
    BY <1>2, <2>1
  <2>5. s[j] = Prompt(i)
    BY <2>1, <2>3 DEF Follows
  <2>6. j > 1
    BY <1>1, <2>5
  <2>7. Follows(i, col, Tail(s), j)
    BY <1>1, <2>1, <2>5, <2>6 DEF Follows
  <2> QED BY <2>1, <2>3, <2>4, <2>7
<1>5. ASSUME NEW w, NEW n, Counted(i, col, s, w, n) PROVE Counted(i, col, Tail(s), w, n)
  <2>1. Len(s) - 1 \in 0 .. Len(s) - 1 /\ (Len(s) - 1) + 1 = Len(s)
    BY <1>1
  <2>2. Nums(i, s, Len(s)) = Nums(i, Tail(s), Len(Tail(s)))
    BY <1>1, <1>2, <2>1
  <2>3. Clean(s, Len(s)) <=> Clean(Tail(s), Len(Tail(s)))
    BY <1>1, <1>3, <2>1
  <2> QED BY <1>5, <2>2, <2>3 DEF Counted
<1> QED BY <1>4, <1>5

(* The browser takes a piece of the column, and shows it.                    *)
LEMMA TakeOwn ==
  ASSUME NEW i \in Column, NEW col \in Seq(Pieces), NEW s \in Seq(Pieces), s # <<>>,
         Head(s) # Garbage,
         Sorted(i, col), Coming(i, col, s)
  PROVE  /\ Sorted(i, Append(col, Head(s)))
         /\ Coming(i, Append(col, Head(s)), Tail(s))
         /\ \A w, n : Counted(i, col, s, w, n)
                        => Counted(i, Append(col, Head(s)), Tail(s), w, n)
<1>1. /\ Len(s) \in Nat /\ Len(s) >= 1 /\ Head(s) = s[1] /\ Head(s) \in Pieces
      /\ Tail(s) \in Seq(Pieces) /\ Len(Tail(s)) = Len(s) - 1
      /\ \A m \in 1 .. Len(s) - 1 : Tail(s)[m] = s[m + 1]
  OBVIOUS
<1> DEFINE p == Head(s)
           more == Append(col, p)
           rest == Tail(s)
<1> HIDE DEF p
<1>2. /\ Len(col) \in Nat /\ more \in Seq(Pieces) /\ Len(more) = Len(col) + 1 /\ more # <<>>
      /\ \A m \in 1 .. Len(col) : more[m] = col[m]
      /\ more[Len(col) + 1] = p
  <2>1. p \in Pieces
    BY <1>1 DEF p
  <2> QED BY <2>1
<1>3. \A n \in 0 .. Len(s) - 1 :
        Nums(i, s, n + 1) = {k \in Nat : p = Command(i, k)} \cup Nums(i, rest, n)
  BY NumsTake DEF p
<1>4. \A n \in 0 .. Len(s) - 1 : Clean(s, n + 1) <=> Clean(rest, n)
  BY CleanTake
<1>5. /\ \A n \in 0 .. Len(col) : Nums(i, more, n) = Nums(i, col, n)
      /\ Nums(i, more, Len(more)) = Nums(i, col, Len(col)) \cup {k \in Nat : p = Command(i, k)}
  <2>1. p \in Pieces
    BY <1>1 DEF p
  <2> QED BY <1>2, <2>1, NumsAdd
<1> HIDE DEF more, rest
<1>6. \A n \in 0 .. Len(s) - 1 :
        Nums(i, more, Len(more)) \cup Nums(i, rest, n)
          = Nums(i, col, Len(col)) \cup Nums(i, s, n + 1)
  BY <1>3, <1>5
<1>7. Sorted(i, more)
  <2> SUFFICES ASSUME NEW j \in 1 .. Len(col) + 1, NEW k \in Nat, more[j] = Command(i, k)
               PROVE  /\ j > 1 /\ more[j - 1] = Prompt(i)
                      /\ Nums(i, more, j - 1) = 1 .. k - 1
    BY <1>2 DEF Sorted
  <2>1. CASE j \in 1 .. Len(col)
    <3>1. j > 1 /\ col[j - 1] = Prompt(i) /\ Nums(i, col, j - 1) = 1 .. k - 1
      BY <1>2, <2>1 DEF Sorted
    <3>2. j - 1 \in 1 .. Len(col) /\ j - 1 \in 0 .. Len(col)
      BY <1>2, <2>1, <3>1
    <3> QED BY <1>2, <1>5, <3>1, <3>2
  <2>2. CASE j = Len(col) + 1
    <3>1. s[1] = Command(i, k) /\ 1 \in 1 .. Len(s) /\ 0 \in 0 .. Len(s) - 1
      BY <1>1, <1>2, <2>2 DEF p
    <3>2. Clean(s, 1)
      BY <1>1 DEF Clean
    <3>3. Follows(i, col, s, 1) /\ Nums(i, col, Len(col)) \cup Nums(i, s, 1 - 1) = 1 .. k - 1
      BY <3>1, <3>2 DEF Coming
    <3>4. col # <<>> /\ col[Len(col)] = Prompt(i)
      BY <3>3 DEF Follows
    <3>5. Nums(i, s, 1 - 1) = {}
      BY DEF Nums
    <3>6. Len(col) >= 1 /\ Len(col) \in 1 .. Len(col) /\ Len(col) \in 0 .. Len(col) /\ j - 1 = Len(col)
      BY <1>2, <2>2, <3>4
    <3>7. Nums(i, more, j - 1) = 1 .. k - 1
      BY <1>5, <3>3, <3>5, <3>6
    <3> QED BY <1>2, <2>2, <3>4, <3>6, <3>7
  <2> QED BY <1>2, <2>1, <2>2
<1>8. Coming(i, more, rest)
  <2> SUFFICES ASSUME NEW j \in 1 .. Len(s) - 1, NEW k \in Nat,
                      Clean(rest, j), rest[j] = Command(i, k)
               PROVE  /\ Follows(i, more, rest, j)
                      /\ Nums(i, more, Len(more)) \cup Nums(i, rest, j - 1) = 1 .. k - 1
    BY <1>1 DEF Coming, rest
  <2>1. /\ j \in 0 .. Len(s) - 1 /\ j - 1 \in 0 .. Len(s) - 1 /\ j + 1 \in 1 .. Len(s)
        /\ (j + 1) - 1 = j /\ (j - 1) + 1 = j /\ j + 1 > 1
        /\ (j > 1 => j - 1 \in 1 .. Len(s) - 1)
    BY <1>1
  <2>2. Clean(s, j + 1) /\ s[j + 1] = Command(i, k)
    BY <1>1, <1>4, <2>1 DEF rest
  <2>3. /\ Follows(i, col, s, j + 1)
        /\ Nums(i, col, Len(col)) \cup Nums(i, s, (j + 1) - 1) = 1 .. k - 1
    BY <2>1, <2>2 DEF Coming
  <2>4. Nums(i, more, Len(more)) \cup Nums(i, rest, j - 1) = 1 .. k - 1
    BY <1>6, <2>1, <2>3
  <2>5. s[j] = Prompt(i)
    BY <2>1, <2>3 DEF Follows
  <2>6. Follows(i, more, rest, j)
    <3>1. CASE j > 1
      BY <1>1, <2>1, <2>5, <3>1 DEF Follows, rest
    <3>2. CASE j = 1
      BY <1>1, <1>2, <2>5, <3>2 DEF Follows, p
    <3> QED BY <2>1, <3>1, <3>2
  <2> QED BY <2>4, <2>6
<1>9. ASSUME NEW w, NEW n, Counted(i, col, s, w, n) PROVE Counted(i, more, rest, w, n)
  <2>1. Len(s) - 1 \in 0 .. Len(s) - 1 /\ (Len(s) - 1) + 1 = Len(s) /\ Len(rest) = Len(s) - 1
    BY <1>1 DEF rest
  <2>2. Nums(i, more, Len(more)) \cup Nums(i, rest, Len(rest))
          = Nums(i, col, Len(col)) \cup Nums(i, s, Len(s))
    BY <1>6, <2>1
  <2>3. Clean(s, Len(s)) <=> Clean(rest, Len(rest))
    BY <1>4, <2>1
  <2> QED BY <1>9, <2>2, <2>3 DEF Counted
<1> QED BY <1>7, <1>8, <1>9 DEF more, rest, p

-----------------------------------------------------------------------------
(* What async_write() leaves of its pieces.                                  *)
LEMMA Written ==
  ASSUME Types, NEW c \in Connections, NEW pieces \in Seq(Pieces), async_write(c, pieces)
  PROVE  /\ down' \in [Connections -> Seq(Pieces)] /\ writing' \in [Connections -> Seq({Garbage})]
         /\ \A d \in Connections : Len(down'[d]) <= Room
         /\ \A d \in Connections \ {c} : down'[d] = down[d] /\ writing'[d] = writing[d]
         /\ c \in gone => down'[c] = down[c] /\ writing'[c] = writing[c]
         /\ c \notin gone =>
              \E n \in 0 .. Len(pieces) :
                /\ down'[c] = down[c] \o SubSeq(pieces, 1, n)
                /\ n = Len(pieces) => writing'[c] = writing[c]
                /\ n # Len(pieces) => writing'[c] # <<>>
                /\ n # 0 => writing[c] = <<>>
<1>1. /\ down \in [Connections -> Seq(Pieces)] /\ writing \in [Connections -> Seq({Garbage})]
      /\ \A d \in Connections : Len(down[d]) <= Room
      /\ Room \in Nat
  <2>1. Room \in Nat
    BY CgiAssumption
  <2> QED BY <2>1 DEF Types, TypeOK
<1>2. CASE c \in gone
  <2>1. UNCHANGED <<down, writing>>
    BY <1>2 DEF async_write, page
  <2> QED BY <1>1, <1>2, <2>1
<1>3. CASE c \notin gone
  <2> DEFINE room == IF writing[c] = <<>> THEN Room - Len(down[c]) ELSE 0
             n == IF room < Len(pieces) THEN room ELSE Len(pieces)
             gap == [k \in 1 .. Len(pieces) - n |-> Garbage]
  <2>1. /\ down' = [down EXCEPT ![c] = @ \o SubSeq(pieces, 1, n)]
        /\ writing' = [writing EXCEPT ![c] = @ \o gap]
    BY <1>3 DEF async_write
  <2>2. down[c] \in Seq(Pieces) /\ writing[c] \in Seq({Garbage}) /\ Len(down[c]) <= Room
        /\ Len(down[c]) \in Nat /\ Len(pieces) \in Nat
    BY <1>1
  <2>3. /\ room \in Nat /\ Len(down[c]) + room <= Room
        /\ room # 0 => writing[c] = <<>>
    BY <1>1, <2>2
  <2> HIDE DEF room
  <2>4. /\ n \in 0 .. Len(pieces) /\ Len(down[c]) + n <= Room
        /\ n # 0 => writing[c] = <<>>
    BY <2>2, <2>3, <1>1
  <2> HIDE DEF n
  <2>5. gap \in Seq({Garbage}) /\ Len(gap) = Len(pieces) - n
    BY <2>2, <2>4
  <2> HIDE DEF gap
  <2>6. PICK x \in Seq(Pieces), w \in Seq({Garbage}), g \in Seq({Garbage}), s \in Seq(Pieces) :
          x = down[c] /\ w = writing[c] /\ g = gap /\ s = SubSeq(pieces, 1, n)
    <3>1. SubSeq(pieces, 1, n) \in Seq(Pieces)
      BY <2>2, <2>4
    <3> QED BY <2>2, <2>5, <3>1
  <2>7. Len(s) = n
    BY <2>2, <2>4, <2>6
  <2>8. x \o s \in Seq(Pieces) /\ Len(x \o s) = Len(x) + Len(s)
        /\ w \o g \in Seq({Garbage}) /\ Len(w \o g) = Len(w) + Len(g)
        /\ (Len(g) = 0 => w \o g = w) /\ (Len(w \o g) # 0 => w \o g # <<>>)
        /\ Len(g) \in Nat /\ Len(w) \in Nat
    OBVIOUS
  <2>9. down'[c] = x \o s /\ writing'[c] = w \o g
    BY <1>1, <2>1, <2>6
  <2>10. /\ \A d \in Connections \ {c} : down'[d] = down[d] /\ writing'[d] = writing[d]
         /\ down' \in [Connections -> Seq(Pieces)] /\ writing' \in [Connections -> Seq({Garbage})]
    BY <1>1, <2>1, <2>6, <2>8
  <2>11. Len(down'[c]) <= Room
    BY <2>4, <2>6, <2>7, <2>8, <2>9
  <2>12. n = Len(pieces) => writing'[c] = writing[c]
    BY <2>2, <2>4, <2>5, <2>6, <2>8, <2>9
  <2>13. n # Len(pieces) => writing'[c] # <<>>
    <3> SUFFICES ASSUME n # Len(pieces) PROVE writing'[c] # <<>>
      OBVIOUS
    <3>1. Len(g) # 0
      BY <2>2, <2>4, <2>5, <2>6
    <3> QED BY <2>8, <2>9, <3>1
  <2>14. down'[c] = down[c] \o SubSeq(pieces, 1, n)
    BY <2>6, <2>9
  <2> QED BY <1>1, <1>3, <2>4, <2>10, <2>11, <2>12, <2>13, <2>14
<1> QED BY <1>2, <1>3

LEMMA FrontFacts ==
  ASSUME NEW S, NEW s \in Seq(S), NEW a \in S, NEW b \in S
  PROVE  /\ s \o SubSeq(<<a>>, 1, 0) = s /\ s \o SubSeq(<<a>>, 1, 1) = Append(s, a)
         /\ s \o SubSeq(<<a, b>>, 1, 0) = s /\ s \o SubSeq(<<a, b>>, 1, 1) = Append(s, a)
         /\ s \o SubSeq(<<a, b>>, 1, 2) = Append(Append(s, a), b)
<1>1. /\ SubSeq(<<a>>, 1, 0) = <<>> /\ SubSeq(<<a, b>>, 1, 0) = <<>>
      /\ SubSeq(<<a>>, 1, 1) = <<a>> /\ SubSeq(<<a, b>>, 1, 1) = <<a>>
      /\ SubSeq(<<a, b>>, 1, 2) = <<a, b>>
  <2>1. ASSUME NEW p \in Seq(S), NEW n \in 0 .. Len(p), NEW q \in Seq(S), Len(q) = n,
               \A k \in 1 .. n : q[k] = p[k]
        PROVE  SubSeq(p, 1, n) = q
    <3>1. SubSeq(p, 1, n) \in Seq(S) /\ Len(SubSeq(p, 1, n)) = n
          /\ \A k \in 1 .. n : SubSeq(p, 1, n)[k] = p[k]
      OBVIOUS
    <3> QED BY <2>1, <3>1, SeqEqual
  <2>2. /\ <<a>> \in Seq(S) /\ Len(<<a>>) = 1 /\ <<a>>[1] = a
        /\ <<a, b>> \in Seq(S) /\ Len(<<a, b>>) = 2 /\ <<a, b>>[1] = a /\ <<a, b>>[2] = b
        /\ <<>> \in Seq(S) /\ Len(<<>>) = 0
    OBVIOUS
  <2>3. \A k : /\ ~(k \in 1 .. 0)
               /\ k \in 1 .. 1 => k = 1
               /\ k \in 1 .. 2 => k = 1 \/ k = 2
    OBVIOUS
  <2>4. 0 \in 0 .. 1 /\ 0 \in 0 .. 2 /\ 1 \in 0 .. 1 /\ 1 \in 0 .. 2 /\ 2 \in 0 .. 2
    OBVIOUS
  <2>5. SubSeq(<<a>>, 1, 0) = <<>> /\ SubSeq(<<a, b>>, 1, 0) = <<>>
    BY <2>1, <2>2, <2>3, <2>4
  <2>6. SubSeq(<<a>>, 1, 1) = <<a>> /\ SubSeq(<<a, b>>, 1, 1) = <<a>>
    <3>1. SubSeq(<<a>>, 1, 1) = <<a>>
      BY <2>1, <2>2, <2>4
    <3>2. \A k \in 1 .. 1 : <<a>>[k] = <<a, b>>[k]
      BY <2>2, <2>3
    <3>3. SubSeq(<<a, b>>, 1, 1) = <<a>>
      BY <2>1, <2>2, <2>4, <3>2
    <3> QED BY <3>1, <3>3
  <2>7. SubSeq(<<a, b>>, 1, 2) = <<a, b>>
    BY <2>1, <2>2, <2>3, <2>4
  <2> QED BY <2>5, <2>6, <2>7
<1>2. s \o <<>> = s
  OBVIOUS
<1>3. s \o <<a>> = Append(s, a)
  OBVIOUS
<1>4. s \o <<a, b>> = Append(Append(s, a), b)
  OBVIOUS
<1> QED BY <1>1, <1>2, <1>3, <1>4

(* One piece; and a text with the command that answers it.                   *)
LEMMA WrittenOne ==
  ASSUME Types, NEW c \in Connections, NEW a \in Pieces, async_write(c, <<a>>), c \notin gone
  PROVE  \/ down'[c] = down[c] /\ writing'[c] # <<>>
         \/ down'[c] = Append(down[c], a) /\ writing'[c] = writing[c]
<1>1. PICK p \in Seq(Pieces), s \in Seq(Pieces) : p = <<a>> /\ s = down[c]
  <2>1. down[c] \in Seq(Pieces)
    BY DEF Types
  <2>2. <<a>> \in Seq(Pieces)
    OBVIOUS
  <2> QED BY <2>1, <2>2
<1>2. Len(p) = 1
  BY <1>1
<1>3. PICK n \in 0 .. Len(p) :
        /\ down'[c] = s \o SubSeq(p, 1, n)
        /\ n = Len(p) => writing'[c] = writing[c]
        /\ n # Len(p) => writing'[c] # <<>>
        /\ n # 0 => writing[c] = <<>>
  BY <1>1, Written
<1>4. n = 0 \/ n = 1
  BY <1>2
<1>5. s \o SubSeq(<<a>>, 1, 0) = s /\ s \o SubSeq(<<a>>, 1, 1) = Append(s, a)
  BY FrontFacts
<1> QED BY <1>1, <1>2, <1>3, <1>4, <1>5

LEMMA WrittenTwo ==
  ASSUME Types, NEW c \in Connections, NEW a \in Pieces, NEW b \in Pieces,
         async_write(c, <<a, b>>), c \notin gone
  PROVE  \/ down'[c] = down[c] /\ writing'[c] # <<>>
         \/ down'[c] = Append(down[c], a) /\ writing'[c] # <<>>
         \/ /\ down'[c] = Append(Append(down[c], a), b)
            /\ writing'[c] = writing[c] /\ writing[c] = <<>>
<1>1. PICK p \in Seq(Pieces), s \in Seq(Pieces) : p = <<a, b>> /\ s = down[c]
  <2>1. down[c] \in Seq(Pieces)
    BY DEF Types
  <2>2. <<a, b>> \in Seq(Pieces)
    OBVIOUS
  <2> QED BY <2>1, <2>2
<1>2. Len(p) = 2
  BY <1>1
<1>3. PICK n \in 0 .. Len(p) :
        /\ down'[c] = s \o SubSeq(p, 1, n)
        /\ n = Len(p) => writing'[c] = writing[c]
        /\ n # Len(p) => writing'[c] # <<>>
        /\ n # 0 => writing[c] = <<>>
  BY <1>1, Written
<1>4. n = 0 \/ n = 1 \/ n = 2
  BY <1>2
<1>5. /\ s \o SubSeq(<<a, b>>, 1, 0) = s /\ s \o SubSeq(<<a, b>>, 1, 1) = Append(s, a)
      /\ s \o SubSeq(<<a, b>>, 1, 2) = Append(Append(s, a), b)
  BY FrontFacts
<1> QED BY <1>1, <1>2, <1>3, <1>4, <1>5

-----------------------------------------------------------------------------
(* Connections that a step does not concern, and columns it does not change. *)

Untouched(d) ==
  /\ at'[d] = at[d] /\ request'[d] = request[d] /\ (d \in gone' <=> d \in gone)
  /\ st'[d] = st[d] /\ to'[d] = to[d] /\ pos'[d] = pos[d]
  /\ down'[d] = down[d] /\ writing'[d] = writing[d]
  /\ seen'[d] = seen[d] /\ (d \in spoilt' <=> d \in spoilt)

LEMMA OrderStays ==
  ASSUME NEW c \in Connections, NEW i \in Column, InOrder(c, i),
         seen'[c] = seen[c], down'[c] = down[c], writing'[c] = writing[c], pos'[c] = pos[c],
         c \in gone => c \in gone', c \in spoilt => c \in spoilt'
  PROVE  InOrder(c, i)'
BY DEF InOrder

LEMMA UntouchedStays ==
  ASSUME NEW d \in Connections, Untouched(d), Fresh(d), Own(d),
         \A i \in Column : InOrder(d, i)
  PROVE  Fresh(d)' /\ Own(d)' /\ \A i \in Column : InOrder(d, i)'
<1>1. Fresh(d)'
  BY DEF Untouched, Fresh
<1>2. Own(d)'
  BY DEF Untouched, Own, ByQuery
<1>3. \A i \in Column : InOrder(d, i)'
  BY OrderStays DEF Untouched
<1> QED BY <1>1, <1>2, <1>3

LEMMA StepOf ==
  ASSUME CgiInv, NEW c \in Connections, Types', \A d \in Connections \ {c} : Untouched(d),
         Fresh(c)', Own(c)', \A i \in Column : InOrder(c, i)'
  PROVE  CgiInv'
<1>1. ASSUME NEW d \in Connections
      PROVE  Fresh(d)' /\ Own(d)' /\ \A i \in Column : InOrder(d, i)'
  <2>1. CASE d = c
    BY <2>1
  <2>2. CASE d # c
    BY <2>2, UntouchedStays DEF CgiInv
  <2> QED BY <2>1, <2>2
<1> QED BY <1>1 DEF CgiInv

-----------------------------------------------------------------------------
(* Requests and their queries.                                               *)
LEMMA QueryFacts ==
  ASSUME NEW q \in Queries
  PROVE  /\ q \in [Column -> STRING] /\ q # Unset
         /\ \A i \in Column : q[i] # "None"
         /\ parse_query(q) \in [Column -> Hosts]
         /\ \A i \in Column : parse_query(q)[i] = IF q[i] = "" THEN "None" ELSE q[i]
<1>1. q \in [Column -> STRING] /\ q # Unset
  <2>1. PICK r \in Requests : q = r.query /\ q # Unset
    BY DEF Queries
  <2>2. PICK c \in Connections : r \in Asks[c]
    BY CgiAssumption DEF Requests, Range
  <2>3. r \in Request
    BY <2>2, CgiAssumption
  <2> QED BY <2>1, <2>3 DEF Request
<1>2. \A i \in Column : q[i] \in Range(q)
  BY <1>1 DEF Range
<1>3. \A i \in Column : q[i] # "None"
  BY <1>2, CgiAssumption
<1>4. \A i \in Column : q[i] # "" => q[i] \in Hosts
  BY <1>2 DEF Hosts
<1>5. "None" \in Hosts
  BY DEF Hosts
<1> QED BY <1>1, <1>3, <1>4, <1>5 DEF parse_query

LEMMA ParseFacts ==
  ASSUME Types, NEW c \in Connections, request[c] # NoRequest
  PROVE  /\ parse(environ, request[c]).QUERY_STRING \in {Unset} \cup Queries
         /\ request[c].query # Unset =>
              parse(environ, request[c]).QUERY_STRING = request[c].query
<1>1. request[c] \in Requests
  BY DEF Types, TypeOK
<1>2. request[c].query = Unset \/ request[c].query \in Queries
  BY <1>1 DEF Queries
<1> QED BY <1>2 DEF Types, parse

-----------------------------------------------------------------------------
(* The actions.                                                              *)

(* Connections that come and go, and requests without an answer.             *)
LEMMA AtKeeps ==
  ASSUME CgiInv, NEW c \in Connections, NEW x \in {"idle", "backlog", "open", "busy", "closed"},
         at[c] # "busy", at' = [at EXCEPT ![c] = x],
         x = "busy" => request[c] # NoRequest /\ request[c].cgi # "console.cgi",
         environ'.QUERY_STRING \in {Unset} \cup Queries,
         UNCHANGED <<alive, Host, shell, page, browser>>
  PROVE  CgiInv'
<1>1. /\ UNCHANGED <<alive, Host, st, to, pos, told, down, writing, request, gone, seen, spoilt>>
  BY DEF shell, page, browser
<1>2. Types /\ Fresh(c) /\ \A i \in Column : InOrder(c, i)
  BY DEF CgiInv
<1>3. at' \in [Connections -> {"idle", "backlog", "open", "busy", "closed"}]
      /\ at'[c] = x /\ \A d \in Connections \ {c} : at'[d] = at[d]
  BY <1>2 DEF Types, TypeOK
<1>4. Types'
  BY <1>1, <1>2, <1>3 DEF Types, TypeOK
<1>5. Fresh(c)'
  BY <1>1, <1>2, <1>3 DEF Fresh
<1>6. Own(c)'
  BY <1>1, <1>3 DEF Own, ByQuery
<1>7. \A i \in Column : InOrder(c, i)'
  BY <1>1, <1>2, OrderStays
<1>8. \A d \in Connections \ {c} : Untouched(d)
  BY <1>1, <1>3 DEF Untouched
<1> QED BY <1>4, <1>5, <1>6, <1>7, <1>8, StepOf

LEMMA AskKeeps ==
  ASSUME CgiInv, NEW c \in Connections, Ask(c)
  PROVE  CgiInv'
<1>1. /\ UNCHANGED <<alive, at, environ, Host, st, to, pos, told, down, writing, gone, seen, spoilt>>
      /\ at[c] # "busy"
  BY DEF Ask, http, shell, page
<1>2. Types /\ Fresh(c) /\ \A i \in Column : InOrder(c, i)
  BY DEF CgiInv
<1>3. /\ request' \in [Connections -> Requests \cup {NoRequest}]
      /\ \A d \in Connections \ {c} : request'[d] = request[d]
  <2>1. PICK r \in Asks[c] : request' = [request EXCEPT ![c] = r]
    BY DEF Ask
  <2>2. r \in Requests
    BY <2>1, CgiAssumption DEF Requests, Range
  <2> QED BY <1>2, <2>1, <2>2 DEF Types, TypeOK
<1>4. Types'
  BY <1>1, <1>2, <1>3 DEF Types, TypeOK
<1>5. Fresh(c)'
  BY <1>1, <1>2 DEF Fresh
<1>6. Own(c)'
  BY <1>1 DEF Own, ByQuery
<1>7. \A i \in Column : InOrder(c, i)'
  BY <1>1, <1>2, OrderStays
<1>8. \A d \in Connections \ {c} : Untouched(d)
  BY <1>1, <1>3 DEF Untouched
<1> QED BY <1>4, <1>5, <1>6, <1>7, <1>8, StepOf

LEMMA CrashKeeps ==
  ASSUME CgiInv, NEW c \in Connections, Crash(c)
  PROVE  CgiInv'
<1>1. /\ UNCHANGED <<at, environ, Host, st, to, pos, told, down, writing, request, gone, seen, spoilt>>
      /\ alive' = FALSE
  BY DEF Crash, shell, page, browser
<1>2. Types'
  BY <1>1 DEF CgiInv, Types, TypeOK
<1>3. \A d \in Connections : Untouched(d)
  BY <1>1 DEF Untouched
<1> QED BY <1>2, <1>3, UntouchedStays DEF CgiInv

(* A browser that leaves: nothing reaches its page any more.                 *)
LEMMA LeaveKeeps ==
  ASSUME CgiInv, NEW c \in Connections, Leave(c)
  PROVE  CgiInv'
<1>1. /\ UNCHANGED <<alive, at, environ, Host, st, to, pos, told, request, seen, spoilt>>
      /\ gone' = gone \cup {c}
      /\ down' = [down EXCEPT ![c] = <<>>] /\ writing' = [writing EXCEPT ![c] = <<>>]
  BY DEF Leave, http, shell
<1>2. Types /\ Fresh(c) /\ Own(c) /\ \A i \in Column : InOrder(c, i)
  BY DEF CgiInv
<1>3. /\ down' \in [Connections -> Seq(Pieces)] /\ writing' \in [Connections -> Seq({Garbage})]
      /\ down'[c] = <<>> /\ writing'[c] = <<>>
      /\ \A d \in Connections \ {c} : down'[d] = down[d] /\ writing'[d] = writing[d]
  <2>1. <<>> \in Seq(Pieces) /\ <<>> \in Seq({Garbage})
    OBVIOUS
  <2> QED BY <1>1, <1>2, <2>1 DEF Types
<1>4. \A d \in Connections : Len(down'[d]) <= Room
  <2>1. \A d \in Connections : Len(down[d]) <= Room
    BY <1>2 DEF Types, TypeOK
  <2>2. Room \in Nat
    BY CgiAssumption
  <2>3. Len(<<>>) <= Room
    BY <2>2
  <2> QED BY <1>3, <2>1, <2>3
<1>5. Types'
  BY <1>1, <1>2, <1>3, <1>4 DEF Types, TypeOK
<1>6. Fresh(c)'
  BY <1>1, <1>2, <1>3 DEF Fresh
<1>7. Own(c)'
  <2>1. \A k : ~(k \in 1 .. Len(<<>>))
    OBVIOUS
  <2> QED BY <1>1, <1>2, <1>3, <2>1 DEF Own, ByQuery
<1>8. \A i \in Column : InOrder(c, i)'
  BY <1>1, <1>2 DEF InOrder
<1>9. \A d \in Connections \ {c} : Untouched(d)
  BY <1>1, <1>3 DEF Untouched
<1> QED BY <1>5, <1>6, <1>7, <1>8, <1>9, StepOf

(* A shell session that connects or ends.                                    *)
LEMMA SessionKeeps ==
  ASSUME CgiInv, NEW c \in Connections, NEW i \in Column, Connects(c, i) \/ Ends(c, i)
  PROVE  CgiInv'
<1>1. PICK h \in {"read", "done"} : st' = [st EXCEPT ![c][i] = h]
  BY DEF Connects, Ends, Goto, AfterError
<1>2. /\ UNCHANGED <<alive, at, environ, Host, to, pos, told, down, writing, request, gone,
                     seen, spoilt>>
      /\ st[c][i] # "none"
  BY DEF Connects, Ends, http, page, browser
<1>3. Types /\ Fresh(c) /\ Own(c) /\ \A j \in Column : InOrder(c, j)
  BY DEF CgiInv
<1>4. /\ st' \in [Connections -> [Column -> {"none", "resolve", "read", "done"}]]
      /\ \A d \in Connections \ {c} : st'[d] = st[d]
      /\ \A j \in Column : st'[c][j] = "none" <=> st[c][j] = "none"
  BY <1>1, <1>2, <1>3 DEF Types, TypeOK
<1>5. Types'
  BY <1>2, <1>3, <1>4 DEF Types, TypeOK
<1>6. Fresh(c)'
  BY <1>2, <1>3, <1>4 DEF Fresh
<1>7. Own(c)'
  BY <1>2, <1>3, <1>4 DEF Own, ByQuery
<1>8. \A j \in Column : InOrder(c, j)'
  BY <1>2, <1>3, OrderStays
<1>9. \A d \in Connections \ {c} : Untouched(d)
  BY <1>2, <1>4 DEF Untouched
<1> QED BY <1>5, <1>6, <1>7, <1>8, <1>9, StepOf

(* What a buffer that is gone leaves in the stream.                          *)
LEMMA CopyKeeps ==
  ASSUME CgiInv, NEW c \in Connections, Copy(c)
  PROVE  CgiInv'
<1>1. /\ UNCHANGED <<alive, at, environ, Host, st, to, pos, told, request, gone, seen, spoilt>>
      /\ writing[c] # <<>> /\ Len(down[c]) < Room
      /\ down' = [down EXCEPT ![c] = Append(@, Head(writing[c]))]
      /\ writing' = [writing EXCEPT ![c] = Tail(@)]
  BY DEF Copy, http, shell, browser
<1>2. Types /\ Fresh(c) /\ Own(c) /\ \A i \in Column : InOrder(c, i)
  BY DEF CgiInv
<1>3. PICK s \in Seq(Pieces), w \in Seq({Garbage}) : s = down[c] /\ w = writing[c]
  BY <1>2 DEF Types
<1>4. Head(w) = Garbage /\ Tail(w) \in Seq({Garbage})
  BY <1>1, <1>3
<1>5. Garbage \in Pieces /\ Garbage \notin InRest
  BY RestFacts DEF Pieces
<1>6. /\ Append(s, Garbage) \in Seq(Pieces) /\ Len(Append(s, Garbage)) = Len(s) + 1
      /\ \A k \in 1 .. Len(s) + 1 : k \in 1 .. Len(s) \/ k = Len(s) + 1
      /\ \A k \in 1 .. Len(s) : Append(s, Garbage)[k] = s[k]
      /\ Append(s, Garbage)[Len(s) + 1] = Garbage
      /\ Len(s) \in Nat
  BY <1>5
<1>7. /\ down' \in [Connections -> Seq(Pieces)] /\ writing' \in [Connections -> Seq({Garbage})]
      /\ down'[c] = Append(s, Garbage) /\ writing'[c] = Tail(w)
      /\ \A d \in Connections \ {c} : down'[d] = down[d] /\ writing'[d] = writing[d]
  BY <1>1, <1>2, <1>3, <1>4, <1>6 DEF Types
<1>8. \A d \in Connections : Len(down'[d]) <= Room
  <2>1. (\A d \in Connections : Len(down[d]) <= Room) /\ Room \in Nat
    BY <1>2, CgiAssumption DEF Types, TypeOK
  <2>2. Len(down'[c]) <= Room
    BY <1>1, <1>3, <1>6, <1>7, <2>1
  <2> QED BY <1>7, <2>1, <2>2
<1>9. Types'
  BY <1>1, <1>2, <1>7, <1>8 DEF Types, TypeOK
<1>10. at[c] = "busy" /\ Fresh(c)'
  BY <1>1, <1>2 DEF Fresh
<1>11. Own(c)'
  <2>1. ASSUME ByQuery(c), NEW k \in 1 .. Len(s) + 1, down'[c][k] \in InRest
        PROVE  down'[c][k] = Table(parse_query(request[c].query))
    <3>1. k \in 1 .. Len(s) /\ down'[c][k] = down[c][k]
      BY <1>3, <1>5, <1>6, <1>7, <2>1
    <3> QED BY <1>2, <1>3, <2>1, <3>1 DEF Own
  <2> QED BY <1>1, <1>2, <1>6, <1>7, <2>1 DEF Own, ByQuery
<1>12. ASSUME NEW i \in Column PROVE InOrder(c, i)'
  <2>1. Sorted(i, seen[c][i]) /\ seen[c][i] \in Seq(Pieces)
    BY <1>2, PlaceFacts DEF InOrder, Types
  <2>2. ASSUME c \notin spoilt \cup gone
        PROVE  /\ Coming(i, seen[c][i], Append(s, Garbage))
               /\ \A v, n : Counted(i, seen[c][i], Append(s, Garbage), v, n)
    <3>1. Coming(i, seen[c][i], s)
      BY <1>2, <1>3, <2>2 DEF InOrder
    <3> QED BY <2>1, <3>1, AddGarbage
  <2> QED BY <1>1, <1>7, <2>1, <2>2 DEF InOrder
<1>13. \A d \in Connections \ {c} : Untouched(d)
  BY <1>1, <1>7 DEF Untouched
<1> QED BY <1>9, <1>10, <1>11, <1>12, <1>13, StepOf

(* The panel, and the tables of a console.                                   *)
LEMMA PanelKeeps ==
  ASSUME CgiInv, NEW c \in Connections, Panel(c)
  PROVE  CgiInv'
<1>1. /\ UNCHANGED <<alive, Host, st, to, pos, told, request, gone, seen, spoilt>>
      /\ at[c] = "open" /\ request[c] # NoRequest /\ request[c].cgi = "panel.cgi"
      /\ environ' = parse(environ, request[c])
      /\ at' = [at EXCEPT ![c] = "busy"]
      /\ async_write(c, <<PanelPage>>)
  BY DEF Panel, Read, shell, browser
<1>2. Types /\ Fresh(c) /\ Own(c) /\ \A i \in Column : InOrder(c, i)
  BY DEF CgiInv
<1>3. PanelPage \in Pieces /\ PanelPage \in InRest /\ <<PanelPage>> \in Seq(Pieces)
  <2>1. PanelPage \in InRest
    BY DEF InRest
  <2>2. PanelPage \in Pieces
    BY <2>1, RestFacts
  <2> QED BY <2>1, <2>2
<1>4. /\ down' \in [Connections -> Seq(Pieces)] /\ writing' \in [Connections -> Seq({Garbage})]
      /\ \A d \in Connections : Len(down'[d]) <= Room
      /\ \A d \in Connections \ {c} : down'[d] = down[d] /\ writing'[d] = writing[d]
  BY <1>1, <1>2, <1>3, Written
<1>5. at' \in [Connections -> {"idle", "backlog", "open", "busy", "closed"}]
      /\ at'[c] = "busy" /\ \A d \in Connections \ {c} : at'[d] = at[d]
  BY <1>1, <1>2 DEF Types, TypeOK
<1>6. environ'.QUERY_STRING \in {Unset} \cup Queries
  BY <1>1, <1>2, ParseFacts
<1>7. Types'
  BY <1>1, <1>2, <1>4, <1>5, <1>6 DEF Types, TypeOK
<1>8. Fresh(c)'
  BY <1>1, <1>5 DEF Fresh
<1>9. Own(c)'
  <2>1. "panel.cgi" # "console.cgi"
    OBVIOUS
  <2> QED BY <1>1, <2>1 DEF Own, ByQuery
<1>10. ASSUME NEW i \in Column PROVE InOrder(c, i)'
  <2>1. Sorted(i, seen[c][i]) /\ seen[c][i] \in Seq(Pieces) /\ down[c] \in Seq(Pieces)
    BY <1>2, PlaceFacts DEF InOrder, Types
  <2>2. ASSUME c \notin spoilt \cup gone
        PROVE  /\ Coming(i, seen[c][i], down'[c])
               /\ Counted(i, seen[c][i], down'[c], writing'[c], pos[c][i])
    <3>1. Coming(i, seen[c][i], down[c]) /\ Counted(i, seen[c][i], down[c], writing[c], pos[c][i])
      BY <1>2, <2>2 DEF InOrder
    <3>2. \/ down'[c] = down[c] /\ writing'[c] # <<>>
          \/ down'[c] = Append(down[c], PanelPage) /\ writing'[c] = writing[c]
      BY <1>1, <1>2, <1>3, <2>2, WrittenOne
    <3>3. \A k \in Nat : PanelPage # Command(i, k)
      BY CommandFacts
    <3>4. /\ Coming(i, seen[c][i], Append(down[c], PanelPage))
          /\ Counted(i, seen[c][i], Append(down[c], PanelPage), writing[c], pos[c][i])
      BY <1>3, <2>1, <3>1, <3>3, AddPiece
    <3> QED BY <3>1, <3>2, <3>4 DEF Counted
  <2> QED BY <1>1, <2>1, <2>2 DEF InOrder
<1>11. \A d \in Connections \ {c} : Untouched(d)
  BY <1>1, <1>4, <1>5 DEF Untouched
<1> QED BY <1>7, <1>8, <1>9, <1>10, <1>11, StepOf

LEMMA ConsoleKeeps ==
  ASSUME CgiInv, NEW c \in Connections, Console(c)
  PROVE  CgiInv'
<1> DEFINE q == environ'.QUERY_STRING
<1>1. /\ UNCHANGED <<alive, pos, told, request, gone, seen, spoilt>>
      /\ at[c] = "open" /\ request[c] # NoRequest
      /\ environ' = parse(environ, request[c]) /\ q # Unset
      /\ Host' = parse_query(q)
      /\ at' = [at EXCEPT ![c] = "busy"]
      /\ async_write(c, <<Table(Host')>>)
      /\ st' = [st EXCEPT ![c] = [i \in Column |-> IF Host'[i] = "None" THEN "none" ELSE "resolve"]]
      /\ to' = [to EXCEPT ![c] = [i \in Column |-> IF Host'[i] = "None" THEN "" ELSE Host'[i]]]
  BY DEF Console, Read, browser
<1>2. Types /\ Fresh(c) /\ Own(c) /\ \A i \in Column : InOrder(c, i)
  BY DEF CgiInv
<1>3. q \in Queries /\ environ'.QUERY_STRING \in {Unset} \cup Queries
      /\ (request[c].query # Unset => q = request[c].query)
  BY <1>1, <1>2, ParseFacts
<1> HIDE DEF q
<1>4. /\ q \in [Column -> STRING] /\ Host' \in [Column -> Hosts]
      /\ \A i \in Column : q[i] # "None" /\ Host'[i] = IF q[i] = "" THEN "None" ELSE q[i]
  BY <1>1, <1>3, QueryFacts
<1>5. /\ st'[c] = [i \in Column |-> IF Host'[i] = "None" THEN "none" ELSE "resolve"]
      /\ to'[c] = [i \in Column |-> IF Host'[i] = "None" THEN "" ELSE Host'[i]]
      /\ \A d \in Connections \ {c} : st'[d] = st[d] /\ to'[d] = to[d]
      /\ st' \in [Connections -> [Column -> {"none", "resolve", "read", "done"}]]
      /\ to' \in [Connections -> [Column -> Hosts \cup {""}]]
  BY <1>1, <1>2, <1>4 DEF Types, TypeOK
<1>6. /\ \A i \in Column : st'[c][i] = "none" <=> q[i] = ""
      /\ \A i \in Column : to'[c][i] = q[i]
  BY <1>4, <1>5
<1>7. to'[c] = q
  <2>1. to'[c] \in [Column -> Hosts \cup {""}]
    BY <1>5
  <2>2. \A f \in [Column -> Hosts \cup {""}], g \in [Column -> STRING] :
          (\A i \in Column : f[i] = g[i]) => f = g
    <3> SUFFICES ASSUME NEW f \in [Column -> Hosts \cup {""}], NEW g \in [Column -> STRING],
                        \A i \in Column : f[i] = g[i]
                 PROVE  f = g
      OBVIOUS
    <3>1. f = [i \in Column |-> f[i]] /\ g = [i \in Column |-> g[i]]
      OBVIOUS
    <3> QED BY <3>1, Zenon
  <2> QED BY <1>4, <1>6, <2>1, <2>2
<1>8. /\ Table(Host') \in Pieces /\ Table(Host') \in InRest /\ <<Table(Host')>> \in Seq(Pieces)
      /\ \A i, k : Table(Host') # Command(i, k)
  <2>1. Table(Host') \in InRest
    BY <1>4 DEF InRest
  <2>2. Table(Host') \in Pieces
    BY <2>1, RestFacts
  <2> QED BY <2>1, <2>2, CommandFacts
<1>9. /\ down' \in [Connections -> Seq(Pieces)] /\ writing' \in [Connections -> Seq({Garbage})]
      /\ \A d \in Connections : Len(down'[d]) <= Room
      /\ \A d \in Connections \ {c} : down'[d] = down[d] /\ writing'[d] = writing[d]
  BY <1>1, <1>2, <1>8, Written
<1>10. at' \in [Connections -> {"idle", "backlog", "open", "busy", "closed"}]
       /\ at'[c] = "busy" /\ \A d \in Connections \ {c} : at'[d] = at[d]
  BY <1>1, <1>2 DEF Types, TypeOK
<1>11. \A d \in Connections, i \in Column : pos'[d][i] \in 0 .. FileLines(to'[d][i])
  <2>1. \A d \in Connections, i \in Column : pos[d][i] \in 0 .. FileLines(to[d][i])
    BY <1>2 DEF Types, TypeOK
  <2>2. ASSUME NEW i \in Column PROVE pos'[c][i] \in 0 .. FileLines(to'[c][i])
    <3>1. to'[c][i] \in Hosts \cup {""}
      BY <1>5
    <3>2. FileLines(to'[c][i]) \in Nat
      BY <3>1, CgiAssumption
    <3>3. pos'[c][i] = 0
      BY <1>1, <1>2 DEF Fresh
    <3> QED BY <3>2, <3>3
  <2> QED BY <1>1, <1>5, <2>1, <2>2
<1>12. Types'
  BY <1>1, <1>2, <1>3, <1>4, <1>5, <1>9, <1>10, <1>11 DEF Types, TypeOK
<1>13. Fresh(c)'
  BY <1>1, <1>10 DEF Fresh
<1>14. /\ down[c] = <<>> /\ seen[c][0] = <<>>
       /\ c \notin gone => down'[c] = <<>> \/ down'[c] = <<Table(Host')>>
       /\ c \in gone => down'[c] = <<>>
  <2>1. down[c] = <<>> /\ seen[c][0] = <<>>
    BY <1>1, <1>2, PlaceFacts DEF Fresh
  <2>2. Append(<<>>, Table(Host')) = <<Table(Host')>>
    OBVIOUS
  <2> QED BY <1>1, <1>2, <1>8, <2>1, <2>2, Written, WrittenOne
<1>15. Own(c)'
  <2> SUFFICES ASSUME ByQuery(c)'
               PROVE  /\ to'[c] = request'[c].query
                      /\ \A i \in Column : st'[c][i] = "none" <=> request'[c].query[i] = ""
                      /\ \A k \in 1 .. Len(down'[c]) :
                           down'[c][k] \in InRest
                             => down'[c][k] = Table(parse_query(request'[c].query))
                      /\ \A k \in 1 .. Len(seen'[c][0]) :
                           seen'[c][0][k] = Table(parse_query(request'[c].query))
    BY DEF Own
  <2>1. request'[c].query = q /\ request'[c] = request[c] /\ seen'[c] = seen[c]
    BY <1>1, <1>3 DEF ByQuery
  <2>2. Host' = parse_query(request'[c].query)
    BY <1>1, <2>1
  <2>3. \A k : ~(k \in 1 .. Len(<<>>))
    OBVIOUS
  <2>4. \A k \in 1 .. Len(<<Table(Host')>>) : <<Table(Host')>>[k] = Table(Host')
    OBVIOUS
  <2>5. \A k \in 1 .. Len(down'[c]) : down'[c][k] = Table(Host')
    BY <1>14, <2>3, <2>4
  <2>6. \A k : ~(k \in 1 .. Len(seen'[c][0]))
    BY <1>14, <2>1, <2>3
  <2> QED BY <1>6, <1>7, <2>1, <2>2, <2>5, <2>6
<1>16. ASSUME NEW i \in Column PROVE InOrder(c, i)'
  <2>1. Sorted(i, seen[c][i]) /\ seen[c][i] \in Seq(Pieces) /\ down[c] \in Seq(Pieces)
    BY <1>2, PlaceFacts DEF InOrder, Types
  <2>2. ASSUME c \notin spoilt \cup gone
        PROVE  /\ Coming(i, seen[c][i], down'[c])
               /\ Counted(i, seen[c][i], down'[c], writing'[c], pos[c][i])
    <3>1. Coming(i, seen[c][i], down[c]) /\ Counted(i, seen[c][i], down[c], writing[c], pos[c][i])
      BY <1>2, <2>2 DEF InOrder
    <3>2. \/ down'[c] = down[c] /\ writing'[c] # <<>>
          \/ down'[c] = Append(down[c], Table(Host')) /\ writing'[c] = writing[c]
      BY <1>1, <1>2, <1>8, <2>2, WrittenOne
    <3>3. /\ Coming(i, seen[c][i], Append(down[c], Table(Host')))
          /\ Counted(i, seen[c][i], Append(down[c], Table(Host')), writing[c], pos[c][i])
      BY <1>8, <2>1, <3>1, AddPiece
    <3> QED BY <3>1, <3>2, <3>3 DEF Counted
  <2> QED BY <1>1, <2>1, <2>2 DEF InOrder
<1>17. \A d \in Connections \ {c} : Untouched(d)
  BY <1>1, <1>5, <1>9, <1>10 DEF Untouched
<1> QED BY <1>12, <1>13, <1>15, <1>16, <1>17, StepOf

(* A text of a remote shell, and the line that answers a prompt.             *)
LEMMA ReadKeeps ==
  ASSUME CgiInv, NEW c \in Connections, NEW i \in Column, do_read(c, i)
  PROVE  CgiInv'
<1>1. /\ UNCHANGED <<alive, at, environ, Host, to, request, gone, seen, spoilt>>
      /\ st[c][i] = "read" /\ told' = [told EXCEPT ![c][i] = @ + 1]
  BY DEF do_read, http, browser
<1>2. Types /\ Fresh(c) /\ Own(c) /\ \A j \in Column : InOrder(c, j)
  BY DEF CgiInv
<1>3. \E k \in Nat, lines \in Nat : k = pos[c][i] + 1 /\ lines = FileLines(to[c][i])
  <2>1. to[c][i] \in Hosts \cup {""} /\ pos[c][i] \in Nat
    BY <1>2 DEF Types, TypeOK
  <2>2. FileLines(to[c][i]) \in Nat
    BY <2>1, CgiAssumption
  <2>3. \A x \in Nat, y \in Nat : \E k \in Nat, lines \in Nat : k = x + 1 /\ lines = y
    OBVIOUS
  <2> QED BY <2>1, <2>2, <2>3
<1> PICK k \in Nat, lines \in Nat : k = pos[c][i] + 1 /\ lines = FileLines(to[c][i])
  BY <1>3
<1>4. PICK str \in {"text", "prompt"}, sends \in BOOLEAN :
        /\ sends => str = "prompt" /\ k <= lines
        /\ async_write(c, <<Text(i, str)>> \o IF sends THEN <<Command(i, k)>> ELSE <<>>)
        /\ pos' = IF sends THEN [pos EXCEPT ![c][i] = k] ELSE pos
        /\ (st' = [st EXCEPT ![c][i] = "done"]) \/ UNCHANGED st
  BY <1>3 DEF do_read, NextLine, HasPrompt, Goto
<1>5. at[c] = "busy"
  BY <1>1, <1>2 DEF Fresh
<1>6. PICK a \in InColumn(i), b \in InColumn(i) : a = Text(i, str) /\ b = Command(i, k)
  BY DEF InColumn
<1>7. /\ a \in Pieces /\ b \in Pieces /\ a \notin InRest /\ b \notin InRest
      /\ \A n : a # Command(i, n)
      /\ \A j \in Column \ {i} : \A n : a # Command(j, n) /\ b # Command(j, n)
      /\ str = "prompt" => a = Prompt(i)
  <2>1. /\ \A n : a # Command(i, n)
        /\ \A j \in Column \ {i} : \A n : a # Command(j, n) /\ b # Command(j, n)
    BY <1>6, CommandFacts
  <2>2. a \in Pieces /\ b \in Pieces /\ a \notin InRest /\ b \notin InRest
    BY ColumnFacts
  <2>3. str = "prompt" => a = Prompt(i)
    BY <1>6 DEF Prompt
  <2> QED BY <2>1, <2>2, <2>3
<1>8. \/ sends /\ async_write(c, <<a, b>>)
      \/ ~sends /\ async_write(c, <<a>>)
  <2>1. <<a>> \o <<b>> = <<a, b>> /\ <<a>> \o <<>> = <<a>>
    <3>1. <<a>> \in Seq(InColumn(i)) /\ <<a, b>> = Append(<<a>>, b)
      OBVIOUS
    <3>2. \A s \in Seq(InColumn(i)) : s \o <<b>> = Append(s, b) /\ s \o <<>> = s
      OBVIOUS
    <3> QED BY <3>1, <3>2
  <2>2. async_write(c, <<a>> \o IF sends THEN <<b>> ELSE <<>>)
    BY <1>4, <1>6
  <2> QED BY <2>1, <2>2
<1>9. /\ down' \in [Connections -> Seq(Pieces)] /\ writing' \in [Connections -> Seq({Garbage})]
      /\ \A d \in Connections : Len(down'[d]) <= Room
      /\ \A d \in Connections \ {c} : down'[d] = down[d] /\ writing'[d] = writing[d]
      /\ c \in gone => down'[c] = down[c] /\ writing'[c] = writing[c]
  <2>1. <<a>> \in Seq(Pieces) /\ <<a, b>> \in Seq(Pieces)
    BY <1>7
  <2> QED BY <1>2, <1>8, <2>1, Written
<1>10. /\ pos' \in [Connections -> [Column -> Nat]]
       /\ \A d \in Connections, j \in Column : d # c \/ j # i => pos'[d][j] = pos[d][j]
       /\ pos'[c][i] = IF sends THEN k ELSE pos[c][i]
       /\ \A d \in Connections \ {c} : pos'[d] = pos[d]
  BY <1>2, <1>4 DEF Types
<1>11. \A d \in Connections, j \in Column : pos'[d][j] \in 0 .. FileLines(to'[d][j])
  <2>1. \A d \in Connections, j \in Column : pos[d][j] \in 0 .. FileLines(to[d][j])
    BY <1>2 DEF Types, TypeOK
  <2>2. pos'[c][i] \in 0 .. FileLines(to[c][i])
    BY <1>3, <1>4, <1>10, <2>1
  <2> QED BY <1>1, <1>10, <2>1, <2>2
<1>12. /\ st' \in [Connections -> [Column -> {"none", "resolve", "read", "done"}]]
       /\ \A d \in Connections \ {c} : st'[d] = st[d]
       /\ \A j \in Column : st'[c][j] = "none" <=> st[c][j] = "none"
  <2>1. st \in [Connections -> [Column -> {"none", "resolve", "read", "done"}]]
    BY <1>2 DEF Types, TypeOK
  <2>2. CASE st' = [st EXCEPT ![c][i] = "done"]
    BY <1>1, <2>1, <2>2
  <2>3. CASE UNCHANGED st
    BY <2>1, <2>3
  <2> QED BY <1>4, <2>2, <2>3
<1>13. told' \in [Connections -> [Column -> Nat]]
  <2>1. told \in [Connections -> [Column -> Nat]]
    BY <1>2 DEF Types, TypeOK
  <2>2. told[c][i] + 1 \in Nat
    BY <2>1
  <2> QED BY <1>1, <2>1, <2>2
<1>14. Types'
  BY <1>1, <1>2, <1>9, <1>10, <1>11, <1>12, <1>13 DEF Types, TypeOK
<1>15. Fresh(c)'
  BY <1>1, <1>5, <1>2 DEF Fresh
<1>16. PICK s \in Seq(Pieces) : s = down[c]
  BY <1>2 DEF Types
<1>17. \/ down'[c] = s /\ (c \notin gone => writing'[c] # <<>>)
       \/ down'[c] = Append(s, a) /\ writing'[c] # <<>>
       \/ ~sends /\ down'[c] = Append(s, a) /\ writing'[c] = writing[c]
       \/ /\ sends /\ down'[c] = Append(Append(s, a), b)
          /\ writing'[c] = <<>> /\ writing[c] = <<>>
  <2>1. CASE c \in gone
    BY <1>9, <1>16, <2>1
  <2>2. CASE c \notin gone /\ sends
    BY <1>2, <1>7, <1>8, <1>16, <2>2, WrittenTwo
  <2>3. CASE c \notin gone /\ ~sends
    BY <1>2, <1>7, <1>8, <1>16, <2>3, WrittenOne
  <2> QED BY <2>1, <2>2, <2>3
<1>18. Own(c)'
  <2>1. ASSUME NEW t \in Seq(Pieces), NEW p \in Pieces, p \notin InRest,
               NEW m \in 1 .. Len(Append(t, p)), Append(t, p)[m] \in InRest
        PROVE  m \in 1 .. Len(t) /\ Append(t, p)[m] = t[m]
    BY <2>1
  <2>2. Append(s, a) \in Seq(Pieces)
    BY <1>7
  <2>3. ASSUME NEW m \in 1 .. Len(down'[c]), down'[c][m] \in InRest
        PROVE  m \in 1 .. Len(s) /\ down'[c][m] = s[m]
    <3>1. CASE down'[c] = s
      BY <2>3, <3>1
    <3>2. CASE down'[c] = Append(s, a)
      BY <1>7, <2>1, <2>3, <3>2
    <3>3. CASE down'[c] = Append(Append(s, a), b)
      BY <1>7, <2>1, <2>2, <2>3, <3>3
    <3> QED BY <1>17, <3>1, <3>2, <3>3
  <2> QED BY <1>1, <1>2, <1>12, <1>16, <2>3 DEF Own, ByQuery
<1>19. ASSUME NEW j \in Column PROVE InOrder(c, j)'
  <2>1. Sorted(j, seen[c][j]) /\ seen[c][j] \in Seq(Pieces)
    BY <1>2, PlaceFacts DEF InOrder, Types
  <2>2. PICK col \in Seq(Pieces), n \in Nat, w \in Seq({Garbage}) :
          col = seen[c][j] /\ n = pos[c][j] /\ w = writing[c]
    BY <1>2, <2>1 DEF Types
  <2>3. ASSUME c \notin spoilt \cup gone
        PROVE  /\ Coming(j, col, down'[c])
               /\ Counted(j, col, down'[c], writing'[c], pos'[c][j])
    <3>1. Coming(j, col, s) /\ Counted(j, col, s, w, n)
      BY <1>2, <1>16, <2>2, <2>3 DEF InOrder
    <3>2. \A m \in Nat : a # Command(j, m)
      BY <1>7
    <3>3. /\ Append(s, a) \in Seq(Pieces) /\ Coming(j, col, Append(s, a))
          /\ Counted(j, col, Append(s, a), w, n)
      BY <1>7, <2>2, <3>1, <3>2, AddPiece
    <3>4. CASE down'[c] = s /\ writing'[c] # <<>>
      BY <3>1, <3>4 DEF Counted
    <3>5. CASE down'[c] = Append(s, a) /\ writing'[c] # <<>>
      BY <3>3, <3>5 DEF Counted
    <3>6. CASE ~sends /\ down'[c] = Append(s, a) /\ writing'[c] = writing[c]
      BY <1>10, <2>2, <3>3, <3>6
    <3>7. CASE /\ sends /\ down'[c] = Append(Append(s, a), b)
               /\ writing'[c] = <<>> /\ writing[c] = <<>>
      <4>1. CASE j = i
        <5>1. Append(s, a) # <<>> /\ Append(s, a)[Len(Append(s, a))] = Prompt(i)
          BY <1>4, <1>7, <3>7
        <5>2. b = Command(i, n + 1) /\ k = n + 1
          BY <1>3, <1>6, <2>2, <4>1
        <5>3. Coming(i, col, Append(s, a)) /\ Counted(i, col, Append(s, a), <<>>, n)
          BY <2>2, <3>3, <3>7, <4>1
        <5>4. /\ Coming(i, col, Append(Append(s, a), b))
              /\ Counted(i, col, Append(Append(s, a), b), <<>>, n + 1)
          BY <1>7, <3>3, <5>1, <5>2, <5>3, AddCommand
        <5> QED BY <1>10, <3>7, <4>1, <5>2, <5>4
      <4>2. CASE j # i
        <5>1. \A m \in Nat : b # Command(j, m)
          BY <1>7, <4>2
        <5>2. /\ Coming(j, col, Append(Append(s, a), b))
              /\ Counted(j, col, Append(Append(s, a), b), w, n)
          BY <1>7, <3>3, <5>1, AddPiece
        <5> QED BY <1>10, <2>2, <3>7, <4>2, <5>2
      <4> QED BY <4>1, <4>2
    <3> QED BY <1>17, <2>3, <3>4, <3>5, <3>6, <3>7
  <2> QED BY <1>1, <2>1, <2>2, <2>3 DEF InOrder
<1>20. \A d \in Connections \ {c} : Untouched(d)
  BY <1>1, <1>9, <1>10, <1>12 DEF Untouched
<1> QED BY <1>14, <1>15, <1>18, <1>19, <1>20, StepOf


(* A browser shows the next piece, or what freed memory has made of its page. *)
LEMMA ReceiveKeeps ==
  ASSUME CgiInv, NEW c \in Connections, Receive(c)
  PROVE  CgiInv'
<1>1. /\ UNCHANGED <<alive, at, environ, Host, st, to, pos, told, writing, request, gone>>
      /\ c \notin gone /\ down[c] # <<>>
      /\ down' = [down EXCEPT ![c] = Tail(@)]
      /\ \/ /\ Head(down[c]) = Garbage \/ c \in spoilt
            /\ spoilt' = spoilt \cup {c} /\ seen' = [seen EXCEPT ![c] = Blank]
         \/ /\ Head(down[c]) # Garbage /\ c \notin spoilt
            /\ seen' = [seen EXCEPT ![c][Place(Head(down[c]))] = Append(@, Head(down[c]))]
            /\ spoilt' = spoilt
  BY DEF Receive, http, shell
<1>2. Types /\ Fresh(c) /\ Own(c) /\ \A i \in Column : InOrder(c, i)
  BY DEF CgiInv
<1>3. PICK s \in Seq(Pieces) : s = down[c]
  BY <1>2 DEF Types
<1>4. /\ s # <<>> /\ Len(s) \in Nat /\ Len(s) >= 1 /\ Head(s) = s[1] /\ Head(s) \in Pieces
      /\ Tail(s) \in Seq(Pieces) /\ Len(Tail(s)) = Len(s) - 1
      /\ \A k \in 1 .. Len(s) - 1 : k + 1 \in 1 .. Len(s) /\ Tail(s)[k] = s[k + 1]
  BY <1>1, <1>3
<1>5. PICK p \in Pieces : p = Head(s)
  BY <1>4
<1>6. /\ down' \in [Connections -> Seq(Pieces)] /\ down'[c] = Tail(s)
      /\ \A d \in Connections \ {c} : down'[d] = down[d]
  <2>1. down \in [Connections -> Seq(Pieces)]
    BY <1>2 DEF Types
  <2> QED BY <1>1, <1>3, <1>4, <2>1
<1>7. \A d \in Connections : Len(down'[d]) <= Room
  <2>1. (\A d \in Connections : Len(down[d]) <= Room) /\ Room \in Nat
    BY <1>2, CgiAssumption DEF Types, TypeOK
  <2>2. Len(Tail(s)) <= Room
    BY <1>3, <1>4, <2>1
  <2> QED BY <1>6, <2>1, <2>2
<1>8. at[c] = "busy"
  BY <1>1, <1>2 DEF Fresh
<1>9. seen \in [Connections -> [Places -> Seq(Pieces)]] /\ spoilt \subseteq Connections
      /\ \A i \in Places : seen[c][i] \in Seq(Shown(i))
  BY <1>2 DEF Types
<1>10. CASE /\ p = Garbage \/ c \in spoilt
            /\ spoilt' = spoilt \cup {c} /\ seen' = [seen EXCEPT ![c] = Blank]
  <2>1. /\ Blank \in [Places -> Seq(Pieces)] /\ \A i \in Places : Blank[i] = <<>>
        /\ \A i \in Places : Blank[i] \in Seq(Shown(i))
    BY DEF Blank, Places
  <2>2. /\ seen' \in [Connections -> [Places -> Seq(Pieces)]] /\ seen'[c] = Blank
        /\ \A d \in Connections \ {c} : seen'[d] = seen[d]
    BY <1>9, <1>10, <2>1
  <2>3. \A d \in Connections, i \in Places : seen'[d][i] \in Seq(Shown(i))
    BY <1>2, <2>1, <2>2 DEF Types
  <2>4. spoilt' \subseteq Connections /\ c \in spoilt'
    BY <1>9, <1>10
  <2>5. Types'
    BY <1>1, <1>2, <1>6, <1>7, <2>2, <2>3, <2>4 DEF Types, TypeOK
  <2>6. Fresh(c)'
    BY <1>1, <1>2, <1>8 DEF Fresh
  <2>7. \A k : ~(k \in 1 .. Len(<<>>))
    OBVIOUS
  <2>8. Own(c)'
    <3>1. seen'[c][0] = <<>>
      BY <2>1, <2>2, PlaceFacts
    <3>2. ASSUME ByQuery(c), NEW k \in 1 .. Len(down'[c]), down'[c][k] \in InRest
          PROVE  down'[c][k] = Table(parse_query(request[c].query))
      <4>1. k + 1 \in 1 .. Len(s) /\ down'[c][k] = down[c][k + 1]
        BY <1>3, <1>4, <1>6
      <4> QED BY <1>2, <1>3, <3>2, <4>1 DEF Own
    <3> QED BY <1>1, <1>2, <2>7, <3>1, <3>2 DEF Own, ByQuery
  <2>9. ASSUME NEW i \in Column PROVE InOrder(c, i)'
    <3>1. seen'[c][i] = <<>>
      BY <2>1, <2>2, PlaceFacts
    <3> QED BY <2>4, <2>7, <3>1 DEF InOrder, Sorted
  <2>10. \A d \in Connections \ {c} : Untouched(d)
    BY <1>1, <1>6, <1>10, <2>2 DEF Untouched
  <2> QED BY <2>5, <2>6, <2>8, <2>9, <2>10, StepOf
<1>11. CASE /\ p # Garbage /\ c \notin spoilt
            /\ seen' = [seen EXCEPT ![c][Place(p)] = Append(@, p)]
            /\ spoilt' = spoilt
  <2>1. PICK l \in Places : l = Place(p) /\ p \in Shown(l)
    BY <1>11, PieceFacts
  <2>2. /\ \A i \in Column : \A k : p = Command(i, k) => i = l
        /\ \A i \in Column : p = Prompt(i) => i = l
    BY <1>11, <2>1, PieceFacts
  <2>3. PICK col \in Seq(Shown(l)) : col = seen[c][l] /\ col \in Seq(Pieces)
    BY <1>9
  <2>4. Append(col, p) \in Seq(Shown(l)) /\ Append(col, p) \in Seq(Pieces)
    <3>1. Append(col, p) \in Seq(Shown(l))
      BY <2>1
    <3>2. Append(col, p) \in Seq(Pieces)
      BY <2>3
    <3> QED BY <3>1, <3>2
  <2>5. /\ seen' \in [Connections -> [Places -> Seq(Pieces)]]
        /\ seen'[c][l] = Append(col, p)
        /\ \A i \in Places : i # l => seen'[c][i] = seen[c][i]
        /\ \A d \in Connections \ {c} : seen'[d] = seen[d]
    BY <1>9, <1>11, <2>1, <2>3, <2>4
  <2>6. \A d \in Connections, i \in Places : seen'[d][i] \in Seq(Shown(i))
    BY <1>2, <2>4, <2>5 DEF Types
  <2>7. Types'
    BY <1>1, <1>2, <1>6, <1>7, <1>9, <1>11, <2>5, <2>6 DEF Types, TypeOK
  <2>8. Fresh(c)'
    BY <1>1, <1>2, <1>8 DEF Fresh
  <2>9. Own(c)'
    <3>1. ASSUME ByQuery(c), NEW k \in 1 .. Len(down'[c]), down'[c][k] \in InRest
          PROVE  down'[c][k] = Table(parse_query(request[c].query))
      <4>1. k + 1 \in 1 .. Len(s) /\ down'[c][k] = down[c][k + 1]
        BY <1>3, <1>4, <1>6
      <4> QED BY <1>2, <1>3, <3>1, <4>1 DEF Own
    <3>2. ASSUME ByQuery(c), NEW k \in 1 .. Len(seen'[c][0])
          PROVE  seen'[c][0][k] = Table(parse_query(request[c].query))
      <4>1. CASE l # 0
        BY <1>2, <2>5, <3>2, <4>1, PlaceFacts DEF Own
      <4>2. CASE l = 0
        <5>1. p \in InRest /\ 1 \in 1 .. Len(s) /\ p = down[c][1]
          BY <1>3, <1>4, <1>5, <2>1, <4>2 DEF Shown
        <5>2. p = Table(parse_query(request[c].query))
          BY <1>2, <1>3, <3>2, <5>1 DEF Own
        <5>3. /\ Append(col, p)[Len(col) + 1] = p
              /\ \A m \in 1 .. Len(col) : Append(col, p)[m] = col[m]
              /\ k \in 1 .. Len(col) \/ k = Len(col) + 1
          BY <2>3, <2>5, <3>2, <4>2
        <5>4. \A m \in 1 .. Len(col) : col[m] = Table(parse_query(request[c].query))
          BY <1>2, <2>3, <3>2, <4>2 DEF Own
        <5> QED BY <2>5, <4>2, <5>2, <5>3, <5>4
      <4> QED BY <4>1, <4>2
    <3> QED BY <1>1, <1>2, <3>1, <3>2 DEF Own, ByQuery
  <2>10. ASSUME NEW i \in Column PROVE InOrder(c, i)'
    <3>1. PICK old \in Seq(Pieces) : old = seen[c][i]
      BY <1>9, PlaceFacts
    <3>2. Sorted(i, old)
      BY <1>2, <3>1 DEF InOrder
    <3>3. /\ Coming(i, old, s)
          /\ Counted(i, old, s, writing[c], pos[c][i])
      BY <1>1, <1>2, <1>3, <1>11, <3>1 DEF InOrder
    <3>4. CASE i = l
      <4>1. seen'[c][i] = Append(old, Head(s))
        BY <1>5, <2>3, <2>5, <3>1, <3>4
      <4>2. /\ Sorted(i, Append(old, Head(s))) /\ Coming(i, Append(old, Head(s)), Tail(s))
            /\ Counted(i, Append(old, Head(s)), Tail(s), writing[c], pos[c][i])
        BY <1>4, <1>5, <1>11, <3>2, <3>3, TakeOwn
      <4> QED BY <1>1, <1>6, <4>1, <4>2 DEF InOrder
    <3>5. CASE i # l
      <4>1. seen'[c][i] = old
        BY <2>5, <3>1, <3>5, PlaceFacts
      <4>2. Head(s) # Garbage /\ Head(s) # Prompt(i) /\ \A k \in Nat : Head(s) # Command(i, k)
        BY <1>5, <1>11, <2>2, <3>5
      <4>3. /\ Coming(i, old, Tail(s))
            /\ Counted(i, old, Tail(s), writing[c], pos[c][i])
        BY <1>4, <3>3, <4>2, TakePiece
      <4> QED BY <1>1, <1>6, <3>2, <4>1, <4>3 DEF InOrder
    <3> QED BY <3>4, <3>5
  <2>11. \A d \in Connections \ {c} : Untouched(d)
    BY <1>1, <1>6, <1>11, <2>5 DEF Untouched
  <2> QED BY <2>7, <2>8, <2>9, <2>10, <2>11, StepOf
<1> QED BY <1>1, <1>3, <1>5, <1>10, <1>11

-----------------------------------------------------------------------------
(* The invariant.                                                            *)

LEMMA CgiInit ==
  ASSUME Init
  PROVE  CgiInv
<1>1. /\ <<>> \in Seq(Pieces) /\ <<>> \in Seq({Garbage}) /\ Len(<<>>) = 0
      /\ \A i \in Places : <<>> \in Seq(Shown(i))
      /\ \A k : ~(k \in 1 .. Len(<<>>))
  OBVIOUS
<1>2. /\ alive = TRUE /\ gone = {} /\ spoilt = {}
      /\ at = [c \in Connections |-> "idle"] /\ request = [c \in Connections |-> NoRequest]
      /\ environ = [CGI_NAME |-> Unset, QUERY_STRING |-> Unset]
      /\ Host = [i \in Column |-> ""]
      /\ st = PerSession("none") /\ to = PerSession("")
      /\ pos = PerSession(0) /\ told = PerSession(0)
      /\ down = [c \in Connections |-> <<>>] /\ writing = [c \in Connections |-> <<>>]
      /\ seen = [c \in Connections |-> Blank]
  BY DEF Init
<1>3. \A c \in Connections, i \in Column :
        st[c][i] = "none" /\ to[c][i] = "" /\ pos[c][i] = 0 /\ told[c][i] = 0
  BY <1>2 DEF PerSession
<1>4. /\ Blank \in [Places -> Seq(Pieces)] /\ \A i \in Places : Blank[i] = <<>>
  BY <1>1 DEF Blank, Places
<1>5. \A c \in Connections, i \in Column : pos[c][i] \in 0 .. FileLines(to[c][i])
  <2>1. FileLines("") \in Nat
    BY CgiAssumption
  <2>2. \A n \in Nat : 0 \in 0 .. n
    OBVIOUS
  <2> QED BY <1>3, <2>1, <2>2
<1>6. \A c \in Connections : Len(down[c]) <= Room
  <2>1. Room \in Nat
    BY CgiAssumption
  <2>2. Len(<<>>) <= Room
    BY <1>1, <2>1
  <2> QED BY <1>2, <2>2
<1>7. TypeOK
  <2>1. /\ st \in [Connections -> [Column -> {"none", "resolve", "read", "done"}]]
        /\ to \in [Connections -> [Column -> Hosts \cup {""}]]
        /\ told \in [Connections -> [Column -> Nat]]
    BY <1>2 DEF PerSession
  <2>2. /\ at \in [Connections -> {"idle", "backlog", "open", "busy", "closed"}]
        /\ request \in [Connections -> Requests \cup {NoRequest}]
    BY <1>2
  <2> QED BY <1>2, <1>5, <1>6, <2>1, <2>2 DEF TypeOK
<1>8. Types
  <2>1. pos \in [Connections -> [Column -> Nat]]
    BY <1>2 DEF PerSession
  <2>2. /\ down \in [Connections -> Seq(Pieces)] /\ writing \in [Connections -> Seq({Garbage})]
        /\ seen \in [Connections -> [Places -> Seq(Pieces)]]
        /\ \A c \in Connections, i \in Places : seen[c][i] \in Seq(Shown(i))
    BY <1>1, <1>2, <1>4
  <2> QED BY <1>2, <1>7, <2>1, <2>2 DEF Types
<1>9. ASSUME NEW c \in Connections
      PROVE  Fresh(c) /\ Own(c) /\ \A i \in Column : InOrder(c, i)
  <2>1. at[c] = "idle" /\ down[c] = <<>> /\ writing[c] = <<>> /\ pos[c] = [i \in Column |-> 0]
        /\ \A i \in Places : seen[c][i] = <<>>
    BY <1>2, <1>4 DEF PerSession
  <2>2. Fresh(c)
    BY <1>3, <2>1 DEF Fresh
  <2>3. Own(c)
    BY <2>1 DEF Own, ByQuery
  <2>4. ASSUME NEW i \in Column PROVE InOrder(c, i)
    <3>1. seen[c][i] = <<>> /\ pos[c][i] = 0
      BY <1>3, <2>1, PlaceFacts
    <3>2. Sorted(i, <<>>) /\ Coming(i, <<>>, <<>>)
      BY <1>1 DEF Sorted, Coming
    <3>3. Counted(i, <<>>, <<>>, <<>>, 0)
      <4>1. Nums(i, <<>>, Len(<<>>)) = {} /\ 1 .. 0 = {}
        BY <1>1 DEF Nums
      <4> QED BY <4>1 DEF Counted
    <3> QED BY <2>1, <3>1, <3>2, <3>3 DEF InOrder
  <2> QED BY <2>2, <2>3, <2>4
<1> QED BY <1>8, <1>9 DEF CgiInv

LEMMA CgiStep ==
  ASSUME CgiInv, [Next]_vars
  PROVE  CgiInv'
<1>1. ASSUME NEW c \in Connections, Accept(c) \/ ReadError(c) \/ Connect(c) PROVE CgiInv'
  <2>1. /\ at[c] # "busy" /\ UNCHANGED <<alive, environ, Host, shell, page, browser>>
        /\ \E x \in {"idle", "backlog", "open", "closed"} : at' = [at EXCEPT ![c] = x]
    BY <1>1 DEF Accept, ReadError, Connect
  <2>2. PICK x \in {"idle", "backlog", "open", "closed"} : at' = [at EXCEPT ![c] = x]
    BY <2>1
  <2>3. environ'.QUERY_STRING \in {Unset} \cup Queries
    BY <2>1 DEF CgiInv, Types
  <2>4. x # "busy" /\ x \in {"idle", "backlog", "open", "busy", "closed"}
    OBVIOUS
  <2> QED BY <2>1, <2>2, <2>3, <2>4, AtKeeps
<1>2. ASSUME NEW c \in Connections, Unknown(c) PROVE CgiInv'
  <2>1. /\ at[c] # "busy" /\ UNCHANGED <<alive, Host, shell, page, browser>>
        /\ request[c] # NoRequest /\ request[c].cgi # "console.cgi"
        /\ environ' = parse(environ, request[c]) /\ at' = [at EXCEPT ![c] = "busy"]
    BY <1>2 DEF Unknown, Read
  <2>2. environ'.QUERY_STRING \in {Unset} \cup Queries
    BY <2>1, ParseFacts DEF CgiInv
  <2> QED BY <2>1, <2>2, AtKeeps
<1>3. ASSUME NEW c \in Connections, Handler(c) PROVE CgiInv'
  BY <1>1, <1>2, <1>3, PanelKeeps, ConsoleKeeps, CrashKeeps DEF Handler
<1>4. ASSUME NEW c \in Connections, Stream(c) PROVE CgiInv'
  BY <1>4, CopyKeeps, ReceiveKeeps DEF Stream
<1>5. ASSUME NEW c \in Connections, NEW i \in Column, Session(c, i) PROVE CgiInv'
  BY <1>5, SessionKeeps, ReadKeeps DEF Session
<1>6. CASE Next
  <2>1. PICK c \in Connections :
          \/ Handler(c) \/ Stream(c) \/ Connect(c) \/ Ask(c) \/ Leave(c)
          \/ \E i \in Column : Session(c, i)
    BY <1>6 DEF Next
  <2> QED BY <1>1, <1>3, <1>4, <1>5, <2>1, AskKeeps, LeaveKeeps
<1>7. CASE UNCHANGED vars
  <2>1. UNCHANGED <<alive, at, environ, Host, st, to, pos, told, down, writing, request, gone,
                    seen, spoilt>>
    BY <1>7 DEF vars, http, shell, page, browser
  <2>2. Types'
    BY <2>1 DEF CgiInv, Types, TypeOK
  <2>3. \A d \in Connections : Untouched(d)
    BY <2>1 DEF Untouched
  <2> QED BY <2>2, <2>3, UntouchedStays DEF CgiInv
<1> QED BY <1>6, <1>7

LEMMA CgiInvHolds == Spec => []CgiInv
BY CgiInit, CgiStep, PTL DEF Spec

-----------------------------------------------------------------------------
(* The state of the server is well typed: every session has sent at most     *)
(* the lines of its file, and no stream holds more than it has room for.     *)
THEOREM TypesCorrect == Spec => []TypeOK
<1>1. CgiInv => TypeOK
  BY DEF CgiInv, Types
<1> QED BY <1>1, CgiInvHolds, PTL

(* A console asked for with a query has just the sessions of its own query,  *)
(* to its own hosts, and its table names them, although the host table and   *)
(* the environment are shared by all requests: start() copies them in the    *)
(* handler that fills them.                                                  *)
THEOREM OwnSessionsCorrect == Spec => []OwnSessions
<1>1. CgiInv => OwnSessions
  <2> SUFFICES ASSUME CgiInv, NEW c \in Connections,
                      request[c].query # Unset, request[c].cgi = "console.cgi", at[c] = "busy"
               PROVE  /\ to[c] = request[c].query
                      /\ \A i \in Column : st[c][i] = "none" <=> request[c].query[i] = ""
                      /\ \A k \in DOMAIN seen[c][0] :
                           seen[c][0][k] = Table(parse_query(request[c].query))
    BY DEF OwnSessions
  <2>1. ByQuery(c) /\ Own(c)
    BY DEF CgiInv, ByQuery
  <2>2. DOMAIN seen[c][0] = 1 .. Len(seen[c][0])
    <3>1. seen[c][0] \in Seq(Pieces)
      BY PlaceFacts DEF CgiInv, Types
    <3> QED BY <3>1
  <2> QED BY <2>1, <2>2 DEF Own
<1> QED BY <1>1, CgiInvHolds, PTL

(* In a column that shows no freed memory every line of the file stands      *)
(* right behind a prompt, and the lines come in order and each once: a       *)
(* session writes a line with the prompt it answers, and the stream to the   *)
(* browser keeps the order of the writes.                                    *)
THEOREM PageInOrderCorrect == Spec => []PageInOrder
<1>1. CgiInv => PageInOrder
  <2> SUFFICES ASSUME CgiInv, NEW c \in Connections, NEW i \in Column,
                      NEW j \in DOMAIN seen[c][i], seen[c][i][j][1] = "cmd"
               PROVE  /\ j > 1 /\ seen[c][i][j - 1] = Text(i, "prompt")
                      /\ {seen[c][i][m][3] : m \in {m \in 1 .. j - 1 : seen[c][i][m][1] = "cmd"}}
                           = 1 .. seen[c][i][j][3] - 1
    BY DEF PageInOrder
  <2>1. PICK col \in Seq(InColumn(i)) : col = seen[c][i]
    <3>1. i \in Places /\ Shown(i) = InColumn(i)
      BY PlaceFacts DEF Shown
    <3> QED BY <3>1 DEF CgiInv, Types
  <2>2. j \in 1 .. Len(col) /\ col[j] \in InColumn(i) /\ Len(col) \in Nat
    BY <2>1
  <2>3. PICK k \in Nat : col[j] = Command(i, k)
    BY <2>1, <2>2, ColumnFacts
  <2>4. j > 1 /\ col[j - 1] = Prompt(i) /\ Nums(i, col, j - 1) = 1 .. k - 1
    BY <2>1, <2>2, <2>3 DEF CgiInv, InOrder, Sorted
  <2>5. col[j][3] = k
    BY <2>3, CommandFacts
  <2>6. {col[m][3] : m \in {m \in 1 .. j - 1 : col[m][1] = "cmd"}} = Nums(i, col, j - 1)
    <3>1. \A m \in 1 .. j - 1 : m \in 1 .. Len(col) /\ col[m] \in InColumn(i)
      <4>1. \A n \in 1 .. Len(col) : \A m \in 1 .. n - 1 : m \in 1 .. Len(col)
        BY <2>2
      <4> QED BY <2>1, <2>2, <4>1
    <3>2. ASSUME NEW m \in 1 .. j - 1, col[m][1] = "cmd"
          PROVE  col[m][3] \in Nums(i, col, j - 1)
      <4>1. PICK n \in Nat : col[m] = Command(i, n)
        BY <3>1, <3>2, ColumnFacts
      <4> QED BY <4>1, CommandFacts DEF Nums
    <3>3. ASSUME NEW n \in Nums(i, col, j - 1)
          PROVE  \E m \in 1 .. j - 1 : col[m][1] = "cmd" /\ n = col[m][3]
      BY CommandFacts DEF Nums
    <3> QED BY <3>2, <3>3
  <2> QED BY <2>1, <2>4, <2>5, <2>6 DEF Prompt
<1> QED BY <1>1, CgiInvHolds, PTL
=============================================================================
