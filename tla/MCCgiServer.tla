---------------------------- MODULE MCCgiServer -----------------------------
(* The requests CgiServer is model-checked with. *)
EXTENDS CgiServer

CONSTANTS NoQuery

Get(cgi, query)  == [cgi |-> cgi, query |-> query, torn |-> FALSE]

(* One browser may ask for a console, with two sessions or with one; the     *)
(* other, for everything else.                                               *)
CONSTANTS c1, c2

(* The file for h2 ends in exit, that for h3 without it, and that for h1 has  *)
(* no line.                                                                  *)
MCFileLines(host)  == IF host = "h2" THEN 2 ELSE IF host = "h3" THEN 1 ELSE 0
MCEndsInExit(host) == host = "h2"

MCConnections == {c1, c2}

MCAsks ==
  [c \in MCConnections |->
    IF c = c1 THEN {Get("console.cgi", <<"h2", "h1">>), Get("console.cgi", <<"h3", "">>),
                      Get("console.cgi", NoQuery)}
    ELSE {Get("console.cgi", <<"h1", "">>), Get("panel.cgi", NoQuery), Get("favicon.ico", NoQuery),
          [cgi |-> "panel.cgi", query |-> NoQuery, torn |-> TRUE]}]
=============================================================================
