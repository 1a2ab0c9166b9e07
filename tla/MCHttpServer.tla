---------------------------- MODULE MCHttpServer ----------------------------
(* The requests HttpServer is model-checked with. *)
EXTENDS HttpServer

MCUnset    == "unset"
MCPrograms == {"console.cgi", "panel.cgi"}

MCRequests ==
  {[cgi |-> "console.cgi", query |-> "h0", size |-> "fits"],
   [cgi |-> "console.cgi", query |-> MCUnset, size |-> "fits"],
   [cgi |-> "panel.cgi", query |-> MCUnset, size |-> "long"],
   [cgi |-> "favicon.ico", query |-> MCUnset, size |-> "fits"],
   [cgi |-> "panel.cgi", query |-> MCUnset, size |-> "torn"]}
=============================================================================
