--------------------------- MODULE MCSocksSession ---------------------------
(* The requests SocksSession is model-checked with. *)
EXTENDS SocksSession

MCRequests == Request
=============================================================================
