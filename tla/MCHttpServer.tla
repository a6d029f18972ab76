--------------------------- MODULE MCHttpServer -------------------------------
(***************************************************************************)
(* Requests for TLC: with and without a body, one whose Content-Length is  *)
(* the largest size_t, one whose body has a NUL behind its first unit, for *)
(* a route and for none, malformed, and one whose client does not read.    *)
(***************************************************************************)
EXTENDS HttpServer

For(target, announced) ==
  [announced |-> announced, text |-> MaxSent, target |-> target, drains |-> TRUE]
MCRequests ==
  {For("routed", 0), For("routed", 1), For("routed", Modulus - 1),
   [For("routed", 2) EXCEPT !.text = 1],
   For("unknown", 0), For("malformed", 1),
   [For("routed", 0) EXCEPT !.drains = FALSE]}
=============================================================================
