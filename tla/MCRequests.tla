------------------------------ MODULE MCRequests ------------------------------
(* Two requests, the second of which the handler of the first may send,    *)
(* through a root router and a router mounted in it, for TLC.              *)
EXTENDS Requests, TLC

CONSTANTS a, b

Layer(kind, router) == [kind |-> kind, router |-> router]

RootRouter == <<Layer("bootstrap", 1), Layer("inject", 1), Layer("security", 1), Layer("user", 1)>>

MountedRouter ==
  <<Layer("bootstrap", 2), Layer("inject", 2), Layer("security", 2), Layer("route", 2),
    Layer("user", 2), Layer("authorize", 2), Layer("handler", 2)>>

MCChain == RootRouter \o MountedRouter

MCSenders == (a :> {} @@ b :> {a})
=============================================================================
