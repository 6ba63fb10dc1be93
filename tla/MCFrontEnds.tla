----------------------------- MODULE MCFrontEnds -----------------------------
(***************************************************************************)
(* A small instance of FrontEnds: one server and commands, one approval, and *)
(* two requests, which may both be payments on that approval.  The server may  *)
(* have been set up with a secret that is not the approver's, or the commands  *)
(* with one that is too short.                                               *)
(***************************************************************************)
EXTENDS FrontEnds, TLC

CONSTANTS a1, a2, srv, cmd

Good == [tail |-> "set", did |-> "hex", secret |-> "s1", review |-> "absent",
         ttl |-> "absent", apiKey |-> "set", url |-> "https"]

With(secret) == [Good EXCEPT !.secret = secret]

MCSetups ==
  {(srv :> With(x[1])) @@ (cmd :> With(x[2])) :
     x \in {<<"s1", "s1">>, <<"s2", "s1">>, <<"s1", "short">>}}

Both(first, second) == (a1 :> first) @@ (a2 :> second)
MCRequests ==
  {Both("pay", "pay"), Both("check", "audit"), Both("check", "null"), Both("invalid", "check"),
   Both("hello", "notice"), Both("policy", "check")}

\* A line that holds null, and one that asks for a check.
NullRequests == {Both("null", "check")}
=============================================================================
