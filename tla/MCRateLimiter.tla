---------------------------- MODULE MCRateLimiter ----------------------------
(***************************************************************************)
(* A minute of three ticks, two requests and three tokens per minute; a    *)
(* message takes one token, or more than the bucket ever holds.            *)
(***************************************************************************)
EXTENDS RateLimiter, TLC

MCBackoff == [attempt \in 0..1 |-> 2 ^ attempt]

MCLimit == ("req" :> 2) @@ ("tok" :> 3)
=============================================================================
