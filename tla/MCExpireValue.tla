--------------------------- MODULE MCExpireValue ----------------------------
(* Model-checking instance of ExpireValue: two or three tasks and enough   *)
(* Arc allocations that the provider always finds a free one.              *)
EXTENDS ExpireValue

CONSTANTS a, b, c, v1, v2, v3, v4, v5

MCTasks2 == {a, b}
MCTasks3 == {a, b, c}
MCValues == {v1, v2, v3, v4, v5}

=============================================================================
