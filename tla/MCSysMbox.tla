----------------------------- MODULE MCSysMbox ------------------------------
(* Instances of SysMbox for TLC: priorities as in os_app/app_cfg.h, where the *)
(* smallest number is the most urgent.                                        *)
EXTENDS SysMbox, TLC
CONSTANTS a, b, c, m1, m2

\* a and b post, c fetches; c is the least urgent of them.
ConsumerLast  == (a :> 1) @@ (b :> 2) @@ (c :> 3)

PostOps == (a :> {"post"}) @@ (b :> {}) @@ (c :> {"fetch"})
RaceOps == (a :> {"post"}) @@ (b :> {"post", "trypost"}) @@ (c :> {"fetch"})
AllOps  == (a :> {"post", "trypost"}) @@ (b :> {"trypost", "tryfetch"})
           @@ (c :> {"fetchTimed", "tryfetch"})
=============================================================================
