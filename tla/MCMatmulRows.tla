---------------------------- MODULE MCMatmulRows ----------------------------
(* Up to seven rows in up to four chunks; tensors that are complete or not.  *)
EXTENDS MatmulRows

MCCalls ==
    {c \in [kind : {"collect", "batch", "into"}, n : {1, 2, 5, 7}, row0 : {0, 1}, tokens : {1, 2},
            have : {3, 6, 7}] :
        /\ c.kind # "batch" => c.tokens = 1
        /\ c.kind # "collect" => c.row0 = 0
        /\ c.have = 3 => c.n \in {5, 7}}
=============================================================================
