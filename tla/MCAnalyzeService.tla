-------------------------- MODULE MCAnalyzeService --------------------------
(***************************************************************************)
(* TLC instances of AnalyzeService.  MCAnalyzeService.cfg: one gated model *)
(* with two workers and two slots, so that of its four requests two are    *)
(* inside while two queue, their workers already chosen, and a request for *)
(* an unknown model; the four are interchangeable.                         *)
(* MCAnalyzeServiceLive.cfg: a gated model and one without a limit, two    *)
(* workers each; engines have one result, the failures being timeouts.     *)
(***************************************************************************)
EXTENDS AnalyzeService, TLC

CONSTANTS b1, b2, b3, b4, j1, x1, best, judge, unknown

Interchangeable == Permutations({b1, b2, b3, b4})

MCOneModel == <<best>>
MCResult == {<<"ok">>}
MCTwoModels == <<best, judge>>
MCModelOf == [r \in {b1, b2, b3, b4} |-> best] @@ (j1 :> judge) @@ (x1 :> unknown)
=============================================================================
