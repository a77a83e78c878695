--------------------------- MODULE MCAggregation ---------------------------
(***************************************************************************)
(* Deferred proofs for Aggregation: none, two equal ones, two different    *)
(* ones, and one of each kind that the deferred program refuses.           *)
(***************************************************************************)
EXTENDS Aggregation

CONSTANTS OtherVk, OtherRoot

Deferred(vkd, cvd) ==
    [pv |-> [zkm_vk_digest |-> vkd, committed_value_digest |-> cvd, vk_root |-> VkRoot,
             is_complete |-> TRUE],
     digest |-> "reduce", vk |-> ReduceVk]

MCDeferredLists ==
    { <<>>,
      << Deferred(1, 2), Deferred(1, 2) >>,
      << Deferred(1, 2), Deferred(2, 2) >>,
      << [Deferred(1, 2) EXCEPT !.vk = OtherVk] >>,
      << [Deferred(1, 2) EXCEPT !.pv.vk_root = OtherRoot] >>,
      << [Deferred(1, 2) EXCEPT !.pv.is_complete = FALSE] >>,
      << [Deferred(1, 2) EXCEPT !.digest = "root"] >> }
=============================================================================
