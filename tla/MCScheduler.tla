----------------------------- MODULE MCScheduler -----------------------------
(* The jobs of the runs of Scheduler. *)
EXTENDS Scheduler

CONSTANTS extraction, promotion

TwoJobs == {extraction, promotion}
ExtractionOnly == {extraction}
PromotionOnly == {promotion}
NoJobs == {}
=============================================================================
