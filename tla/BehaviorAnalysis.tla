---------------------------- MODULE BehaviorAnalysis ----------------------------
(***************************************************************************)
(* The entries of angel/boundary/behavior.hpp on one machine: a call       *)
(* refines the partition (BehaviorPartition) or searches from a start and  *)
(* certifies (ObservationStability).  Neither calls the other; a behaviour *)
(* is one call from beginning to end.                                      *)
(***************************************************************************)
EXTENDS BehaviorPartition, ObservationStability

all_vars == <<vars, search_vars>>

NoSearch ==
  /\ start = 0 /\ mask = {} /\ work = <<>> /\ state = 0 /\ symbol = AlphabetSize
  /\ certificate = "pending" /\ search = "idle"

NoPartition ==
  /\ class_of = [s \in States |-> 0] /\ class_count = 0
  /\ pc = "idle"

AnalysisInit ==
  \/ Init /\ NoSearch
  \/ SearchInit /\ NoPartition

AnalysisNext ==
  \/ Next /\ UNCHANGED search_vars
  \/ SearchNext /\ UNCHANGED vars

\* Each entry is one sequential call: its thread is scheduled until it ends.
AnalysisSpec == AnalysisInit /\ [][AnalysisNext]_all_vars /\ WF_all_vars(AnalysisNext)

-------------------------------------------------------------------------------
(* Properties, with ClassesAreFutures and ComplementIsTight. *)

\* reachable_mask returns what words lead to, and certify_stability grants
\* exactly what no word changes (see ObservationStability).
SearchIsExact == MaskIsReach /\ CertificateIsExact

\* Every call returns or throws, for every machine and start (the loop of
\* minimal_partition and the queue of reachable_mask have no other bound).
AnalysisEnds == <>(pc \in {"returned", "threw"} \/ search \in {"returned", "threw"})
===============================================================================
