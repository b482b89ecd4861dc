------------------------------ MODULE Requests ------------------------------
(***************************************************************************)
(* How much of a machine a pod needs (resources.py, pod_requests), next to *)
(* the kubelet that runs it: its init containers one after the other, then *)
(* its containers.  An init container whose restartPolicy is Always stays  *)
(* up beside everything that follows it.                                   *)
(*                                                                         *)
(* A pod is a record of                                                    *)
(*   init      its init containers, each with its request and always        *)
(*   app       the requests of its containers                              *)
(*   overhead  what its runtime class costs                                *)
(* The dimension of pods, of which a pod is one, is left out.              *)
(***************************************************************************)
EXTENDS Resources, Sequences, SequencesExt

VARIABLES
  pod,
  started,              \* how many of its init containers have been started
  runs,                 \* whether the last of them runs, or the containers do
  peak                  \* the most it has held so far

-----------------------------------------------------------------------------
(* resources.py.                                                           *)

Total(vectors) == FoldSeq(Plus, Nothing, vectors)

ElementwiseMax(v, w) == [d \in Dims |-> IF v[d] < w[d] THEN w[d] ELSE v[d]]

Summed(v, w) == Plus(v, w)       \* mutant: what runs one at a time is added up

\* mutant: the bigger init container, by the dimensions as a whole
BiggerOnTheWhole(v, w) == IF \A d \in Dims : v[d] >= w[d] THEN v ELSE w

\* The biggest init container, in each dimension.
Biggest(v, w) == ElementwiseMax(v, w)

InitRequests == FoldSeq(Biggest, Nothing, [i \in DOMAIN pod.init |-> pod.init[i].request])

PodRequests == Plus(ElementwiseMax(Total(pod.app), InitRequests), pod.overhead)

-----------------------------------------------------------------------------
(* The kubelet.                                                            *)

Beside(n) == Total([i \in 1 .. n |-> IF pod.init[i].always THEN pod.init[i].request
                                                          ELSE Nothing])

\* What the pod holds: its runtime, the sidecars started so far, and what else runs.
Holds ==
  Plus(pod.overhead,
    CASE runs = "init" -> Plus(Beside(started - 1), pod.init[started].request)
      [] runs = "app"  -> Plus(Beside(started), Total(pod.app))
      [] OTHER         -> Beside(started))

StartInit ==
  /\ runs = "nothing" /\ started < Len(pod.init)
  /\ started' = started + 1 /\ runs' = "init"
  /\ UNCHANGED pod /\ peak' = ElementwiseMax(peak, Holds')

\* It has ended, or it is up for good.
InitDone ==
  /\ runs = "init" /\ runs' = "nothing"
  /\ UNCHANGED <<pod, started, peak>>

StartContainers ==
  /\ runs = "nothing" /\ started = Len(pod.init)
  /\ runs' = "app"
  /\ UNCHANGED <<pod, started>> /\ peak' = ElementwiseMax(peak, Holds')

Runs == StartInit \/ InitDone \/ StartContainers
=============================================================================
