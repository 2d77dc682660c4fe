------------------------------- MODULE MCWatch -------------------------------
(* The event path over three domains and five kinds of event: a head       *)
(* movement, a fetch (the upstream without the head), a change of the      *)
(* worktree that may need a new watch, an ignored path, the rescan mark.   *)
EXTENDS Watch

CONSTANTS head, fetch, worktree, ignored, rescan

Domains == {"Head", "Upstream", "Paths"}
Events  == {head, fetch, worktree, rescan}

(* For liveness, an event that refreshes nothing and two that may suspend. *)
FewEvents == {worktree, ignored, rescan}

TouchedBy ==
  [e \in Event |-> CASE e = head     -> {"Head", "Upstream"}
                     [] e = fetch    -> {"Upstream"}
                     [] e = worktree -> {"Paths"}
                     [] OTHER        -> {}]

Plan ==
  [e \in Event |-> CASE e = head     -> DomainsPlan({"Head", "Upstream", "Paths"})
                     [] e = fetch    -> DomainsPlan({"Upstream"})
                     [] e = worktree -> DomainsPlan({"Paths"})
                     [] e = ignored  -> NonePlan
                     [] e = rescan   -> FullPlan]

Suspending == {worktree, rescan}
=============================================================================
