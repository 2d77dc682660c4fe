-------------------------------- MODULE Plans --------------------------------
(***************************************************************************)
(* Refresh domains and refresh plans (repository/model.rs): which sections *)
(* of a snapshot a watcher event asks the process to read again, and how   *)
(* the plans of several events combine.                                    *)
(***************************************************************************)
EXTENDS Naturals, FiniteSets

CONSTANT RefreshDomain  \* the domains of this instance, named as in the code

(* The order in which both the full read and the domain-wise refresh       *)
(* visit the sections of a snapshot.                                       *)
Position == [Identity |-> 1, Head |-> 2, Upstream |-> 3, Paths |-> 4,
             Operation |-> 5, Remotes |-> 6, Branches |-> 7, Tags |-> 8,
             Stashes |-> 9, Worktrees |-> 10, Submodules |-> 11]

ASSUME DomainAssumption == /\ {"Head", "Paths"} \subseteq RefreshDomain
                           /\ RefreshDomain \subseteq DOMAIN Position

RefreshPlan ==
  [kind : {"None", "Full"}, domains : {{}}]
    \cup [kind : {"Domains"}, domains : (SUBSET RefreshDomain) \ {{}}]

NonePlan == [kind |-> "None", domains |-> {}]

FullPlan == [kind |-> "Full", domains |-> {}]

DomainsPlan(domains) ==
  [kind |-> IF domains = {} THEN "None" ELSE "Domains", domains |-> domains]

ShouldRefresh(plan) == plan.kind # "None"

Combine(left, right) ==
  IF left.kind = "Full" \/ right.kind = "Full" THEN FullPlan
  ELSE IF left.kind = "None"  THEN right
  ELSE IF right.kind = "None" THEN left
  ELSE [kind |-> "Domains", domains |-> left.domains \cup right.domains]

(* The domains a plan makes the refresh read.                              *)
Refreshed(plan) == IF plan.kind = "Full" THEN RefreshDomain ELSE plan.domains

=============================================================================
