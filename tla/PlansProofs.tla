----------------------------- MODULE PlansProofs -----------------------------
(***************************************************************************)
(* What RefreshPlan::combine guarantees.                                   *)
(***************************************************************************)
EXTENDS Plans, TLAPS

(* A plan asks for domains of the instance only.                           *)
LEMMA RefreshedType ==
  ASSUME NEW plan \in RefreshPlan
  PROVE  Refreshed(plan) \subseteq RefreshDomain
BY DEF RefreshPlan, Refreshed

(* Combining two plans gives a plan.                                       *)
LEMMA CombineType ==
  ASSUME NEW left \in RefreshPlan, NEW right \in RefreshPlan
  PROVE  Combine(left, right) \in RefreshPlan
<1>1. CASE left.kind = "Full" \/ right.kind = "Full"
  BY <1>1 DEF Combine, FullPlan, RefreshPlan
<1>2. CASE left.kind = "None" /\ right.kind # "Full"
  BY <1>2 DEF Combine, RefreshPlan
<1>3. CASE left.kind = "Domains" /\ right.kind = "None"
  BY <1>3 DEF Combine, RefreshPlan
<1>4. CASE left.kind = "Domains" /\ right.kind = "Domains"
  <2>1. /\ left.domains \in (SUBSET RefreshDomain) \ {{}}
        /\ right.domains \in SUBSET RefreshDomain
    BY <1>4 DEF RefreshPlan
  <2>2. Combine(left, right) =
          [kind |-> "Domains", domains |-> left.domains \cup right.domains]
    BY <1>4 DEF Combine, RefreshPlan
  <2> QED
    BY <2>1, <2>2 DEF RefreshPlan
<1> QED
  BY <1>1, <1>2, <1>3, <1>4 DEF RefreshPlan

(* Coalescing loses nothing and adds nothing: the combination of two plans *)
(* reads exactly the domains that one of them reads.                       *)
THEOREM CombineRefreshes ==
  ASSUME NEW left \in RefreshPlan, NEW right \in RefreshPlan
  PROVE  Refreshed(Combine(left, right)) = Refreshed(left) \cup Refreshed(right)
<1>1. CASE left.kind = "Full" \/ right.kind = "Full"
  BY <1>1, RefreshedType DEF Combine, FullPlan, Refreshed, RefreshPlan
<1>2. CASE left.kind = "None" /\ right.kind # "Full"
  BY <1>2 DEF Combine, Refreshed, RefreshPlan
<1>3. CASE left.kind = "Domains" /\ right.kind = "None"
  BY <1>3 DEF Combine, Refreshed, RefreshPlan
<1>4. CASE left.kind = "Domains" /\ right.kind = "Domains"
  BY <1>4 DEF Combine, Refreshed, RefreshPlan
<1> QED
  BY <1>1, <1>2, <1>3, <1>4 DEF RefreshPlan

(* A combined plan refreshes nothing only if neither plan does: a plan     *)
(* that is not None always reads something.                                *)
LEMMA ShouldRefreshReads ==
  ASSUME NEW plan \in RefreshPlan, RefreshDomain # {}
  PROVE  ShouldRefresh(plan) <=> Refreshed(plan) # {}
BY DEF ShouldRefresh, Refreshed, RefreshPlan

(* The order in which events come, how often one is repeated and where a   *)
(* turn is cut in two do not matter to their combined plan: plans are a    *)
(* semilattice with None below and Full above all others.                  *)
THEOREM CombineIsSemilattice ==
  ASSUME NEW p \in RefreshPlan, NEW q \in RefreshPlan, NEW r \in RefreshPlan
  PROVE  /\ Combine(p, q) = Combine(q, p)
         /\ Combine(p, Combine(q, r)) = Combine(Combine(p, q), r)
         /\ Combine(p, p) = p
         /\ Combine(NonePlan, p) = p /\ Combine(FullPlan, p) = FullPlan
<1>1. ASSUME NEW x \in RefreshPlan
      PROVE  /\ x.kind \in {"None", "Full", "Domains"}
             /\ x.kind = "Full" => x = FullPlan
             /\ x.kind = "None" => x = NonePlan
             /\ x.kind = "Domains" => x = [kind |-> "Domains", domains |-> x.domains]
  BY DEF RefreshPlan, FullPlan, NonePlan
<1>2. NonePlan.kind = "None" /\ FullPlan.kind = "Full"
  BY DEF NonePlan, FullPlan
<1>3. ASSUME NEW x \in RefreshPlan, NEW y \in RefreshPlan
      PROVE  /\ Combine(x, y).kind = IF "Full" \in {x.kind, y.kind} THEN "Full"
                                     ELSE IF "Domains" \in {x.kind, y.kind} THEN "Domains"
                                     ELSE "None"
             /\ "Full" \notin {x.kind, y.kind} =>
                  Combine(x, y).domains = x.domains \cup y.domains
             /\ Combine(x, y) \in RefreshPlan
  <2> DEFINE xy == Combine(x, y)
  <2>1. /\ x.kind \in {"None", "Full", "Domains"} /\ y.kind \in {"None", "Full", "Domains"}
        /\ x.kind = "None" => x.domains = {}
        /\ y.kind = "None" => y.domains = {}
    BY <1>1 DEF NonePlan
  <2>2. CASE x.kind = "Full" \/ y.kind = "Full"
    <3>1. xy = FullPlan
      BY <2>2 DEF Combine
    <3> QED
      BY <1>2, <2>1, <2>2, <3>1, CombineType
  <2>3. CASE x.kind = "None" /\ y.kind # "Full"
    <3>1. xy = y
      BY <2>3 DEF Combine
    <3> HIDE DEF xy
    <3>2. y.kind = "Domains" \/ y.kind = "None"
      BY <2>1, <2>3
    <3> QED
      BY <2>1, <2>3, <3>1, <3>2 DEF xy
  <2>4. CASE x.kind = "Domains" /\ y.kind = "None"
    <3>1. xy = x
      BY <2>4 DEF Combine
    <3> HIDE DEF xy
    <3> QED
      BY <2>1, <2>4, <3>1 DEF xy
  <2>5. CASE x.kind = "Domains" /\ y.kind = "Domains"
    <3>1. xy = [kind |-> "Domains", domains |-> x.domains \cup y.domains]
      BY <2>5 DEF Combine
    <3>2. xy \in RefreshPlan
      BY CombineType
    <3> HIDE DEF xy
    <3> QED
      BY <2>5, <3>1, <3>2 DEF xy
  <2> QED
    BY <2>1, <2>2, <2>3, <2>4, <2>5
(* A plan is known by its kind and its domains.                            *)
<1>4. ASSUME NEW x \in RefreshPlan, NEW y \in RefreshPlan,
             x.kind = y.kind, x.kind # "Full" => x.domains = y.domains
      PROVE  x = y
  <2>1. CASE x.kind = "Domains"
    <3>1. /\ x = [kind |-> "Domains", domains |-> x.domains]
          /\ y = [kind |-> "Domains", domains |-> y.domains]
      BY <1>1, <1>4, <2>1
    <3>2. x.domains = y.domains
      BY <1>4, <2>1
    <3> QED
      BY <3>1, <3>2
  <2>2. CASE x.kind # "Domains"
    BY <1>1, <1>4, <2>2
  <2> QED
    BY <2>1, <2>2
<1>5. Combine(p, q) = Combine(q, p)
  <2>1. Combine(p, q).kind = Combine(q, p).kind
    BY <1>3
  <2>2. Combine(p, q).kind # "Full" => Combine(p, q).domains = Combine(q, p).domains
    <3>1. Combine(p, q).kind # "Full" => "Full" \notin {p.kind, q.kind}
      BY <1>3
    <3>2. /\ "Full" \notin {p.kind, q.kind} => Combine(p, q).domains = p.domains \cup q.domains
          /\ "Full" \notin {q.kind, p.kind} => Combine(q, p).domains = q.domains \cup p.domains
      BY <1>3
    <3> QED
      BY <3>1, <3>2
  <2>3. Combine(p, q) \in RefreshPlan /\ Combine(q, p) \in RefreshPlan
    BY <1>3
  <2> QED
    BY <1>4, <2>1, <2>2, <2>3
<1>6. Combine(p, Combine(q, r)) = Combine(Combine(p, q), r)
  <2> DEFINE qr == Combine(q, r)
             pq == Combine(p, q)
  <2>1. qr \in RefreshPlan /\ pq \in RefreshPlan
    BY <1>3
  <2>2. /\ qr.kind = "Full" <=> "Full" \in {q.kind, r.kind}
        /\ pq.kind = "Full" <=> "Full" \in {p.kind, q.kind}
        /\ qr.kind = "Domains" <=> qr.kind # "Full" /\ "Domains" \in {q.kind, r.kind}
        /\ pq.kind = "Domains" <=> pq.kind # "Full" /\ "Domains" \in {p.kind, q.kind}
        /\ qr.kind # "Full" => qr.domains = q.domains \cup r.domains
        /\ pq.kind # "Full" => pq.domains = p.domains \cup q.domains
    BY <1>3
  <2>3. /\ Combine(p, qr).kind = IF "Full" \in {p.kind, qr.kind} THEN "Full"
                                 ELSE IF "Domains" \in {p.kind, qr.kind} THEN "Domains"
                                 ELSE "None"
        /\ Combine(pq, r).kind = IF "Full" \in {pq.kind, r.kind} THEN "Full"
                                 ELSE IF "Domains" \in {pq.kind, r.kind} THEN "Domains"
                                 ELSE "None"
        /\ "Full" \notin {p.kind, qr.kind} =>
             Combine(p, qr).domains = p.domains \cup qr.domains
        /\ "Full" \notin {pq.kind, r.kind} =>
             Combine(pq, r).domains = pq.domains \cup r.domains
    BY <1>3, <2>1
  <2> HIDE DEF pq, qr
  <2>4. Combine(p, qr).kind = Combine(pq, r).kind
    BY <2>2, <2>3
  <2>5. Combine(p, qr).kind # "Full" => Combine(p, qr).domains = Combine(pq, r).domains
    BY <2>2, <2>3
  <2>6. Combine(p, qr) \in RefreshPlan /\ Combine(pq, r) \in RefreshPlan
    BY <1>3, <2>1
  <2>7. Combine(p, qr) = Combine(pq, r)
    <3>1. \A x \in RefreshPlan, y \in RefreshPlan :
            x.kind = y.kind /\ (x.kind # "Full" => x.domains = y.domains) => x = y
      BY <1>4
    <3> QED
      BY <2>4, <2>5, <2>6, <3>1
  <2> QED
    BY <2>7 DEF pq, qr
<1>7. Combine(p, p) = p
  <2>1. Combine(p, p).kind = p.kind /\ Combine(p, p) \in RefreshPlan
    BY <1>1, <1>3
  <2>2. p.kind # "Full" => Combine(p, p).domains = p.domains
    BY <1>3
  <2> QED
    BY <1>4, <2>1, <2>2
<1>8. Combine(NonePlan, p) = p /\ Combine(FullPlan, p) = FullPlan
  BY <1>1, <1>2 DEF Combine
<1> QED
  BY <1>5, <1>6, <1>7, <1>8

=============================================================================
