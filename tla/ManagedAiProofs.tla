-------------------------- MODULE ManagedAiProofs --------------------------
(***************************************************************************)
(* Proofs about ManagedAi, for any number of streams, any plan, channel    *)
(* and price list: what is charged, and to whom.                           *)
(*                                                                         *)
(* The ledger's sums are folds over sets.  A fold is a recursive function, *)
(* and what it computes is shown by looking at a smallest set where it     *)
(* would compute something else (WFMin).                                   *)
(***************************************************************************)
EXTENDS ManagedAi, FiniteSetTheorems, TLAPS

AccountProofs == INSTANCE CreditAccountProofs WITH
    MaxCost  <- Max(Costs),
    inflight <- Cardinality(Running),
    spent    <- CostOf(Rows),
    resets   <- period

(* MapThenSumSet of the costs in l, spelled out. *)
Pick(s) == CHOOSE x \in s : TRUE
IsSum(g, l, S) ==
    g = [s \in SUBSET S |-> IF s = {} THEN 0 ELSE l[Pick(s)].cost + g[s \ {Pick(s)}]]
SumFcn(l, S) == CHOOSE g : IsSum(g, l, S)
Sum(l, S) == SumFcn(l, S)[S]

(* A non-empty family of finite sets has a smallest member. *)
LEMMA SmallestSet ==
    ASSUME NEW S, IsFiniteSet(S), NEW D \in SUBSET SUBSET S, D # {}
    PROVE  \E T \in D : \A U \in D : ~(U \subseteq T /\ U # T)
  <1>1. IsWellFoundedOn(StrictSubsetOrdering(S), SUBSET S)
    BY FS_StrictSubsetOrderingWellFounded, FS_FiniteSubsetsOfFinite
  <1>2. PICK T \in D : \A U \in D : <<U, T>> \notin StrictSubsetOrdering(S)
    BY <1>1, WFMin
  <1>3. QED
    BY <1>2 DEF StrictSubsetOrdering

(* The fold takes a member of the set. *)
LEMMA PickMember == \A s : s # {} => Pick(s) \in s
  BY DEF Pick

(* Two sums agree on the sets that both sum up. *)
LEMMA SumsAgree ==
    ASSUME NEW l, NEW S, NEW R, NEW g, NEW h, IsSum(g, l, S), IsSum(h, l, R),
           NEW T, T \subseteq S, T \subseteq R, IsFiniteSet(T)
    PROVE  g[T] = h[T]
  <1> DEFINE D == {V \in SUBSET T : g[V] # h[V]}
  <1> SUFFICES ASSUME D # {} PROVE FALSE
    OBVIOUS
  <1>0. D \in SUBSET SUBSET T
    OBVIOUS
  <1>1. PICK V \in D : \A U \in D : ~(U \subseteq V /\ U # V)
    <2> HIDE DEF D
    <2> QED
      BY <1>0, SmallestSet
  <1>2. V \subseteq T /\ g[V] # h[V]
    OBVIOUS
  <1>3. /\ g[V] = IF V = {} THEN 0 ELSE l[Pick(V)].cost + g[V \ {Pick(V)}]
        /\ h[V] = IF V = {} THEN 0 ELSE l[Pick(V)].cost + h[V \ {Pick(V)}]
    BY <1>2 DEF IsSum
  <1>4. V # {}
    BY <1>2, <1>3
  <1>5. V \ {Pick(V)} \notin D
    BY <1>1, <1>4, PickMember
  <1>6. g[V \ {Pick(V)}] = h[V \ {Pick(V)}]
    BY <1>2, <1>5
  <1>7. QED
    BY <1>2, <1>3, <1>4, <1>6

(* Every row in S has a cost. *)
Priced(l, S) == \A x \in S : l[x].cost \in Nat

(* A finite set of priced rows has a sum. *)
LEMMA SumExists ==
    ASSUME NEW l, NEW S, IsFiniteSet(S), Priced(l, S)
    PROVE  \E g \in [SUBSET S -> Nat] : IsSum(g, l, S)
  <1> DEFINE Has(T) == \E g \in [SUBSET T -> Nat] : IsSum(g, l, T)
             D == {T \in SUBSET S : ~Has(T)}
  <1> SUFFICES ASSUME D # {} PROVE FALSE
    OBVIOUS
  <1>1. D \in SUBSET SUBSET S
    OBVIOUS
  <1>2. PICK T \in D : \A U \in D : ~(U \subseteq T /\ U # T)
    <2> HIDE DEF D
    <2> QED
      BY <1>1, SmallestSet
  <1>3. T \in SUBSET S /\ ~Has(T)
    OBVIOUS
  <1>4. \A U \in SUBSET T : U # T => Has(U)
    <2> HIDE DEF Has
    <2> QED
      BY <1>2
  <1> DEFINE G(U) == CHOOSE g \in [SUBSET U -> Nat] : IsSum(g, l, U)
             val(U) == G(U)[U]
  <1>5. \A U \in SUBSET T : U # T => G(U) \in [SUBSET U -> Nat] /\ IsSum(G(U), l, U)
    BY <1>4
  <1> HIDE DEF Has, D, G
  <1>6. \A U \in SUBSET T : U # T => val(U) \in Nat
    BY <1>5
  <1>7. \A U \in SUBSET T : U # {} => /\ Pick(U) \in U /\ l[Pick(U)].cost \in Nat
                                     /\ U \ {Pick(U)} \in SUBSET T /\ U \ {Pick(U)} # T
    BY <1>3, PickMember DEF Priced
  <1>8. \A U \in SUBSET T : U # T =>
           val(U) = IF U = {} THEN 0 ELSE l[Pick(U)].cost + val(U \ {Pick(U)})
    <2> SUFFICES ASSUME NEW U \in SUBSET T, U # T
                 PROVE  val(U) = IF U = {} THEN 0 ELSE l[Pick(U)].cost + val(U \ {Pick(U)})
      OBVIOUS
    <2>1. val(U) = IF U = {} THEN 0 ELSE l[Pick(U)].cost + G(U)[U \ {Pick(U)}]
      BY <1>5 DEF IsSum
    <2>2. CASE U = {}
      BY <2>1, <2>2
    <2>3. CASE U # {}
      <3> DEFINE V == U \ {Pick(U)}
      <3>1. V \in SUBSET T /\ V # T /\ V \subseteq U
        BY <1>7, <2>3
      <3>2. IsSum(G(U), l, U) /\ IsSum(G(V), l, V)
        BY <1>5, <3>1
      <3>3. IsFiniteSet(V)
        BY <1>3, <3>1, FS_Subset
      <3> HIDE DEF V, val
      <3>4. G(U)[V] = G(V)[V]
        BY <3>1, <3>2, <3>3, SumsAgree
      <3>5. QED
        BY <2>1, <2>3, <3>4 DEF V, val
    <2>4. QED
      BY <2>2, <2>3
  <1> HIDE DEF val
  <1> DEFINE top == IF T = {} THEN 0 ELSE l[Pick(T)].cost + val(T \ {Pick(T)})
             f == [U \in SUBSET T |-> IF U = T THEN top ELSE val(U)]
  <1>9. top \in Nat
    BY <1>6, <1>7
  <1> HIDE DEF top
  <1>10. f \in [SUBSET T -> Nat]
    BY <1>6, <1>9
  <1>11. \A U \in SUBSET T : f[U] = IF U = {} THEN 0 ELSE l[Pick(U)].cost + f[U \ {Pick(U)}]
    <2> SUFFICES ASSUME NEW U \in SUBSET T
                 PROVE  f[U] = IF U = {} THEN 0 ELSE l[Pick(U)].cost + f[U \ {Pick(U)}]
      OBVIOUS
    <2>1. U # {} => f[U \ {Pick(U)}] = val(U \ {Pick(U)})
      BY <1>7
    <2>2. CASE U = T
      BY <2>1, <2>2 DEF top
    <2>3. CASE U # T
      <3>1. f[U] = val(U)
        BY <2>3
      <3> HIDE DEF f
      <3>2. QED
        BY <1>8, <2>1, <2>3, <3>1
    <2>4. QED
      BY <2>2, <2>3
  <1>12. IsSum(f, l, T)
    <2>1. f = [U \in SUBSET T |-> f[U]]
      OBVIOUS
    <2> HIDE DEF f
    <2>2. QED
      BY <1>11, <2>1 DEF IsSum
  <1>13. Has(T)
    BY <1>10, <1>12 DEF Has
  <1>14. QED
    BY <1>3, <1>13

(* The sum of a set, in terms of the element the fold takes out first. *)
LEMMA SumUnfold ==
    ASSUME NEW l, NEW S, IsFiniteSet(S), Priced(l, S)
    PROVE  /\ Sum(l, S) \in Nat
           /\ S = {} => Sum(l, S) = 0
           /\ S # {} => Sum(l, S) = l[Pick(S)].cost + Sum(l, S \ {Pick(S)})
  <1>1. PICK g \in [SUBSET S -> Nat] : IsSum(g, l, S)
    BY SumExists
  <1>2. IsSum(SumFcn(l, S), l, S)
    BY <1>1 DEF SumFcn
  <1>3. Sum(l, S) \in Nat
    <2>1. SumFcn(l, S)[S] = g[S]
      BY <1>1, <1>2, SumsAgree
    <2>2. QED
      BY <1>1, <2>1 DEF Sum
  <1>4. Sum(l, S) = IF S = {} THEN 0 ELSE l[Pick(S)].cost + SumFcn(l, S)[S \ {Pick(S)}]
    BY <1>2 DEF IsSum, Sum
  <1>5. SumFcn(l, S)[S \ {Pick(S)}] = Sum(l, S \ {Pick(S)})
    <2> DEFINE V == S \ {Pick(S)}
    <2>1. V \in SUBSET S /\ V \subseteq S /\ V \subseteq V
      OBVIOUS
    <2>2. IsFiniteSet(V) /\ Priced(l, V)
      BY <2>1, FS_Subset DEF Priced
    <2> HIDE DEF V
    <2>3. IsSum(SumFcn(l, V), l, V)
      BY <2>2, SumExists DEF SumFcn
    <2>4. SumFcn(l, S)[V] = SumFcn(l, V)[V]
      BY <1>2, <2>1, <2>2, <2>3, SumsAgree
    <2>5. QED
      BY <2>4 DEF Sum, V
  <1>6. QED
    BY <1>3, <1>4, <1>5

(* It makes no difference which row is taken out. *)
LEMMA SumRemove ==
    ASSUME NEW l, NEW S, IsFiniteSet(S), Priced(l, S), NEW x \in S
    PROVE  Sum(l, S) = l[x].cost + Sum(l, S \ {x})
  <1> DEFINE D == {T \in SUBSET S : \E y \in T : Sum(l, T) # l[y].cost + Sum(l, T \ {y})}
  <1> SUFFICES ASSUME D # {} PROVE FALSE
    OBVIOUS
  <1>1. D \in SUBSET SUBSET S
    OBVIOUS
  <1>2. PICK T \in D : \A U \in D : ~(U \subseteq T /\ U # T)
    <2> HIDE DEF D
    <2> QED
      BY <1>1, SmallestSet
  <1>3. T \in SUBSET S
    OBVIOUS
  <1>4. PICK y \in T : Sum(l, T) # l[y].cost + Sum(l, T \ {y})
    OBVIOUS
  <1> DEFINE p == Pick(T)
  <1>5. \A U \in SUBSET T : IsFiniteSet(U) /\ Priced(l, U) /\ Sum(l, U) \in Nat
    <2> SUFFICES ASSUME NEW U \in SUBSET T
                 PROVE  IsFiniteSet(U) /\ Priced(l, U) /\ Sum(l, U) \in Nat
      OBVIOUS
    <2>1. IsFiniteSet(U) /\ Priced(l, U)
      BY <1>3, FS_Subset DEF Priced
    <2>2. QED
      BY <2>1, SumUnfold
  <1>6. p \in T /\ Sum(l, T) = l[p].cost + Sum(l, T \ {p})
    BY <1>4, <1>5, SumUnfold, PickMember
  <1>7. p # y
    BY <1>4, <1>6
  <1> HIDE DEF p
  <1>8. Sum(l, T \ {p}) = l[y].cost + Sum(l, (T \ {p}) \ {y})
    <2>1. T \ {p} \notin D /\ T \ {p} \in SUBSET S
      BY <1>2, <1>3, <1>6
    <2>2. QED
      BY <1>4, <1>7, <2>1
  <1>9. Sum(l, T \ {y}) = l[p].cost + Sum(l, (T \ {y}) \ {p})
    <2>1. T \ {y} \notin D /\ T \ {y} \in SUBSET S
      BY <1>2, <1>3, <1>4
    <2>2. QED
      BY <1>6, <1>7, <2>1
  <1>10. (T \ {p}) \ {y} = (T \ {y}) \ {p}
    OBVIOUS
  <1>11. l[p].cost \in Nat /\ l[y].cost \in Nat /\ Sum(l, (T \ {y}) \ {p}) \in Nat
    <2>1. (T \ {y}) \ {p} \in SUBSET T
      OBVIOUS
    <2>2. QED
      BY <1>3, <1>4, <1>5, <1>6, <2>1 DEF Priced
  <1> HIDE DEF D
  <1>12. QED
    BY <1>4, <1>6, <1>8, <1>9, <1>10, <1>11

(* Only the costs count. *)
LEMMA SumSame ==
    ASSUME NEW l, NEW m, NEW S, IsFiniteSet(S), Priced(l, S), \A x \in S : l[x].cost = m[x].cost
    PROVE  Sum(l, S) = Sum(m, S)
  <1> DEFINE D == {T \in SUBSET S : Sum(l, T) # Sum(m, T)}
  <1> SUFFICES ASSUME D # {} PROVE FALSE
    OBVIOUS
  <1>1. D \in SUBSET SUBSET S
    OBVIOUS
  <1>2. PICK T \in D : \A U \in D : ~(U \subseteq T /\ U # T)
    <2> HIDE DEF D
    <2> QED
      BY <1>1, SmallestSet
  <1>3. T \in SUBSET S /\ Sum(l, T) # Sum(m, T)
    OBVIOUS
  <1>4. IsFiniteSet(T) /\ Priced(l, T) /\ Priced(m, T)
    BY <1>3, FS_Subset DEF Priced
  <1>5. T # {}
    <2>1. T = {} => Sum(l, T) = 0 /\ Sum(m, T) = 0
      BY <1>4, SumUnfold
    <2>2. QED
      BY <1>3, <2>1
  <1>6. /\ Sum(l, T) = l[Pick(T)].cost + Sum(l, T \ {Pick(T)})
        /\ Sum(m, T) = m[Pick(T)].cost + Sum(m, T \ {Pick(T)})
    BY <1>4, <1>5, SumUnfold
  <1>7. Pick(T) \in T
    BY <1>5, PickMember
  <1>8. Sum(l, T \ {Pick(T)}) = Sum(m, T \ {Pick(T)})
    <2>1. T \ {Pick(T)} \notin D /\ T \ {Pick(T)} \in SUBSET S
      BY <1>2, <1>3, <1>7
    <2>2. QED
      BY <2>1
  <1>9. QED
    BY <1>3, <1>6, <1>7, <1>8

(* One row is added to the ledger. *)
LEMMA SumAdd ==
    ASSUME NEW l, NEW m, NEW S, IsFiniteSet(S), Priced(l, S), NEW x, x \notin S,
           \A y \in S : m[y] = l[y], m[x].cost \in Nat
    PROVE  Sum(m, S \cup {x}) = Sum(l, S) + m[x].cost
  <1> DEFINE R == S \cup {x}
  <1>1. x \in R /\ R \ {x} = S
    OBVIOUS
  <1>2. IsFiniteSet(R) /\ Priced(m, R)
    BY FS_AddElement DEF Priced
  <1> HIDE DEF R
  <1>3. Sum(m, R) = m[x].cost + Sum(m, S)
    BY <1>1, <1>2, SumRemove
  <1>4. Sum(l, S) = Sum(m, S)
    BY SumSame
  <1>5. Sum(l, S) \in Nat
    BY SumUnfold
  <1>6. QED
    BY <1>3, <1>4, <1>5 DEF R

-----------------------------------------------------------------------------
(* Prices. *)

(* A finite set of numbers that is not empty has a greatest one. *)
LEMMA MaxExists ==
    ASSUME NEW S, S \subseteq Nat, IsFiniteSet(S), S # {}
    PROVE  Max(S) \in S /\ \A y \in S : y <= Max(S)
  <1> DEFINE Has(T) == \E m \in T : \A y \in T : m >= y
             D == {T \in SUBSET S : T # {} /\ ~Has(T)}
  <1>1. D = {}
    <2> SUFFICES ASSUME D # {} PROVE FALSE
      OBVIOUS
    <2>1. D \in SUBSET SUBSET S /\ IsFiniteSet(S)
      OBVIOUS
    <2>2. PICK T \in D : \A U \in D : ~(U \subseteq T /\ U # T)
      <3> HIDE DEF D, Has
      <3> QED
        BY ONLY <2>1, D # {}, SmallestSet
    <2>3. T \in SUBSET Nat /\ T # {} /\ ~Has(T)
      OBVIOUS
    <2>4. PICK x \in T : TRUE
      BY <2>3
    <2>5. CASE T = {x}
      <3>1. Has(T)
        BY <2>3, <2>5
      <3>2. QED
        BY <2>3, <3>1
    <2>6. CASE T # {x}
      <3>1. T \ {x} \notin D /\ T \ {x} # {} /\ T \ {x} \in SUBSET S
        BY <2>2, <2>4, <2>6
      <3>2. PICK m \in T \ {x} : \A y \in T \ {x} : m >= y
        BY <3>1
      <3>3. Has(T)
        <4>1. CASE m >= x
          BY <2>3, <2>4, <3>2, <4>1
        <4>2. CASE m < x
          BY <2>3, <2>4, <3>2, <4>2
        <4>3. QED
          BY <2>3, <2>4, <3>2, <4>1, <4>2
      <3>4. QED
        BY <2>3, <3>3
    <2>7. QED
      BY <2>5, <2>6
  <1>2. \E m \in S : \A y \in S : m >= y
    BY <1>1
  <1>3. Max(S) \in S /\ \A y \in S : Max(S) >= y
    BY <1>2 DEF Max
  <1>4. QED
    BY <1>3

(* A reply costs a credit at least, and there is a dearest reply. *)
LEMMA CostFacts ==
    /\ Costs \in SUBSET (Nat \ {0})
    /\ Max(Costs) \in Nat \ {0}
    /\ \A c \in Costs : c \in 1..Max(Costs)
  <1> DEFINE none == [prompt |-> 0, completion |-> 0]
             All == Replies \cup {none}
             f == [r \in All |-> credits_for_tokens(r.prompt, r.completion)]
  <1>1. All \in SUBSET [prompt : Nat, completion : Nat]
    BY AiAssumption
  <1>2. IsFiniteSet(All) /\ none \in All
    BY AiAssumption, FS_AddElement
  <1>3. Costs = {credits_for_tokens(r.prompt, r.completion) : r \in All}
    BY DEF Costs
  <1> HIDE DEF All
  <1>4. Costs \in SUBSET (Nat \ {0})
    <2>1. \A p, q \in Nat : credits_for_tokens(p, q) \in Nat \ {0}
      BY DEF credits_for_tokens
    <2>2. QED
      BY <1>1, <1>3, <2>1
  <1>5. Costs # {}
    BY <1>2, <1>3
  <1>6. f \in Surjection(All, Costs)
    <2>1. f \in [All -> Costs]
      BY <1>3
    <2>2. \A c \in Costs : \E r \in All : f[r] = c
      BY <1>3
    <2>3. QED
      BY <2>1, <2>2 DEF Surjection
  <1>7. IsFiniteSet(Costs)
    BY <1>2, <1>6, FS_Surjection
  <1>8. Max(Costs) \in Costs /\ \A c \in Costs : c <= Max(Costs)
    BY <1>4, <1>5, <1>7, MaxExists
  <1>9. Max(Costs) \in Nat \ {0}
    BY <1>4, <1>8
  <1>10. ASSUME NEW c \in Costs PROVE c \in 1..Max(Costs)
    <2>1. c \in Nat \ {0} /\ c <= Max(Costs)
      BY <1>4, <1>8
    <2>2. QED
      BY <1>9, <2>1
  <1>11. QED
    BY <1>4, <1>9, <1>10

-----------------------------------------------------------------------------
(* The inductive invariant. *)

(* The rows of the current period. *)
Current == {x \in Rows : ledger[x].period = period}

(* A stream is charged once, at its end, after [DONE]; what its client has missed
   was in the channel. *)
StreamsSound ==
    \A s \in Streams : /\ stream[s].at # "ended" => ledger[s] = NoRow
                       /\ stream[s].at = "charging" => stream[s].done
                       /\ ledger[s] # NoRow => stream[s].done
                       /\ stream[s].lost <= Capacity

(* No row is of a period that is still to come: an invoice finds no row that
   would count against the new period. *)
RowsPast == \A x \in Rows : ledger[x].period <= period

UsageMatches == used = carried + Sum(ledger, Current)

IInv == TypeOK /\ StreamsSound /\ RowsPast /\ UsageMatches

(* The sums in the properties are Sums, before and after a step. *)
LEMMA UsageIsSum ==
    /\ LedgerMatchesUsage <=> UsageMatches
    /\ CostOf(Rows) = Sum(ledger, Rows)
    /\ CostOf(Rows)' = Sum(ledger', Rows')
  <1>1. CostOf({x \in Rows : ledger[x].period = period}) = Sum(ledger, {x \in Rows : ledger[x].period = period})
    BY DEF CostOf, MapThenSumSet, MapThenFoldSet, Sum, SumFcn, IsSum, Pick
  <1>2. CostOf(Rows) = Sum(ledger, Rows)
    BY DEF CostOf, MapThenSumSet, MapThenFoldSet, Sum, SumFcn, IsSum, Pick
  <1>3. CostOf(Rows)' = Sum(ledger', Rows')
    BY DEF CostOf, MapThenSumSet, MapThenFoldSet, Sum, SumFcn, IsSum, Pick
  <1>4. QED
    BY <1>1, <1>2, <1>3 DEF LedgerMatchesUsage, UsageMatches, Current

-----------------------------------------------------------------------------
(* What the steps do to one stream, to the set of running streams and to the sums. *)

(* A step of the credit account, or a stuttering one. *)
AccountStep == Account!Next \/ UNCHANGED Account!vars

(* Set replaces one stream. *)
LEMMA Moved ==
    ASSUME TypeOK, NEW s \in Streams, NEW r \in Stream, Set(s, r)
    PROVE  /\ stream' \in [Streams -> Stream]
           /\ stream'[s] = r
           /\ \A t \in Streams \ {s} : stream'[t] = stream[t]
  BY DEF TypeOK, Set

(* The streams that run can be counted. *)
LEMMA RunningFinite == IsFiniteSet(Running) /\ Cardinality(Running) \in Nat
  <1>1. IsFiniteSet(Running)
    BY AiAssumption, FS_Subset DEF Running
  <1>2. QED
    BY <1>1, FS_CardinalityType

(* A stream starts. *)
LEMMA RunningEnter ==
    ASSUME NEW s \in Streams, s \notin Running, Running' = Running \cup {s}
    PROVE  Cardinality(Running)' = Cardinality(Running) + 1
  BY RunningFinite, FS_AddElement

(* A stream ends. *)
LEMMA RunningLeave ==
    ASSUME NEW s \in Streams, s \in Running, Running' = Running \ {s}
    PROVE  Cardinality(Running) > 0 /\ Cardinality(Running)' = Cardinality(Running) - 1
  <1>1. Cardinality(Running)' = Cardinality(Running) - 1
    BY RunningFinite, FS_RemoveElement
  <1>2. Cardinality(Running) # 0
    BY RunningFinite, FS_EmptySet
  <1>3. QED
    BY <1>1, <1>2, RunningFinite

(* The rows of a typed ledger are finitely many and have costs. *)
LEMMA RowFacts ==
    ASSUME TypeOK
    PROVE  /\ IsFiniteSet(Rows) /\ Priced(ledger, Rows)
           /\ IsFiniteSet(Current) /\ Priced(ledger, Current)
           /\ Sum(ledger, Rows) \in Nat /\ Sum(ledger, Current) \in Nat
  <1>1. IsFiniteSet(Streams \cup Posts)
    BY AiAssumption, FS_Union
  <1>2. Rows \in SUBSET (Streams \cup Posts) /\ Current \in SUBSET (Streams \cup Posts)
    BY DEF Rows, Current
  <1>3. IsFiniteSet(Rows) /\ IsFiniteSet(Current)
    BY <1>1, <1>2, FS_Subset
  <1>4. \A x \in Streams \cup Posts : ledger[x].cost \in Nat
    <2> SUFFICES ASSUME NEW x \in Streams \cup Posts PROVE ledger[x].cost \in Nat
      OBVIOUS
    <2>1. ledger[x] \in {NoRow} \cup [cost : Costs \cup {0}, period : 0..MaxPeriod]
      BY DEF TypeOK
    <2>2. CASE ledger[x] = NoRow
      BY <2>2 DEF NoRow
    <2>3. CASE ledger[x] \in [cost : Costs \cup {0}, period : 0..MaxPeriod]
      <3>1. ledger[x].cost \in Costs \cup {0}
        BY <2>3
      <3>2. \A c \in Costs \cup {0} : c \in Nat
        BY CostFacts
      <3>3. QED
        BY <3>1, <3>2, Zenon
    <2>4. QED
      BY <2>1, <2>2, <2>3
  <1>5. Priced(ledger, Rows) /\ Priced(ledger, Current)
    BY <1>2, <1>4 DEF Priced
  <1>6. QED
    BY <1>3, <1>5, SumUnfold

(* A step that leaves the ledger and the period alone. *)
LEMMA QuietMoney ==
    ASSUME UNCHANGED <<ledger, period>>
    PROVE  /\ Rows' = Rows /\ Current' = Current
           /\ Sum(ledger', Rows') = Sum(ledger, Rows)
           /\ Sum(ledger', Current') = Sum(ledger, Current)
           /\ CostOf(Rows)' = CostOf(Rows)
  <1>1. Rows' = Rows /\ Current' = Current
    BY DEF Rows, Current
  <1>2. QED
    BY <1>1, UsageIsSum

(* One stream moves and nothing is charged. *)
LEMMA StreamMoves ==
    ASSUME IInv, NEW s \in Streams, NEW r \in Stream, Set(s, r),
           UNCHANGED <<status, used, period, carried, ledger>>,
           stream[s].at = "ended" => r.at = "ended",
           r.at = "charging" => r.done,
           stream[s].done => r.done,
           r.lost <= Capacity
    PROVE  IInv' /\ CostOf(Rows)' = CostOf(Rows)
  <1>1. /\ stream' \in [Streams -> Stream]
        /\ stream'[s] = r
        /\ \A t \in Streams \ {s} : stream'[t] = stream[t]
    BY Moved DEF IInv
  <1>2. TypeOK'
    BY <1>1 DEF IInv, TypeOK
  <1>3. StreamsSound'
    BY <1>1 DEF IInv, StreamsSound
  <1>4. RowsPast'
    BY QuietMoney DEF IInv, RowsPast
  <1>5. UsageMatches'
    <2>1. UsageMatches' = (used' = carried' + Sum(ledger', Current'))
      BY DEF UsageMatches, Sum, SumFcn, IsSum, Pick
    <2>2. QED
      BY <2>1, QuietMoney DEF IInv, UsageMatches
  <1>6. QED
    BY <1>2, <1>3, <1>4, <1>5, QuietMoney DEF IInv

(* ... and it keeps running, or keeps still. *)
LEMMA StutterMoves ==
    ASSUME IInv, NEW s \in Streams, NEW r \in Stream, Set(s, r),
           UNCHANGED <<used, period, ledger>>,
           stream[s].at \in {"new", "ended"} <=> r.at \in {"new", "ended"}
    PROVE  AccountStep
  <1>1. /\ stream'[s] = r
        /\ \A t \in Streams \ {s} : stream'[t] = stream[t]
    BY Moved DEF IInv
  <1>2. Running' = Running
    BY <1>1 DEF Running
  <1>3. CostOf(Rows)' = CostOf(Rows)
    BY QuietMoney
  <1>4. QED
    BY <1>2, <1>3 DEF AccountStep, Account!vars

(* ... and it ends. *)
LEMMA AbandonMoves ==
    ASSUME IInv, NEW s \in Streams, NEW r \in Stream, Set(s, r),
           UNCHANGED <<used, period, ledger>>,
           stream[s].at \notin {"new", "ended"}, r.at = "ended"
    PROVE  AccountStep
  <1>1. /\ stream'[s] = r
        /\ \A t \in Streams \ {s} : stream'[t] = stream[t]
    BY Moved DEF IInv
  <1>2. s \in Running /\ Running' = Running \ {s}
    BY <1>1 DEF Running
  <1>3. CostOf(Rows)' = CostOf(Rows)
    BY QuietMoney
  <1>4. Cardinality(Running) > 0 /\ Cardinality(Running)' = Cardinality(Running) - 1
    BY <1>2, RunningLeave
  <1>5. Account!Abandon
    BY <1>3, <1>4 DEF Account!Abandon
  <1>6. QED
    BY <1>5 DEF AccountStep, Account!Next

-----------------------------------------------------------------------------
(* The actions. *)

(* A reply is admitted only below the cap. *)
LEMMA ChatStep ==
    ASSUME IInv, NEW s \in Streams, chat(s)
    PROVE  IInv' /\ AccountStep
  <1> DEFINE r == [stream[s] EXCEPT !.at = "opening"]
  <1>1. stream[s] \in Stream /\ stream[s].at = "new" /\ stream[s].lost <= Capacity
    BY DEF IInv, TypeOK, StreamsSound, chat
  <1>2. /\ r \in Stream /\ r.at = "opening" /\ r.done = stream[s].done /\ r.lost = stream[s].lost
        /\ Set(s, r) /\ UNCHANGED <<status, used, period, carried, ledger>>
    BY <1>1 DEF Stream, chat
  <1> HIDE DEF r
  <1>3. IInv' /\ CostOf(Rows)' = CostOf(Rows)
    BY <1>1, <1>2, StreamMoves
  <1>4. Cardinality(Running)' = Cardinality(Running) + 1
    <2>1. /\ stream'[s] = r
          /\ \A t \in Streams \ {s} : stream'[t] = stream[t]
      BY <1>2, Moved DEF IInv
    <2>2. s \notin Running /\ Running' = Running \cup {s}
      BY <1>1, <1>2, <2>1 DEF Running
    <2>3. QED
      BY <2>2, RunningEnter
  <1>5. Monthly = UNLIMITED \/ used < Monthly
    <2>1. \A kind \in DOMAIN estimated_cost : estimated_cost[kind] \in Nat /\ estimated_cost[kind] >= 1
      BY DEF estimated_cost
    <2>2. PICK kind \in DOMAIN estimated_cost : under_cap(estimated_cost[kind])
      BY DEF chat
    <2>3. used \in Nat /\ Monthly \in Int
      BY AiAssumption DEF IInv, TypeOK, UNLIMITED
    <2>4. QED
      BY <2>1, <2>2, <2>3 DEF under_cap
  <1>6. Account!Admit
    BY <1>2, <1>3, <1>4, <1>5 DEF Account!Admit, Account!UNLIMITED, UNLIMITED, chat
  <1>7. QED
    BY <1>3, <1>6 DEF AccountStep, Account!Next

(* The stream goes on: lines arrive and are forwarded. *)
LEMMA ForwardStep ==
    ASSUME IInv, NEW s \in Streams,
           \/ open_upstream(s) \/ next_line(s) \/ forward_done(s)
           \/ forward_event(s) /\ stream[s].alive
    PROVE  IInv' /\ AccountStep
  <1>1. stream[s] \in Stream /\ stream[s].lost <= Capacity
    BY DEF IInv, TypeOK, StreamsSound
  <1>2. \E r \in Stream :
          /\ Set(s, r) /\ UNCHANGED <<status, used, period, carried, ledger>>
          /\ stream[s].at \notin {"new", "ended"} /\ r.at \notin {"new", "ended"}
          /\ r.at = "charging" => r.done
          /\ stream[s].done => r.done
          /\ r.lost = stream[s].lost
    <2>1. CASE open_upstream(s)
      <3> DEFINE r == [stream[s] EXCEPT !.at = "streaming"]
      <3>1. r \in Stream /\ r.at = "streaming" /\ r.done = stream[s].done /\ r.lost = stream[s].lost
        BY <1>1 DEF Stream
      <3>2. QED
        BY <2>1, <3>1 DEF open_upstream
    <2>2. CASE next_line(s)
      <3>1. PICK to \in {"sending", "finishing"} : Set(s, [stream[s] EXCEPT !.at = to])
        BY <2>2 DEF next_line
      <3> DEFINE r == [stream[s] EXCEPT !.at = to]
      <3>2. r \in Stream /\ r.at = to /\ r.done = stream[s].done /\ r.lost = stream[s].lost
        BY <1>1, <3>1 DEF Stream
      <3>3. QED
        BY <2>2, <3>1, <3>2 DEF next_line
    <2>3. CASE forward_done(s)
      <3> DEFINE q == IF stream[s].alive THEN stream[s].queued + 1 ELSE stream[s].queued
                 r == [stream[s] EXCEPT !.at = "charging", !.done = TRUE, !.queued = q]
      <3>1. q \in 0..Capacity
        BY <1>1, <2>3, AiAssumption DEF Stream, forward_done
      <3>2. Set(s, r)
        BY <2>3 DEF forward_done
      <3> HIDE DEF q
      <3>3. r \in Stream /\ r.at = "charging" /\ r.done = TRUE /\ r.lost = stream[s].lost
        BY <1>1, <3>1 DEF Stream
      <3>4. QED
        BY <2>3, <3>2, <3>3 DEF forward_done
    <2>4. CASE forward_event(s) /\ stream[s].alive
      <3> DEFINE q == stream[s].queued + 1
                 r == [stream[s] EXCEPT !.at = "streaming", !.queued = q]
      <3>1. Set(s, r) /\ stream[s].queued < Capacity
        BY <2>4 DEF forward_event
      <3>2. q \in 0..Capacity
        BY <1>1, <3>1, AiAssumption DEF Stream
      <3> HIDE DEF q
      <3>3. r \in Stream /\ r.at = "streaming" /\ r.done = stream[s].done /\ r.lost = stream[s].lost
        BY <1>1, <3>2 DEF Stream
      <3>4. QED
        BY <2>4, <3>1, <3>3 DEF forward_event
    <2>5. QED
      BY <2>1, <2>2, <2>3, <2>4
  <1>3. PICK r \in Stream :
          /\ Set(s, r) /\ UNCHANGED <<status, used, period, carried, ledger>>
          /\ stream[s].at \notin {"new", "ended"} /\ r.at \notin {"new", "ended"}
          /\ r.at = "charging" => r.done
          /\ stream[s].done => r.done
          /\ r.lost = stream[s].lost
    BY <1>2
  <1>4. IInv'
    BY <1>1, <1>3, StreamMoves
  <1>5. AccountStep
    BY <1>3, StutterMoves
  <1>6. QED
    BY <1>4, <1>5

(* The stream ends uncharged. *)
LEMMA AbandonStep ==
    ASSUME IInv, NEW s \in Streams,
           \/ upstream_closed(s) \/ reconcile_failed(s)
           \/ forward_event(s) /\ ~stream[s].alive
           \/ reconcile(s) /\ status \notin Billable
    PROVE  IInv' /\ AccountStep
  <1> DEFINE r == [stream[s] EXCEPT !.at = "ended"]
  <1>1. stream[s] \in Stream /\ stream[s].lost <= Capacity
    BY DEF IInv, TypeOK, StreamsSound
  <1>2. r \in Stream /\ r.at = "ended" /\ r.done = stream[s].done /\ r.lost = stream[s].lost
    BY <1>1 DEF Stream
  <1>3. /\ Set(s, r) /\ UNCHANGED <<status, used, period, carried, ledger>>
        /\ stream[s].at \notin {"new", "ended"}
    BY DEF upstream_closed, reconcile_failed, forward_event, reconcile
  <1> HIDE DEF r
  <1>4. IInv'
    BY <1>1, <1>2, <1>3, StreamMoves
  <1>5. AccountStep
    BY <1>2, <1>3, AbandonMoves
  <1>6. QED
    BY <1>4, <1>5

(* The client reads or leaves. *)
LEMMA ClientStep ==
    ASSUME IInv, NEW s \in Streams, client_read(s) \/ client_gone(s)
    PROVE  IInv' /\ AccountStep
  <1>1. stream[s] \in Stream /\ stream[s].lost <= Capacity /\ (stream[s].at = "charging" => stream[s].done)
    BY DEF IInv, TypeOK, StreamsSound
  <1>2. \E r \in Stream :
          /\ Set(s, r) /\ UNCHANGED <<status, used, period, carried, ledger>>
          /\ r.at = stream[s].at /\ r.done = stream[s].done /\ r.lost <= Capacity
    <2>1. CASE client_read(s)
      <3> DEFINE r == [stream[s] EXCEPT !.queued = @ - 1]
      <3>1. /\ r \in Stream
            /\ r.at = stream[s].at /\ r.done = stream[s].done /\ r.lost = stream[s].lost
        BY <1>1, <2>1, AiAssumption DEF Stream, client_read
      <3>2. QED
        BY <1>1, <2>1, <3>1 DEF client_read
    <2>2. CASE client_gone(s)
      <3> DEFINE q == stream[s].queued
                 r == [stream[s] EXCEPT !.alive = FALSE, !.lost = q, !.queued = 0]
      <3>1. q \in Nat /\ q <= Capacity /\ 0 \in 0..Capacity
        BY <1>1, AiAssumption DEF Stream
      <3>2. Set(s, r)
        BY <2>2 DEF client_gone
      <3> HIDE DEF q
      <3>3. r \in Stream /\ r.at = stream[s].at /\ r.done = stream[s].done /\ r.lost = q
        BY <1>1, <3>1 DEF Stream
      <3>4. QED
        BY <2>2, <3>1, <3>2, <3>3 DEF client_gone
    <2>3. QED
      BY <2>1, <2>2
  <1>3. PICK r \in Stream :
          /\ Set(s, r) /\ UNCHANGED <<status, used, period, carried, ledger>>
          /\ r.at = stream[s].at /\ r.done = stream[s].done /\ r.lost <= Capacity
    BY <1>2
  <1>4. IInv'
    BY <1>1, <1>3, StreamMoves
  <1>5. AccountStep
    BY <1>3, StutterMoves
  <1>6. QED
    BY <1>4, <1>5

(* The rows after row x, which was not there, is written for the current period. *)
LEMMA RowAdded ==
    ASSUME TypeOK, RowsPast, NEW x \in Streams \cup Posts, ledger[x] = NoRow, NEW cost \in Costs \cup {0},
           ledger' = [ledger EXCEPT ![x] = [cost |-> cost, period |-> period]], UNCHANGED period
    PROVE  /\ ledger' \in [Streams \cup Posts -> {NoRow} \cup [cost : Costs \cup {0}, period : 0..MaxPeriod]]
           /\ ledger'[x] # NoRow /\ \A y \in (Streams \cup Posts) \ {x} : ledger'[y] = ledger[y]
           /\ Sum(ledger', Current') = Sum(ledger, Current) + cost
           /\ CostOf(Rows)' = CostOf(Rows) + cost
           /\ RowsPast'
  <1> DEFINE row == [cost |-> cost, period |-> period]
  <1>1. period \in 0..MaxPeriod /\ period \in Nat
    BY AiAssumption DEF TypeOK
  <1>2. row # NoRow /\ row.cost = cost /\ row.period = period
    BY <1>1 DEF NoRow
  <1>3. row \in [cost : Costs \cup {0}, period : 0..MaxPeriod]
    BY <1>1
  <1> HIDE DEF row
  <1>4. ledger'[x] = row /\ \A y \in (Streams \cup Posts) \ {x} : ledger'[y] = ledger[y]
    BY DEF TypeOK, row
  <1>5. ledger' \in [Streams \cup Posts -> {NoRow} \cup [cost : Costs \cup {0}, period : 0..MaxPeriod]]
    BY <1>3 DEF TypeOK, row
  <1>6. x \notin Rows /\ Rows' = Rows \cup {x} /\ Rows \subseteq (Streams \cup Posts) \ {x}
    BY <1>2, <1>4 DEF Rows
  <1>7. x \notin Current /\ Current' = Current \cup {x} /\ Current \subseteq Rows
    BY <1>2, <1>4, <1>6 DEF Current
  <1>8. cost \in Nat
    BY CostFacts
  <1>9. /\ IsFiniteSet(Rows) /\ Priced(ledger, Rows)
        /\ IsFiniteSet(Current) /\ Priced(ledger, Current)
    BY RowFacts
  <1>10. ledger'[x].cost = cost
    BY <1>2, <1>4
  <1>11. Sum(ledger', Rows \cup {x}) = Sum(ledger, Rows) + cost
    <2>1. \A y \in Rows : ledger'[y] = ledger[y]
      BY <1>4, <1>6
    <2>2. Sum(ledger', Rows \cup {x}) = Sum(ledger, Rows) + ledger'[x].cost
      BY ONLY <1>6, <1>8, <1>9, <1>10, <2>1, SumAdd
    <2>3. QED
      BY <1>10, <2>2
  <1>12. Sum(ledger', Current \cup {x}) = Sum(ledger, Current) + cost
    <2>1. \A y \in Current : ledger'[y] = ledger[y]
      BY <1>4, <1>6, <1>7
    <2>2. Sum(ledger', Current \cup {x}) = Sum(ledger, Current) + ledger'[x].cost
      BY ONLY <1>7, <1>8, <1>9, <1>10, <2>1, SumAdd
    <2>3. QED
      BY <1>10, <2>2
  <1>13. RowsPast'
    <2>1. \A y \in Rows' : ledger'[y].period <= period
      BY <1>1, <1>2, <1>4, <1>6 DEF RowsPast
    <2>2. QED
      BY <2>1 DEF RowsPast
  <1>14. CostOf(Rows)' = CostOf(Rows) + cost
    BY <1>6, <1>11, UsageIsSum
  <1>15. QED
    BY <1>2, <1>4, <1>5, <1>7, <1>12, <1>13, <1>14

(* The reply is charged. *)
LEMMA ChargeStep ==
    ASSUME IInv, NEW s \in Streams, reconcile(s), status \in Billable
    PROVE  IInv' /\ AccountStep
  <1> DEFINE r == [stream[s] EXCEPT !.at = "ended"]
  <1>1. /\ stream[s] \in Stream /\ stream[s].at = "charging" /\ stream[s].done /\ stream[s].lost <= Capacity
        /\ ledger[s] = NoRow
    BY DEF IInv, TypeOK, StreamsSound, reconcile
  <1>2. r \in Stream /\ r.at = "ended" /\ r.done = stream[s].done /\ r.lost = stream[s].lost
    BY <1>1 DEF Stream
  <1>3. Set(s, r) /\ UNCHANGED <<status, period, carried>>
    BY DEF reconcile
  <1> HIDE DEF r
  <1>4. PICK cost \in Costs :
          /\ ledger' = [ledger EXCEPT ![s] = [cost |-> cost, period |-> period]]
          /\ used' = used + cost
    BY DEF reconcile, Reply
  <1>5. /\ stream' \in [Streams -> Stream]
        /\ stream'[s] = r
        /\ \A t \in Streams \ {s} : stream'[t] = stream[t]
    BY <1>2, <1>3, Moved DEF IInv
  <1>6. /\ ledger' \in [Streams \cup Posts -> {NoRow} \cup [cost : Costs \cup {0}, period : 0..MaxPeriod]]
        /\ ledger'[s] # NoRow /\ \A y \in (Streams \cup Posts) \ {s} : ledger'[y] = ledger[y]
        /\ Sum(ledger', Current') = Sum(ledger, Current) + cost
        /\ CostOf(Rows)' = CostOf(Rows) + cost
        /\ RowsPast'
    BY <1>1, <1>3, <1>4, RowAdded DEF IInv
  <1>7. cost \in Nat /\ cost \in 1..Max(Costs) /\ used \in Nat /\ carried \in Nat
        /\ Sum(ledger, Current) \in Nat
    BY CostFacts, RowFacts DEF IInv, TypeOK
  <1>8. TypeOK'
    BY <1>3, <1>4, <1>5, <1>6, <1>7 DEF IInv, TypeOK
  <1>9. StreamsSound'
    BY <1>1, <1>2, <1>5, <1>6 DEF IInv, StreamsSound
  <1>10. UsageMatches'
    <2>1. UsageMatches' = (used' = carried' + Sum(ledger', Current'))
      BY DEF UsageMatches, Sum, SumFcn, IsSum, Pick
    <2>2. used = carried + Sum(ledger, Current)
      BY DEF IInv, UsageMatches
    <2>3. used' = carried' + Sum(ledger', Current')
      BY <1>3, <1>4, <1>6, <1>7, <2>2
    <2>4. QED
      BY <2>1, <2>3
  <1>11. Account!Charge
    <2>1. s \in Running /\ Running' = Running \ {s}
      BY <1>1, <1>2, <1>5 DEF Running
    <2>2. Cardinality(Running) > 0 /\ Cardinality(Running)' = Cardinality(Running) - 1
      BY <2>1, RunningLeave
    <2>3. QED
      BY <1>3, <1>4, <1>6, <1>7, <2>2 DEF Account!Charge
  <1>12. QED
    BY <1>6, <1>8, <1>9, <1>10, <1>11 DEF IInv, AccountStep, Account!Next

(* A row of the client's own costs nothing. *)
LEMMA RecordStep ==
    ASSUME IInv, NEW p \in Posts, record_usage(p)
    PROVE  IInv' /\ AccountStep
  <1>1. /\ ledger[p] = NoRow /\ UNCHANGED <<status, used, period, carried, stream>>
        /\ ledger' = [ledger EXCEPT ![p] = [cost |-> 0, period |-> period]]
    BY DEF record_usage
  <1>2. /\ ledger' \in [Streams \cup Posts -> {NoRow} \cup [cost : Costs \cup {0}, period : 0..MaxPeriod]]
        /\ ledger'[p] # NoRow /\ \A y \in (Streams \cup Posts) \ {p} : ledger'[y] = ledger[y]
        /\ Sum(ledger', Current') = Sum(ledger, Current) + 0
        /\ CostOf(Rows)' = CostOf(Rows) + 0
        /\ RowsPast'
    <2>1. 0 \in Costs \cup {0}
      OBVIOUS
    <2>2. QED
      BY <1>1, <2>1, RowAdded DEF IInv
  <1>3. TypeOK'
    BY <1>1, <1>2 DEF IInv, TypeOK
  <1>4. StreamsSound'
    <2>1. \A s \in Streams : ledger'[s] = ledger[s]
      BY <1>2, AiAssumption
    <2>2. QED
      BY <1>1, <2>1 DEF IInv, StreamsSound
  <1>5. Sum(ledger, Current) \in Nat /\ Sum(ledger, Rows) \in Nat
    BY RowFacts DEF IInv
  <1>6. UsageMatches'
    <2>1. UsageMatches' = (used' = carried' + Sum(ledger', Current'))
      BY DEF UsageMatches, Sum, SumFcn, IsSum, Pick
    <2>2. QED
      BY <1>1, <1>2, <1>5, <2>1 DEF IInv, UsageMatches
  <1>7. UNCHANGED Account!vars
    <2>1. CostOf(Rows)' = CostOf(Rows)
      BY <1>2, <1>5, UsageIsSum
    <2>2. Running' = Running
      BY <1>1 DEF Running
    <2>3. QED
      BY <1>1, <2>1, <2>2 DEF Account!vars
  <1>8. QED
    BY <1>2, <1>3, <1>4, <1>6, <1>7 DEF IInv, AccountStep

(* An invoice starts the counter over. *)
LEMMA ResetStep ==
    ASSUME IInv, reset_ai_credits
    PROVE  IInv' /\ AccountStep
  <1>1. /\ UNCHANGED <<status, ledger, stream>>
        /\ period' = period + 1 /\ used' = 0 /\ carried' = 0 /\ period < MaxPeriod
    BY DEF reset_ai_credits
  <1>2. period \in Nat /\ MaxPeriod \in Nat
    BY AiAssumption DEF IInv, TypeOK
  <1>3. TypeOK'
    BY <1>1, <1>2 DEF IInv, TypeOK
  <1>4. StreamsSound'
    BY <1>1 DEF IInv, StreamsSound
  <1>5. Rows' = Rows /\ Running' = Running
    BY <1>1 DEF Rows, Running
  <1>6. \A x \in Rows : ledger[x].period \in Int /\ ledger[x].period <= period
    <2>1. \A x \in Rows : ledger[x] \in [cost : Costs \cup {0}, period : 0..MaxPeriod]
      BY DEF IInv, TypeOK, Rows
    <2>2. QED
      BY <1>2, <2>1 DEF IInv, RowsPast
  <1>7. RowsPast' /\ Current' = {}
    <2>1. \A x \in Rows : ledger[x].period <= period + 1 /\ ledger[x].period # period + 1
      BY <1>2, <1>6
    <2>2. QED
      BY <1>1, <1>5, <2>1 DEF RowsPast, Current
  <1>8. UsageMatches'
    <2>1. UsageMatches' = (used' = carried' + Sum(ledger', Current'))
      BY DEF UsageMatches, Sum, SumFcn, IsSum, Pick
    <2>2. IsFiniteSet({}) /\ Priced(ledger', {})
      BY FS_EmptySet DEF Priced
    <2>3. Sum(ledger', {}) = 0
      BY <2>2, SumUnfold
    <2>4. Sum(ledger', Current') = 0
      BY <1>7, <2>3
    <2>5. used' = carried' + Sum(ledger', Current')
      BY <1>1, <2>4
    <2>6. QED
      BY <2>1, <2>5
  <1>9. Account!Reset
    <2>1. CostOf(Rows)' = CostOf(Rows)
      BY <1>1, <1>5, UsageIsSum
    <2>2. QED
      BY <1>1, <1>5, <2>1 DEF Account!Reset
  <1>10. QED
    BY <1>3, <1>4, <1>7, <1>8, <1>9 DEF IInv, AccountStep, Account!Next

(* The status changes, or nothing does. *)
LEMMA QuietStep ==
    ASSUME IInv, set_status \/ UNCHANGED vars
    PROVE  IInv' /\ AccountStep
  <1>1. UNCHANGED <<used, period, carried, ledger, stream>> /\ status' \in Statuses
    BY DEF IInv, TypeOK, set_status, vars
  <1>2. TypeOK' /\ StreamsSound' /\ Running' = Running
    BY <1>1 DEF IInv, TypeOK, StreamsSound, Running
  <1>3. RowsPast'
    BY <1>1, QuietMoney DEF IInv, RowsPast
  <1>4. UsageMatches'
    <2>1. UsageMatches' = (used' = carried' + Sum(ledger', Current'))
      BY DEF UsageMatches, Sum, SumFcn, IsSum, Pick
    <2>2. QED
      BY <1>1, <2>1, QuietMoney DEF IInv, UsageMatches
  <1>5. UNCHANGED Account!vars
    BY <1>1, <1>2, QuietMoney DEF Account!vars
  <1>6. QED
    BY <1>2, <1>3, <1>4, <1>5 DEF IInv, AccountStep

-----------------------------------------------------------------------------
(* The initial state and all steps. *)

(* Nothing runs and nothing is charged. *)
LEMMA InitStep ==
    ASSUME Init
    PROVE  IInv /\ Account!Init
  <1> USE DEF Init
  <1>1. used \in Nat /\ (Monthly # UNLIMITED => used <= Monthly)
    BY AiAssumption DEF UNLIMITED
  <1>2. Rows = {} /\ Current = {} /\ Running = {}
    BY DEF Rows, Current, Running
  <1>3. TypeOK
    <2>1. 0 \in 0..Capacity /\ 0 \in 0..MaxPeriod
      BY AiAssumption
    <2>2. QED
      BY <1>1, <2>1 DEF TypeOK, Stream
  <1>4. StreamsSound /\ RowsPast
    BY <1>2, AiAssumption DEF StreamsSound, RowsPast
  <1>5. Sum(ledger, {}) = 0
    <2>1. IsFiniteSet({}) /\ Priced(ledger, {})
      BY FS_EmptySet DEF Priced
    <2>2. QED
      BY <2>1, SumUnfold
  <1>6. UsageMatches
    BY <1>1, <1>2, <1>5 DEF UsageMatches
  <1>7. Account!Init
    <2>1. Cardinality(Running) = 0
      BY <1>2, FS_EmptySet
    <2>2. CostOf(Rows) = 0
      BY <1>2, <1>5, UsageIsSum
    <2>3. QED
      BY <1>1, <2>1, <2>2 DEF Account!Init, Account!UNLIMITED, UNLIMITED
  <1>8. QED
    BY <1>3, <1>4, <1>6, <1>7 DEF IInv

(* Every step keeps the invariant and is a step of the account or leaves it alone. *)
LEMMA NextStep ==
    ASSUME IInv, [Next]_vars
    PROVE  IInv' /\ AccountStep
  <1>1. ASSUME NEW s \in Streams, chat(s)
        PROVE  IInv' /\ AccountStep
    BY <1>1, ChatStep
  <1>2. ASSUME NEW s \in Streams, open_upstream(s) \/ next_line(s) \/ forward_done(s)
        PROVE  IInv' /\ AccountStep
    BY <1>2, ForwardStep
  <1>3. ASSUME NEW s \in Streams, forward_event(s)
        PROVE  IInv' /\ AccountStep
    BY <1>3, ForwardStep, AbandonStep
  <1>4. ASSUME NEW s \in Streams, upstream_closed(s) \/ reconcile_failed(s)
        PROVE  IInv' /\ AccountStep
    BY <1>4, AbandonStep
  <1>5. ASSUME NEW s \in Streams, reconcile(s)
        PROVE  IInv' /\ AccountStep
    BY <1>5, ChargeStep, AbandonStep
  <1>6. ASSUME NEW s \in Streams, client_read(s) \/ client_gone(s)
        PROVE  IInv' /\ AccountStep
    BY <1>6, ClientStep
  <1>7. ASSUME NEW p \in Posts, record_usage(p)
        PROVE  IInv' /\ AccountStep
    BY <1>7, RecordStep
  <1>8. CASE reset_ai_credits
    BY <1>8, ResetStep
  <1>9. CASE set_status \/ UNCHANGED vars
    BY <1>9, QuietStep
  <1>10. QED
    BY <1>1, <1>2, <1>3, <1>4, <1>5, <1>6, <1>7, <1>8, <1>9 DEF Next, Send, Reconcile

-----------------------------------------------------------------------------
(* The theorems. *)

(* The inductive invariant holds in every reachable state. *)
THEOREM Invariance == Spec => []IInv
  <1>1. Init => IInv
    BY InitStep
  <1>2. IInv /\ [Next]_vars => IInv'
    BY NextStep
  <1>3. QED
    BY <1>1, <1>2, PTL DEF Spec

(* ai_credits_used is what the ledger charged since the last invoice, for any
   number of overlapping streams, resets, cancellations and failed charges. *)
THEOREM CounterMatchesLedger == Spec => []LedgerMatchesUsage
  <1>1. IInv => LedgerMatchesUsage
    BY UsageIsSum DEF IInv
  <1>2. QED
    BY Invariance, <1>1, PTL

(* A charged reply was complete, and its client has missed no more than the channel
   holds, for every capacity. *)
THEOREM LossBounded == Spec => []ChargedLossBounded
  <1>1. IInv => ChargedLossBounded
    BY DEF IInv, StreamsSound, ChargedLossBounded, Charged
  <1>2. QED
    BY Invariance, <1>1, PTL

(* The proxy implements the credit account: streams, channels and transactions
   refine Admit, Charge, Abandon and Reset. *)
THEOREM ProxyImplementsAccount == Spec => ImplementsAccount
  <1>1. Init => Account!Init
    BY InitStep
  <1>2. IInv /\ [Next]_vars => [Account!Next]_(Account!vars)
    BY NextStep DEF AccountStep
  <1>3. QED
    BY Invariance, <1>1, <1>2, PTL DEF Spec, ImplementsAccount, Account!Spec

(* What the account proves of its overrun holds of the proxy: the replies in flight
   never take the counter past the cap and one dearest reply for each stream that
   may run beside it, and all the ledger ever charged is at most that for each
   period. *)
THEOREM OverrunBounded == Spec => [](Account!WithinCap /\ Account!SpentBounded)
  <1> DEFINE Bounds == Account!WithinCap /\ Account!SpentBounded
  <1>1. CASE Monthly = UNLIMITED
    <2>1. Bounds
      BY <1>1 DEF Account!WithinCap, Account!SpentBounded, Account!UNLIMITED, UNLIMITED
    <2>2. QED
      BY <2>1, PTL
  <1>2. CASE Monthly # UNLIMITED
    <2>1. AccountProofs!AccountAssumption
      BY <1>2, CostFacts, AiAssumption DEF AccountProofs!AccountAssumption
    <2>2. Init => AccountProofs!IInv
      <3>1. Init => AccountProofs!Init
        BY InitStep DEF Account!Init, AccountProofs!Init, Account!UNLIMITED, AccountProofs!UNLIMITED
      <3>2. QED
        BY <2>1, <3>1, AccountProofs!InitInv
    <2>3. IInv /\ AccountProofs!IInv /\ [Next]_vars => AccountProofs!IInv'
      <3>1. IInv /\ [Next]_vars => [AccountProofs!Next]_(AccountProofs!vars)
        BY NextStep DEF AccountStep, Account!vars, AccountProofs!vars, Account!Next, AccountProofs!Next,
           Account!Admit, AccountProofs!Admit, Account!Charge, AccountProofs!Charge,
           Account!Abandon, AccountProofs!Abandon, Account!Reset, AccountProofs!Reset,
           Account!UNLIMITED, AccountProofs!UNLIMITED
      <3>2. QED
        BY <2>1, <3>1, AccountProofs!NextInv
    <2>4. ASSUME AccountProofs!IInv PROVE Bounds
      <3> DEFINE cap == Account!Cap
                 load == Max(Costs) * Cardinality(Running)
                 charged == CostOf(Rows)
      <3>1. /\ used \in Nat /\ charged \in Nat /\ period \in Nat
            /\ Cardinality(Running) \in 0..MaxConcurrent
            /\ used + load <= cap
            /\ charged <= cap * period + used
        BY <2>4 DEF AccountProofs!IInv, AccountProofs!TypeOK, AccountProofs!SpentBefore,
                    AccountProofs!Cap, Account!Cap
      <3>2. cap \in Nat /\ load \in Nat
        BY <2>1, <3>1, AccountProofs!Products DEF AccountProofs!Cap, Account!Cap
      <3>3. Account!WithinCap
        BY <3>1 DEF Account!WithinCap
      <3> HIDE DEF cap, load, charged
      <3>4. cap * (period + 1) = cap * period + cap /\ cap * period \in Nat
        BY <3>1, <3>2
      <3>5. charged <= cap * (period + 1)
        BY <3>1, <3>2, <3>4
      <3>6. QED
        BY <3>3, <3>5 DEF Account!SpentBounded, cap, charged
    <2>5. QED
      BY Invariance, <2>2, <2>3, <2>4, PTL DEF Spec
  <1>3. QED
    BY <1>1, <1>2
=============================================================================
