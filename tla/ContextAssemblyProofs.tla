----------------------- MODULE ContextAssemblyProofs -----------------------
(***************************************************************************)
(* Proofs about the assembly of a context, for every list of items and     *)
(* every budget and threshold.                                             *)
(***************************************************************************)
EXTENDS ContextAssembly, FiniteSetTheorems, TLAPS

(* Sequences by length and elements *)

LEMMA Taken ==
    ASSUME NEW items \in Seq(Items), items # <<>>
    PROVE  /\ Head(items) \in Items /\ Tail(items) \in Seq(Items)
           /\ Head(items) = items[1] /\ 1 \in DOMAIN items
           /\ Len(items) = Len(Tail(items)) + 1 /\ Len(Tail(items)) \in Nat
           /\ \A i \in DOMAIN Tail(items) : i + 1 \in DOMAIN items /\ Tail(items)[i] = items[i + 1]
           /\ Elements(items) = {Head(items)} \cup Elements(Tail(items))
<1>1. /\ Head(items) \in Items /\ Tail(items) \in Seq(Items)
      /\ Head(items) = items[1] /\ 1 \in DOMAIN items
      /\ Len(items) = Len(Tail(items)) + 1 /\ Len(Tail(items)) \in Nat
      /\ \A i \in DOMAIN Tail(items) : i + 1 \in DOMAIN items /\ Tail(items)[i] = items[i + 1]
  OBVIOUS
<1>2. \A i \in DOMAIN items : i # 1 => i - 1 \in DOMAIN Tail(items) /\ Tail(items)[i - 1] = items[i]
  OBVIOUS
<1>3. {Head(items)} \cup Elements(Tail(items)) \subseteq Elements(items)
  BY <1>1 DEF Elements
<1>4. Elements(items) \subseteq {Head(items)} \cup Elements(Tail(items))
  <2> SUFFICES ASSUME NEW i \in DOMAIN items, i # 1 PROVE items[i] \in Elements(Tail(items))
    BY <1>1 DEF Elements
  <2> QED BY <1>2 DEF Elements
<1> QED BY <1>1, <1>3, <1>4

LEMMA Appended ==
    ASSUME NEW items \in Seq(Items), NEW item \in Items
    PROVE  /\ Append(items, item) \in Seq(Items)
           /\ Len(Append(items, item)) = Len(items) + 1 /\ Len(items) \in Nat
           /\ DOMAIN Append(items, item) = DOMAIN items \cup {Len(items) + 1}
           /\ \A i \in DOMAIN items : Append(items, item)[i] = items[i] /\ i # Len(items) + 1
           /\ Append(items, item)[Len(items) + 1] = item
           /\ Elements(Append(items, item)) = Elements(items) \cup {item}
<1>1. /\ Append(items, item) \in Seq(Items)
      /\ Len(Append(items, item)) = Len(items) + 1 /\ Len(items) \in Nat
      /\ DOMAIN Append(items, item) = DOMAIN items \cup {Len(items) + 1}
      /\ \A i \in DOMAIN items : Append(items, item)[i] = items[i] /\ i # Len(items) + 1
      /\ Append(items, item)[Len(items) + 1] = item
  OBVIOUS
<1> QED BY <1>1 DEF Elements

LEMMA Joined ==
    ASSUME NEW one \in Seq(Items), NEW other \in Seq(Items)
    PROVE  /\ one \o other \in Seq(Items)
           /\ Len(one \o other) = Len(one) + Len(other)
           /\ Len(one) \in Nat /\ Len(other) \in Nat
           /\ Elements(one \o other) = Elements(one) \cup Elements(other)
<1>1. /\ one \o other \in Seq(Items) /\ Len(one \o other) = Len(one) + Len(other)
      /\ Len(one) \in Nat /\ Len(other) \in Nat
  OBVIOUS
<1>2. /\ \A i \in DOMAIN one : i \in DOMAIN (one \o other) /\ (one \o other)[i] = one[i]
      /\ \A i \in DOMAIN other : Len(one) + i \in DOMAIN (one \o other)
                                 /\ (one \o other)[Len(one) + i] = other[i]
  OBVIOUS
<1>3. \A i \in DOMAIN (one \o other) : i \notin DOMAIN one =>
          i - Len(one) \in DOMAIN other /\ (one \o other)[i] = other[i - Len(one)]
  OBVIOUS
<1>4. Elements(one) \cup Elements(other) \subseteq Elements(one \o other)
  BY <1>2 DEF Elements
<1>5. Elements(one \o other) \subseteq Elements(one) \cup Elements(other)
  <2> SUFFICES ASSUME NEW i \in DOMAIN (one \o other), i \notin DOMAIN one
               PROVE  (one \o other)[i] \in Elements(other)
    BY <1>2 DEF Elements
  <2> QED BY <1>3 DEF Elements
<1> QED BY <1>1, <1>4, <1>5

LEMMA ItemTypes ==
    \A item \in Items : /\ item.priority \in Int /\ item.age_in_steps \in Nat
                        /\ Tokens[item.content] \in Nat /\ Tokens[item.content] > 0
BY ItemsAssumption
-----------------------------------------------------------------------------
(* The inductive invariant *)

(* What has not been reached yet *)
Waiting ==
    /\ stage = "submit" => todo = <<>>
    /\ stage \in {"submit", "dedup"} => fresh = <<>> /\ pruned_count = 0
    /\ stage \in {"submit", "dedup", "prune"} =>
          /\ sorted_items = <<>> /\ retained_items = <<>> /\ dropped_items = <<>>
          /\ current_tokens = 0
    /\ stage # "reorder" => (stage # "done" =>
          system = <<>> /\ user = <<>> /\ front = <<>> /\ back = <<>>)
    /\ stage # "done" => report = NoReport

(* The first item of every content, among the first n *)
FirstOfEach(kept, items, n) ==
    /\ \A k, l \in DOMAIN kept : kept[k].content = kept[l].content => k = l
    /\ \A k \in DOMAIN kept : \E j \in 1..n : kept[k] = items[j]
    /\ \A j \in 1..n : Seen(kept, items[j])
    /\ \A j \in 1..n : ~Seen(SubSeq(items, 1, j - 1), items[j]) => items[j] \in Elements(kept)

(* How many of the submitted items the deduplicator has looked at *)
Looked == CASE stage = "submit" -> 0
            [] stage = "dedup"  -> Len(raw_items) - Len(todo)
            [] OTHER            -> Len(raw_items)

Deduping ==
    /\ stage = "dedup" => \A i \in DOMAIN todo : Looked + i \in DOMAIN raw_items
                                                 /\ todo[i] = raw_items[Looked + i]
    /\ stage = "submit" => deduped = <<>>
    /\ Looked \in Nat /\ Looked <= Len(raw_items)
    /\ FirstOfEach(deduped, raw_items, Looked)

(* Every item is pruned or goes on; exempt ones go on *)
Pruning ==
    /\ stage = "prune" =>
          /\ Len(fresh) + pruned_count + Len(todo) = Len(deduped)
          /\ \A item \in Elements(deduped) :
                Exempt(item) => item \in Elements(fresh) \cup Elements(todo)
    /\ stage \in {"budget", "reorder", "done"} =>
          /\ pruned_count + Len(sorted_items) = Len(deduped)
          /\ \A item \in Elements(deduped) : Exempt(item) => item \in Elements(sorted_items)

(* Items are considered by descending priority; what was dropped has not    *)
(* fitted, and does not fit now                                             *)
Ahead == IF stage = "budget" THEN todo ELSE <<>>

Budgeting ==
    /\ \A i, j \in DOMAIN Ahead : i < j => Ahead[i].priority >= Ahead[j].priority
    /\ \A item \in Elements(retained_items), next \in Elements(Ahead) :
          item.priority >= next.priority
    /\ \A gone \in Elements(dropped_items) : current_tokens + Tokens[gone.content] > MaxTokens
    /\ stage \in {"budget", "reorder", "done"} =>
          /\ Len(retained_items) + Len(dropped_items) + Len(Ahead) = Len(sorted_items)
          /\ \A item \in Elements(sorted_items) :
                Exempt(item) => item \in Elements(retained_items) \cup Elements(Ahead)

Placing ==
    stage = "reorder" =>
        /\ Len(system) + Len(user) + Len(front) + Len(back) + Len(todo) = Len(retained_items)
        /\ Elements(system) \cup Elements(user) \cup Elements(front) \cup Elements(back)
              \cup Elements(todo) = Elements(retained_items)

Reporting ==
    stage = "done" =>
        /\ report.items_after_dedup = Len(deduped) /\ report.items_pruned = pruned_count
        /\ report.items_dropped_by_budget = Len(dropped_items)
        /\ report.items_retained = Len(bundle)
        /\ Len(bundle) = Len(retained_items) /\ Elements(bundle) = Elements(retained_items)

AssemblyInv ==
    /\ TypeOK /\ Waiting /\ Deduping /\ Pruning /\ CrowdingCutsTheLowest
    /\ Budgeting /\ BudgetByPriority /\ Placing /\ Reporting
-----------------------------------------------------------------------------
(* Sorting and cutting *)

(* Descending priorities *)
Descending(items) ==
    \A i, j \in DOMAIN items : i < j => items[i].priority >= items[j].priority

LEMMA Arrangement ==
    ASSUME NEW items \in Seq(Items), NEW order \in Orders(items)
    PROVE  /\ Arranged(items, order) \in Seq(Items)
           /\ Len(Arranged(items, order)) = Len(items)
           /\ Elements(Arranged(items, order)) = Elements(items)
           /\ Descending(Arranged(items, order))
<1> DEFINE arr == Arranged(items, order)
<1>1. /\ DOMAIN items = 1..Len(items) /\ Len(items) \in Nat
      /\ order \in [DOMAIN items -> DOMAIN items]
      /\ \A i \in DOMAIN items : items[i] \in Items
  BY DEF Orders
<1>2. /\ arr \in [1..Len(items) -> Items]
      /\ \A i \in DOMAIN items : arr[i] = items[order[i]]
  BY <1>1 DEF Arranged
<1>3. arr \in Seq(Items) /\ Len(arr) = Len(items) /\ DOMAIN arr = DOMAIN items
  <2> HIDE DEF arr
  <2> QED BY <1>1, <1>2
<1>4. Elements(arr) = Elements(items)
  <2>1. \A k \in DOMAIN items : \E i \in DOMAIN items : order[i] = k
    BY DEF Orders
  <2> HIDE DEF arr
  <2>2. Elements(arr) \subseteq Elements(items)
    BY <1>1, <1>2, <1>3 DEF Elements
  <2>3. Elements(items) \subseteq Elements(arr)
    BY <1>2, <1>3, <2>1 DEF Elements
  <2> QED BY <2>2, <2>3
<1>5. Descending(arr)
  <2> SUFFICES ASSUME NEW i \in DOMAIN items, NEW j \in DOMAIN items, i < j
               PROVE  arr[i].priority >= arr[j].priority
    BY <1>3 DEF Descending
  <2>1. Before(items, order[i], order[j])
    BY DEF Orders
  <2>2. items[order[i]].priority \in Int /\ items[order[j]].priority \in Int
    BY <1>1, ItemTypes
  <2>3. items[order[i]].priority >= items[order[j]].priority
    BY <2>1, <2>2 DEF Before
  <2> HIDE DEF arr
  <2> QED BY <1>2, <2>3
<1> QED BY <1>3, <1>4, <1>5

(* What is left is the beginning of the arrangement. Exempt items lead it,  *)
(* so none of them lies beyond a limit that they do not reach.              *)
LEMMA ExemptLead ==
    ASSUME NEW items \in Seq(Items), Descending(items), NEW p \in DOMAIN items, Exempt(items[p])
    PROVE  Cardinality(ExemptIn(items)) \in Nat /\ p <= Cardinality(ExemptIn(items))
<1>1. DOMAIN items = 1..Len(items) /\ Len(items) \in Nat /\ p \in Nat /\ p >= 1
  OBVIOUS
<1>2. IsFiniteSet(DOMAIN items)
  BY <1>1, FS_Interval
<1>3. IsFiniteSet(ExemptIn(items)) /\ Cardinality(ExemptIn(items)) \in Nat
  BY <1>2, FS_Subset, FS_CardinalityType DEF ExemptIn
<1>4. 1..p \subseteq ExemptIn(items)
  <2> SUFFICES ASSUME NEW i \in 1..p, i # p PROVE Exempt(items[i])
    BY <1>1 DEF ExemptIn
  <2>1. i \in DOMAIN items /\ i < p
    BY <1>1
  <2>2. items[i].priority >= items[p].priority
    BY <2>1 DEF Descending
  <2>3. items[i].priority \in Int /\ items[p].priority \in Int /\ SystemPriority \in Int
    BY <2>1, ItemTypes, ItemsAssumption
  <2> QED BY <2>2, <2>3 DEF Exempt
<1>5. Cardinality(1..p) = p
  BY <1>1, FS_Interval
<1>6. Cardinality(1..p) <= Cardinality(ExemptIn(items))
  BY <1>3, <1>4, FS_Subset
<1> QED BY <1>3, <1>5, <1>6

LEMMA Sorted ==
    ASSUME TypeOK, SortByPriority
    PROVE  /\ sorted_items' \in Seq(Items)
           /\ Len(sorted_items') \in Nat /\ Len(sorted_items') <= Len(fresh) /\ Len(fresh) \in Nat
           /\ pruned_count' = pruned_count + Len(fresh) - Len(sorted_items')
           /\ Descending(sorted_items')
           /\ \A item \in Elements(fresh) : Exempt(item) => item \in Elements(sorted_items')
           /\ CrowdingCutsTheLowest'
<1>1. PICK order \in Orders(fresh) : Cut(Arranged(fresh, order))
  BY DEF SortByPriority
<1> DEFINE arr == Arranged(fresh, order)
<1>2. fresh \in Seq(Items) /\ Len(fresh) \in Nat /\ MaxItems \in Nat /\ fresh' = fresh
  BY ItemsAssumption DEF TypeOK, SortByPriority
<1>3. /\ arr \in Seq(Items) /\ Len(arr) = Len(fresh) /\ Elements(arr) = Elements(fresh)
      /\ Descending(arr)
  BY <1>2, Arrangement
<1>4. /\ sorted_items' = IF Len(arr) > MaxItems THEN Uncrowded(arr) ELSE arr
      /\ pruned_count' = pruned_count + Len(arr) - Len(sorted_items')
  BY <1>1 DEF Cut
<1>5. /\ DOMAIN arr = 1..Len(arr) /\ Len(arr) \in Nat
      /\ \A i \in DOMAIN arr : arr[i] \in Items
  BY <1>2, <1>3
<1> HIDE DEF arr
<1>6. CASE Len(arr) > MaxItems /\ Cardinality(ExemptIn(arr)) < MaxItems
  <2>1. sorted_items' = SubSeq(arr, 1, MaxItems)
    BY <1>4, <1>6 DEF Uncrowded
  <2>2. /\ sorted_items' \in Seq(Items) /\ Len(sorted_items') = MaxItems
        /\ DOMAIN sorted_items' = 1..MaxItems
        /\ \A i \in 1..MaxItems : i \in DOMAIN arr /\ sorted_items'[i] = arr[i]
    BY <1>2, <1>3, <1>5, <1>6, <2>1
  <2>3. Descending(sorted_items')
    BY <1>3, <2>2 DEF Descending
  <2>4. ASSUME NEW p \in DOMAIN arr, arr[p] \notin Elements(sorted_items')
        PROVE  p > MaxItems
    BY <1>2, <1>5, <2>2, <2>4 DEF Elements
  <2>5. ASSUME NEW item \in Elements(fresh), Exempt(item) PROVE item \in Elements(sorted_items')
    <3> SUFFICES ASSUME item \notin Elements(sorted_items') PROVE FALSE
      OBVIOUS
    <3>1. PICK p \in DOMAIN arr : item = arr[p]
      BY <1>3 DEF Elements
    <3>2. p > MaxItems /\ p \in Nat
      BY <1>5, <2>4, <3>1
    <3>3. Cardinality(ExemptIn(arr)) \in Nat /\ p <= Cardinality(ExemptIn(arr))
      BY <1>3, <2>5, <3>1, ExemptLead
    <3> QED BY <1>2, <1>6, <3>2, <3>3
  <2>6. ASSUME NEW item \in Elements(fresh) \ Elements(sorted_items'),
               NEW other \in Elements(sorted_items')
        PROVE  item.priority <= other.priority
    <3>1. PICK p \in DOMAIN arr : item = arr[p]
      BY <1>3 DEF Elements
    <3>2. PICK q \in 1..MaxItems : other = arr[q] /\ q \in DOMAIN arr
      BY <2>2 DEF Elements
    <3>3. q < p
      BY <1>2, <1>5, <2>4, <3>1, <3>2
    <3>4. arr[q].priority >= arr[p].priority /\ arr[p].priority \in Int /\ arr[q].priority \in Int
      BY <1>3, <1>5, <3>1, <3>2, <3>3, ItemTypes DEF Descending
    <3> QED BY <3>1, <3>2, <3>4
  <2>7. CrowdingCutsTheLowest'
    BY <1>2, <2>2, <2>5, <2>6 DEF CrowdingCutsTheLowest, Exempt
  <2> QED BY <1>2, <1>3, <1>4, <1>6, <2>2, <2>3, <2>5, <2>7
<1>7. CASE ~(Len(arr) > MaxItems /\ Cardinality(ExemptIn(arr)) < MaxItems)
  <2>1. sorted_items' = arr
    BY <1>4, <1>7 DEF Uncrowded
  <2>2. Cardinality(ExemptIn(arr)) < MaxItems => Len(arr) <= MaxItems
    <3>1. IsFiniteSet(ExemptIn(arr))
      <4>1. IsFiniteSet(DOMAIN arr)
        BY <1>5, FS_Interval
      <4>2. ExemptIn(arr) \subseteq DOMAIN arr
        BY DEF ExemptIn
      <4> QED BY <4>1, <4>2, FS_Subset
    <3>2. Cardinality(ExemptIn(arr)) \in Nat
      BY <3>1, FS_CardinalityType
    <3> QED BY <1>2, <1>5, <1>7, <3>2
  <2>3. ExemptIn(sorted_items)' = ExemptIn(arr)
    BY <2>1 DEF ExemptIn, Exempt
  <2>4. CrowdingCutsTheLowest'
    BY <1>2, <1>3, <2>1, <2>2, <2>3 DEF CrowdingCutsTheLowest
  <2> QED BY <1>2, <1>3, <1>4, <1>5, <2>1, <2>4
<1> QED BY <1>6, <1>7
-----------------------------------------------------------------------------
(* Types *)

LEMMA Typing ==
    TypeOK /\ [Next]_vars => TypeOK'
<1> SUFFICES ASSUME TypeOK, [Next]_vars PROVE TypeOK'
  OBVIOUS
<1> USE DEF TypeOK, pruning, budgeting, placing, returned, Begin
<1>1. ASSUME NEW item \in Items, Submit(item) PROVE TypeOK'
  BY <1>1, Appended DEF Submit
<1>2. CASE Assemble
  BY <1>2 DEF Assemble
<1>3. CASE Deduplicate
  <2>1. Head(todo) \in Items /\ Tail(todo) \in Seq(Items)
    BY <1>3, Taken DEF Deduplicate
  <2>2. Append(deduped, Head(todo)) \in Seq(Items)
    BY <2>1, Appended
  <2> QED BY <1>3, <2>1, <2>2 DEF Deduplicate
<1>4. CASE Deduplicated
  BY <1>4 DEF Deduplicated
<1>5. CASE Prune
  <2>1. Head(todo) \in Items /\ Tail(todo) \in Seq(Items)
    BY <1>5, Taken DEF Prune
  <2>2. Append(fresh, Head(todo)) \in Seq(Items)
    BY <2>1, Appended
  <2>3. /\ fresh' \in {fresh, Append(fresh, Head(todo))}
        /\ pruned_count' \in {pruned_count, pruned_count + 1}
    BY <1>5 DEF Prune
  <2>4. fresh' \in Seq(Items) /\ pruned_count' \in Nat
    <3>1. fresh' \in Seq(Items)
      BY <2>2, <2>3
    <3>2. pruned_count' \in Nat
      BY <2>3
    <3> QED BY <3>1, <3>2
  <2> QED BY <1>5, <2>1, <2>4 DEF Prune
<1>6. CASE SortByPriority
  <2>1. sorted_items' \in Seq(Items) /\ pruned_count' \in Nat
    <3>1. /\ sorted_items' \in Seq(Items)
          /\ Len(sorted_items') \in Nat /\ Len(sorted_items') <= Len(fresh) /\ Len(fresh) \in Nat
          /\ pruned_count' = pruned_count + Len(fresh) - Len(sorted_items')
      BY <1>6, Sorted
    <3> QED BY <3>1
  <2> QED BY <1>6, <2>1 DEF SortByPriority
<1>7. CASE Consider
  <2>1. Head(todo) \in Items /\ Tail(todo) \in Seq(Items)
    BY <1>7, Taken DEF Consider
  <2>2. /\ Append(retained_items, Head(todo)) \in Seq(Items)
        /\ Append(dropped_items, Head(todo)) \in Seq(Items)
        /\ current_tokens + Tokens[Head(todo).content] \in Nat
    <3>1. Append(retained_items, Head(todo)) \in Seq(Items)
      BY <2>1, Appended
    <3>2. Append(dropped_items, Head(todo)) \in Seq(Items)
      BY <2>1, Appended
    <3>3. Tokens[Head(todo).content] \in Nat
      BY <2>1, ItemTypes
    <3>4. current_tokens + Tokens[Head(todo).content] \in Nat
      <4>1. \A used, cost \in Nat : used + cost \in Nat
        OBVIOUS
      <4> QED BY <3>3, <4>1, Zenon
    <3> QED BY <3>1, <3>2, <3>4
  <2> QED BY <1>7, <2>1, <2>2 DEF Consider, Retain, Drop
<1>8. CASE Reorder
  BY <1>8 DEF Reorder
<1>9. CASE Place
  <2>1. Head(todo) \in Items /\ Tail(todo) \in Seq(Items)
    BY <1>9, Taken DEF Place
  <2>2. /\ Append(system, Head(todo)) \in Seq(Items) /\ Append(user, Head(todo)) \in Seq(Items)
        /\ Append(front, Head(todo)) \in Seq(Items) /\ Append(back, Head(todo)) \in Seq(Items)
    BY <2>1, Appended
  <2>3. /\ system' \in {system, Append(system, Head(todo))}
        /\ user' \in {user, Append(user, Head(todo))}
        /\ front' \in {front, Append(front, Head(todo))}
        /\ back' \in {back, Append(back, Head(todo))}
    BY <1>9 DEF Place, Added
  <2>4. /\ system' \in Seq(Items) /\ user' \in Seq(Items)
        /\ front' \in Seq(Items) /\ back' \in Seq(Items)
    BY <2>2, <2>3
  <2> QED BY <1>9, <2>1, <2>4 DEF Place
<1>10. CASE Finish
  <2>1. system \o user \in Seq(Items)
    BY Joined
  <2>2. system \o user \o front \in Seq(Items)
    BY <2>1, Joined
  <2>3. system \o user \o front \o back \in Seq(Items)
    BY <2>2, Joined
  <2> QED BY <1>10, <2>3 DEF Finish
<1>11. CASE UNCHANGED vars
  BY <1>11 DEF vars
<1> QED BY <1>1, <1>2, <1>3, <1>4, <1>5, <1>6, <1>7, <1>8, <1>9, <1>10, <1>11 DEF Next

LEMMA WaitingKept ==
    Waiting /\ [Next]_vars => Waiting'
<1> SUFFICES ASSUME Waiting, [Next]_vars PROVE Waiting'
  OBVIOUS
<1> USE DEF Waiting, pruning, budgeting, placing, returned, Begin
<1>1. ASSUME NEW item \in Items, Submit(item) PROVE Waiting'
  BY <1>1 DEF Submit
<1>2. CASE Assemble \/ Deduplicate \/ Deduplicated
  BY <1>2 DEF Assemble, Deduplicate, Deduplicated
<1>3. CASE Prune \/ SortByPriority
  BY <1>3 DEF Prune, SortByPriority
<1>4. CASE Consider \/ Reorder
  BY <1>4 DEF Consider, Reorder
<1>5. CASE Place \/ Finish
  BY <1>5 DEF Place, Finish
<1>6. CASE UNCHANGED vars
  BY <1>6 DEF vars
<1> QED BY <1>1, <1>2, <1>3, <1>4, <1>5, <1>6 DEF Next
-----------------------------------------------------------------------------
(* Duplicates *)

(* One more item: a first of its content is kept, and is the only one       *)
LEMMA OneMore ==
    ASSUME NEW items \in Seq(Items), NEW kept \in Seq(Items), NEW n \in Nat, n + 1 \in DOMAIN items,
           FirstOfEach(kept, items, n)
    PROVE  FirstOfEach(IF Seen(kept, items[n + 1]) THEN kept ELSE Append(kept, items[n + 1]),
                       items, n + 1)
<1> DEFINE item == items[n + 1]
<1>1. /\ item \in Items /\ 1..(n + 1) = (1..n) \cup {n + 1}
      /\ DOMAIN items = 1..Len(items) /\ Len(items) \in Nat /\ n + 1 <= Len(items)
      /\ DOMAIN kept = 1..Len(kept)
  OBVIOUS
<1>2. CASE Seen(kept, item)
  <2>1. \A j \in 1..n : items[j].content = item.content => Seen(SubSeq(items, 1, n), item)
    <3> SUFFICES ASSUME NEW j \in 1..n, items[j].content = item.content
                 PROVE  j \in DOMAIN SubSeq(items, 1, n)
                        /\ SubSeq(items, 1, n)[j].content = item.content
      BY DEF Seen
    <3> QED BY <1>1
  <2>2. \E j \in 1..n : items[j].content = item.content
    <3>1. PICK k \in DOMAIN kept : kept[k].content = item.content
      BY <1>2 DEF Seen
    <3> QED BY <3>1 DEF FirstOfEach
  <2>3. Seen(SubSeq(items, 1, n), item) /\ (n + 1) - 1 = n
    BY <2>1, <2>2
  <2> HIDE DEF item
  <2>4. \A j \in 1..(n + 1) : Seen(kept, items[j])
    BY <1>1, <1>2 DEF FirstOfEach, item
  <2>5. \A j \in 1..(n + 1) : ~Seen(SubSeq(items, 1, j - 1), items[j]) =>
                                  items[j] \in Elements(kept)
    BY <1>1, <2>3 DEF FirstOfEach, item
  <2>6. \A k \in DOMAIN kept : \E j \in 1..(n + 1) : kept[k] = items[j]
    BY <1>1 DEF FirstOfEach
  <2> QED BY <1>2, <2>4, <2>5, <2>6 DEF FirstOfEach, item
<1>3. CASE ~Seen(kept, item)
  <2> DEFINE more == Append(kept, item)
  <2>1. /\ DOMAIN more = DOMAIN kept \cup {Len(kept) + 1} /\ Len(kept) \in Nat
        /\ \A i \in DOMAIN kept : more[i] = kept[i] /\ i # Len(kept) + 1
        /\ more[Len(kept) + 1] = item
        /\ Elements(more) = Elements(kept) \cup {item}
    <3> HIDE DEF item
    <3> QED BY <1>1, Appended
  <2>2. \A k \in DOMAIN kept : kept[k].content # item.content
    BY <1>3 DEF Seen
  <2> HIDE DEF item, more
  <2>3. \A k, l \in DOMAIN more : more[k].content = more[l].content => k = l
    <3> SUFFICES ASSUME NEW k \in DOMAIN more, NEW l \in DOMAIN more,
                        more[k].content = more[l].content
                 PROVE  k = l
      OBVIOUS
    <3>1. CASE k \in DOMAIN kept /\ l \in DOMAIN kept
      BY <2>1, <3>1 DEF FirstOfEach
    <3>2. CASE k \notin DOMAIN kept \/ l \notin DOMAIN kept
      BY <2>1, <2>2, <3>2
    <3> QED BY <3>1, <3>2
  <2>4. \A k \in DOMAIN more : \E j \in 1..(n + 1) : more[k] = items[j]
    <3> SUFFICES ASSUME NEW k \in DOMAIN more PROVE \E j \in 1..(n + 1) : more[k] = items[j]
      OBVIOUS
    <3>1. CASE k \in DOMAIN kept
      BY <1>1, <2>1, <3>1 DEF FirstOfEach
    <3>2. CASE k = Len(kept) + 1
      <4>1. more[k] = items[n + 1] /\ n + 1 \in 1..(n + 1)
        BY <1>1, <2>1, <3>2 DEF item
      <4> QED BY <4>1
    <3> QED BY <2>1, <3>1, <3>2
  <2>5. \A j \in 1..(n + 1) : Seen(more, items[j])
    <3> SUFFICES ASSUME NEW j \in 1..(n + 1) PROVE Seen(more, items[j])
      OBVIOUS
    <3>1. CASE j \in 1..n
      <4>1. PICK k \in DOMAIN kept : kept[k].content = items[j].content
        BY <3>1 DEF FirstOfEach, Seen
      <4> QED BY <2>1, <4>1 DEF Seen
    <3>2. CASE j = n + 1
      BY <2>1, <3>2 DEF Seen, item
    <3> QED BY <1>1, <3>1, <3>2
  <2>6. \A j \in 1..(n + 1) : ~Seen(SubSeq(items, 1, j - 1), items[j]) =>
                                  items[j] \in Elements(more)
    BY <1>1, <2>1 DEF FirstOfEach, item
  <2>7. FirstOfEach(more, items, n + 1)
    BY <2>3, <2>4, <2>5, <2>6 DEF FirstOfEach
  <2> QED BY <1>3, <2>7 DEF more, item
<1> QED BY <1>2, <1>3

LEMMA DedupingKept ==
    TypeOK /\ Waiting /\ Deduping /\ [Next]_vars => Deduping'
<1> SUFFICES ASSUME TypeOK, Waiting, Deduping, [Next]_vars PROVE Deduping'
  OBVIOUS
<1> USE DEF pruning, budgeting, placing, returned, Begin
<1>1. Len(raw_items) \in Nat /\ Len(todo) \in Nat
  BY DEF TypeOK
<1>2. ASSUME stage \notin {"submit", "dedup"}, stage' \notin {"submit", "dedup"},
             UNCHANGED <<raw_items, deduped>>
      PROVE  Deduping'
  BY <1>1, <1>2 DEF Deduping, Looked
<1>3. ASSUME NEW item \in Items, Submit(item) PROVE Deduping'
  <2>1. /\ stage = "submit" /\ stage' = "submit" /\ deduped = <<>> /\ deduped' = <<>>
        /\ Looked = 0 /\ Looked' = 0
    BY <1>3 DEF Submit, Deduping, Looked
  <2>2. raw_items' \in Seq(Items) /\ Len(raw_items') \in Nat
    BY <1>3, Appended DEF Submit, TypeOK
  <2>3. FirstOfEach(<<>>, raw_items', 0)
    BY DEF FirstOfEach
  <2> QED BY <2>1, <2>2, <2>3 DEF Deduping
<1>4. CASE Assemble
  <2>1. /\ stage = "submit" /\ stage' = "dedup" /\ deduped = <<>> /\ deduped' = <<>>
        /\ raw_items' = raw_items /\ todo' = raw_items
    BY <1>4 DEF Assemble, Deduping
  <2>2. Looked' = 0
    BY <1>1, <2>1 DEF Looked
  <2>3. FirstOfEach(<<>>, raw_items, 0)
    BY DEF FirstOfEach
  <2>4. \A i \in DOMAIN raw_items : 0 + i = i
    BY DEF TypeOK
  <2> QED BY <1>1, <2>1, <2>2, <2>3, <2>4 DEF Deduping
<1>5. CASE Deduplicate
  <2>1. /\ stage = "dedup" /\ stage' = "dedup" /\ todo # <<>> /\ todo' = Tail(todo)
        /\ raw_items' = raw_items
        /\ deduped' = IF Seen(deduped, Head(todo)) THEN deduped ELSE Append(deduped, Head(todo))
    BY <1>5 DEF Deduplicate
  <2>2. /\ Head(todo) = todo[1] /\ 1 \in DOMAIN todo
        /\ Len(todo) = Len(todo') + 1 /\ Len(todo') \in Nat
        /\ \A i \in DOMAIN todo' : i + 1 \in DOMAIN todo /\ todo'[i] = todo[i + 1]
    BY <2>1, Taken DEF TypeOK
  <2>3. Looked \in Nat /\ Looked' = Looked + 1 /\ Looked <= Len(raw_items)
    BY <1>1, <2>1, <2>2 DEF Deduping, Looked
  <2>4. Looked + 1 \in DOMAIN raw_items /\ Head(todo) = raw_items[Looked + 1]
    BY <2>1, <2>2 DEF Deduping
  <2>5. FirstOfEach(deduped, raw_items, Looked)
    BY DEF Deduping
  <2>6. FirstOfEach(deduped', raw_items, Looked + 1)
    BY <2>1, <2>3, <2>4, <2>5, OneMore DEF TypeOK
  <2>7. ASSUME NEW i \in DOMAIN todo'
        PROVE  Looked' + i \in DOMAIN raw_items /\ todo'[i] = raw_items[Looked' + i]
    <3>1. todo' \in Seq(Items)
      BY <2>1, Taken DEF TypeOK
    <3>2. i \in Nat /\ Looked + (i + 1) = Looked' + i
      BY <2>3, <3>1
    <3> QED BY <2>1, <2>2, <3>2 DEF Deduping
  <2>8. Looked' \in Nat /\ Looked' <= Len(raw_items)
    BY <1>1, <2>3, <2>4 DEF TypeOK
  <2> QED BY <2>1, <2>3, <2>6, <2>7, <2>8 DEF Deduping
<1>6. CASE Deduplicated
  <2>1. Looked = Len(raw_items) /\ Looked' = Len(raw_items)
    BY <1>1, <1>6 DEF Deduplicated, Looked
  <2> QED BY <1>1, <1>6, <2>1 DEF Deduplicated, Deduping
<1>7. CASE Prune \/ SortByPriority \/ Consider
  BY <1>2, <1>7 DEF Prune, SortByPriority, Consider
<1>8. CASE Reorder \/ Place \/ Finish
  BY <1>2, <1>8 DEF Reorder, Place, Finish
<1>9. CASE UNCHANGED vars
  BY <1>9 DEF vars, Deduping, Looked
<1> QED BY <1>3, <1>4, <1>5, <1>6, <1>7, <1>8, <1>9 DEF Next
-----------------------------------------------------------------------------
(* Pruning *)

LEMMA PruningKept ==
    TypeOK /\ Waiting /\ Pruning /\ [Next]_vars => Pruning'
<1> SUFFICES ASSUME TypeOK, Waiting, Pruning, [Next]_vars PROVE Pruning'
  OBVIOUS
<1> USE DEF pruning, budgeting, placing, returned, Begin
<1>1. /\ Len(deduped) \in Nat /\ Len(fresh) \in Nat /\ Len(todo) \in Nat /\ pruned_count \in Nat
      /\ todo \in Seq(Items) /\ fresh \in Seq(Items)
  BY DEF TypeOK
<1>2. ASSUME stage \in {"budget", "reorder", "done"}, stage' \in {"budget", "reorder", "done"},
             UNCHANGED <<deduped, pruned_count, sorted_items>>
      PROVE  Pruning'
  BY <1>2 DEF Pruning
<1>3. ASSUME stage' \in {"submit", "dedup"} PROVE Pruning'
  BY <1>3 DEF Pruning
<1>4. ASSUME NEW item \in Items, Submit(item) PROVE Pruning'
  BY <1>3, <1>4 DEF Submit
<1>5. CASE Assemble \/ Deduplicate
  BY <1>3, <1>5 DEF Assemble, Deduplicate
<1>6. CASE Deduplicated
  <2>1. /\ stage' = "prune" /\ todo' = deduped /\ deduped' = deduped
        /\ fresh' = <<>> /\ pruned_count' = 0
    BY <1>6 DEF Deduplicated, Waiting
  <2> QED BY <1>1, <2>1 DEF Pruning
<1>7. CASE Prune
  <2>1. /\ stage = "prune" /\ stage' = "prune" /\ todo # <<>> /\ todo' = Tail(todo)
        /\ deduped' = deduped
    BY <1>7 DEF Prune
  <2>2. /\ Head(todo) \in Items /\ Len(todo) = Len(todo') + 1 /\ Len(todo') \in Nat
        /\ Elements(todo) = {Head(todo)} \cup Elements(todo')
    BY <1>1, <2>1, Taken
  <2>3. CASE Stale(Head(todo))
    <3>1. ~Exempt(Head(todo))
      BY <2>2, <2>3, ItemTypes, ItemsAssumption, PriorityAssumption DEF Stale, Exempt
    <3>2. fresh' = fresh /\ pruned_count' = pruned_count + 1
      BY <1>7, <2>3 DEF Prune
    <3>3. Elements(fresh') = Elements(fresh)
      BY <3>2
    <3>4. Len(fresh') + pruned_count' + Len(todo') = Len(deduped')
      BY <1>1, <2>1, <2>2, <3>2 DEF Pruning
    <3>5. \A item \in Elements(deduped) : Exempt(item) => item \in Elements(fresh') \cup Elements(todo')
      BY <2>1, <2>2, <3>1, <3>3 DEF Pruning
    <3> QED BY <2>1, <3>4, <3>5 DEF Pruning, Exempt, Elements
  <2>4. CASE ~Stale(Head(todo))
    <3>1. fresh' = Append(fresh, Head(todo)) /\ pruned_count' = pruned_count
      BY <1>7, <2>4 DEF Prune
    <3>2. /\ Len(fresh') = Len(fresh) + 1
          /\ Elements(fresh') = Elements(fresh) \cup {Head(todo)}
      BY <1>1, <2>2, <3>1, Appended
    <3>3. Len(fresh') + pruned_count' + Len(todo') = Len(deduped')
      BY <1>1, <2>1, <2>2, <3>1, <3>2 DEF Pruning
    <3>4. \A item \in Elements(deduped) : Exempt(item) => item \in Elements(fresh') \cup Elements(todo')
      BY <2>1, <2>2, <3>2 DEF Pruning
    <3> QED BY <2>1, <3>3, <3>4 DEF Pruning, Exempt, Elements
  <2> QED BY <2>3, <2>4
<1>8. CASE SortByPriority
  <2>1. /\ Len(sorted_items') \in Nat /\ pruned_count' = pruned_count + Len(fresh) - Len(sorted_items')
        /\ \A item \in Elements(fresh) : Exempt(item) => item \in Elements(sorted_items')
    BY <1>8, Sorted
  <2>2. stage = "prune" /\ todo = <<>> /\ stage' = "budget" /\ deduped' = deduped
    BY <1>8 DEF SortByPriority
  <2>3. Elements(todo) = {} /\ Len(todo) = 0
    BY <2>2 DEF Elements
  <2>4. pruned_count' + Len(sorted_items') = Len(deduped)
    BY <1>1, <2>1, <2>2, <2>3 DEF Pruning
  <2>5. \A item \in Elements(deduped) : Exempt(item) => item \in Elements(sorted_items')
    BY <2>1, <2>2, <2>3 DEF Pruning
  <2> QED BY <2>2, <2>4, <2>5 DEF Pruning, Exempt, Elements
<1>9. CASE Consider \/ Reorder
  BY <1>2, <1>9 DEF Consider, Reorder
<1>10. CASE Place \/ Finish
  BY <1>2, <1>10 DEF Place, Finish
<1>11. CASE UNCHANGED vars
  BY <1>11 DEF vars, Pruning, Exempt, Elements
<1> QED BY <1>4, <1>5, <1>6, <1>7, <1>8, <1>9, <1>10, <1>11 DEF Next

LEMMA CrowdingKept ==
    TypeOK /\ CrowdingCutsTheLowest /\ [Next]_vars => CrowdingCutsTheLowest'
<1> SUFFICES ASSUME TypeOK, CrowdingCutsTheLowest, [Next]_vars PROVE CrowdingCutsTheLowest'
  OBVIOUS
<1> USE DEF pruning, budgeting, placing, returned, Begin
<1>1. ASSUME stage' \in {"budget", "reorder", "done"} => stage \in {"budget", "reorder", "done"},
             UNCHANGED <<fresh, sorted_items>>
      PROVE  CrowdingCutsTheLowest'
  <2>1. /\ Elements(fresh)' = Elements(fresh) /\ Elements(sorted_items)' = Elements(sorted_items)
        /\ ExemptIn(sorted_items)' = ExemptIn(sorted_items)
    BY <1>1 DEF Elements, ExemptIn, Exempt
  <2>2. Len(fresh)' = Len(fresh) /\ Len(sorted_items)' = Len(sorted_items)
    BY <1>1
  <2> QED BY <1>1, <2>1, <2>2, Zenon DEF CrowdingCutsTheLowest
<1>2. ASSUME stage' \notin {"budget", "reorder", "done"} PROVE CrowdingCutsTheLowest'
  BY <1>2 DEF CrowdingCutsTheLowest
<1>3. ASSUME NEW item \in Items, Submit(item) PROVE CrowdingCutsTheLowest'
  BY <1>2, <1>3 DEF Submit
<1>4. CASE Assemble \/ Deduplicate \/ Deduplicated \/ Prune
  BY <1>2, <1>4 DEF Assemble, Deduplicate, Deduplicated, Prune
<1>5. CASE SortByPriority
  BY <1>5, Sorted
<1>6. CASE Consider \/ Reorder
  BY <1>1, <1>6 DEF Consider, Reorder
<1>7. CASE Place \/ Finish
  BY <1>1, <1>7 DEF Place, Finish
<1>8. CASE UNCHANGED vars
  BY <1>1, <1>8 DEF vars
<1> QED BY <1>3, <1>4, <1>5, <1>6, <1>7, <1>8 DEF Next
-----------------------------------------------------------------------------
(* The budget *)

LEMMA ElementTypes ==
    ASSUME NEW items \in Seq(Items) PROVE Elements(items) \subseteq Items
BY DEF Elements

(* The item that is considered comes before the rest *)
LEMMA Considered ==
    ASSUME NEW items \in Seq(Items), items # <<>>, Descending(items)
    PROVE  /\ Descending(Tail(items))
           /\ \A next \in Elements(Tail(items)) : Head(items).priority >= next.priority
<1>1. /\ Head(items) = items[1] /\ 1 \in DOMAIN items
      /\ Tail(items) \in Seq(Items)
      /\ \A i \in DOMAIN Tail(items) : i + 1 \in DOMAIN items /\ Tail(items)[i] = items[i + 1]
  BY Taken
<1>2. \A i \in DOMAIN Tail(items) : i \in Nat /\ i >= 1
  BY <1>1
<1> DEFINE rest == Tail(items)
<1> HIDE DEF rest
<1>3. \A i, j \in DOMAIN rest : i < j => rest[i].priority >= rest[j].priority
  BY <1>1, <1>2 DEF Descending, rest
<1>4. \A i \in DOMAIN rest : items[1].priority >= rest[i].priority
  BY <1>1, <1>2 DEF Descending, rest
<1> QED BY <1>1, <1>3, <1>4 DEF Descending, Elements, rest

(* What the budget loop keeps, between two items *)
Budgeted == Budgeting /\ BudgetByPriority

LEMMA ConsiderKeeps ==
    ASSUME TypeOK, Budgeted, Consider PROVE Budgeted'
<1> DEFINE item == Head(todo)
<1>1. /\ stage = "budget" /\ stage' = "budget" /\ todo # <<>> /\ todo' = Tail(todo)
      /\ sorted_items' = sorted_items
  BY DEF Consider
<1>2. /\ item \in Items /\ Len(todo) = Len(todo') + 1 /\ Len(todo') \in Nat /\ todo' \in Seq(Items)
      /\ Elements(todo) = {item} \cup Elements(todo')
  BY <1>1, Taken DEF TypeOK
<1>3. Ahead = todo /\ Ahead' = todo'
  BY <1>1 DEF Ahead
<1>4. /\ \A i, j \in DOMAIN todo' : i < j => todo'[i].priority >= todo'[j].priority
      /\ \A next \in Elements(todo') : item.priority >= next.priority
  <2>1. Descending(todo)
    BY <1>3 DEF Budgeted, Budgeting, Descending
  <2>2. Descending(Tail(todo)) /\ \A next \in Elements(Tail(todo)) : Head(todo).priority >= next.priority
    BY <1>1, <2>1, Considered DEF TypeOK
  <2> QED BY <1>1, <2>2 DEF Descending
<1> HIDE DEF item
<1>5. /\ Elements(todo) \subseteq Items /\ Elements(retained_items) \subseteq Items
      /\ Elements(dropped_items) \subseteq Items
      /\ Len(retained_items) \in Nat /\ Len(dropped_items) \in Nat /\ Len(sorted_items) \in Nat
      /\ current_tokens \in Nat /\ MaxTokens \in Int /\ SystemPriority \in Int
  BY ElementTypes, ItemsAssumption DEF TypeOK
<1>6. /\ \A old \in Elements(retained_items) : old.priority >= item.priority
      /\ \A old \in Elements(retained_items), next \in Elements(todo') :
            old.priority >= next.priority
      /\ \A gone \in Elements(dropped_items) :
            current_tokens + Tokens[gone.content] > MaxTokens
      /\ Len(retained_items) + Len(dropped_items) + Len(todo) = Len(sorted_items)
      /\ \A one \in Elements(sorted_items) :
            Exempt(one) => one \in Elements(retained_items) \cup Elements(todo)
  BY <1>1, <1>2, <1>3 DEF Budgeted, Budgeting
<1>7. /\ current_tokens > MaxTokens => \A old \in Elements(retained_items) : Exempt(old)
      /\ \A gone \in Elements(dropped_items) :
            /\ ~Exempt(gone)
            /\ \A old \in Elements(retained_items) :
                  old.priority < gone.priority => Tokens[old.content] < Tokens[gone.content]
  BY DEF Budgeted, BudgetByPriority
<1>8. CASE Fits(item) \/ Exempt(item)
  <2>1. /\ retained_items' = Append(retained_items, item)
        /\ current_tokens' = current_tokens + Tokens[item.content]
        /\ dropped_items' = dropped_items
    BY <1>8 DEF Consider, Retain, item
  <2>2. /\ Len(retained_items') = Len(retained_items) + 1
        /\ Elements(retained_items') = Elements(retained_items) \cup {item}
    BY <1>2, <2>1, Appended DEF TypeOK
  <2>3. Elements(dropped_items') = Elements(dropped_items)
    BY <2>1
  <2>4. /\ Tokens[item.content] \in Nat /\ Tokens[item.content] > 0 /\ item.priority \in Int
        /\ current_tokens' \in Nat
    BY <1>2, <1>5, <2>1, ItemTypes
  <2>5. current_tokens' > MaxTokens => \A old \in Elements(retained_items') : Exempt(old)
    <3>1. ASSUME current_tokens' > MaxTokens PROVE Exempt(item)
      BY <1>5, <1>8, <2>1, <2>4, <3>1 DEF Fits
    <3>2. \A old \in Elements(retained_items) : Exempt(item) => Exempt(old)
      BY <1>5, <1>6, <2>4, ItemTypes DEF Exempt
    <3> QED BY <2>2, <3>1, <3>2
  <2>6. ASSUME NEW gone \in Elements(dropped_items)
        PROVE  /\ current_tokens' + Tokens[gone.content] > MaxTokens
               /\ ~Exempt(gone)
               /\ \A old \in Elements(retained_items') :
                     old.priority < gone.priority => Tokens[old.content] < Tokens[gone.content]
    <3>1. /\ Tokens[gone.content] \in Nat /\ gone.priority \in Int
          /\ current_tokens + Tokens[gone.content] > MaxTokens /\ ~Exempt(gone)
      BY <1>5, <1>6, <1>7, ItemTypes
    <3>2. current_tokens' + Tokens[gone.content] > MaxTokens
      <4>1. \A used, mine, its, max \in Int :
                mine > 0 /\ used + its > max => (used + mine) + its > max
        OBVIOUS
      <4>2. /\ current_tokens \in Int /\ MaxTokens \in Int
            /\ Tokens[item.content] \in Int /\ Tokens[gone.content] \in Int
        BY <1>5, <2>4, <3>1
      <4>3. (current_tokens + Tokens[item.content]) + Tokens[gone.content] > MaxTokens
        BY <2>4, <3>1, <4>1, <4>2
      <4> QED BY <2>1, <4>3
    <3>3. item.priority < gone.priority => Tokens[item.content] < Tokens[gone.content]
      <4>1. CASE Fits(item)
        <5>1. \A used, mine, its, max \in Int :
                  used + mine <= max /\ used + its > max => mine < its
          OBVIOUS
        <5>2. current_tokens + Tokens[item.content] <= MaxTokens
          BY <4>1 DEF Fits
        <5>3. /\ current_tokens \in Int /\ MaxTokens \in Int
              /\ Tokens[item.content] \in Int /\ Tokens[gone.content] \in Int
          BY <1>5, <2>4, <3>1
        <5> QED BY <3>1, <5>1, <5>2, <5>3
      <4>2. CASE Exempt(item)
        <5>1. item.priority >= SystemPriority /\ ~(gone.priority >= SystemPriority)
          BY <3>1, <4>2 DEF Exempt
        <5> QED BY <1>5, <2>4, <3>1, <5>1
      <4> QED BY <1>8, <4>1, <4>2
    <3> QED BY <1>7, <2>2, <3>1, <3>2, <3>3
  <2>7. BudgetByPriority'
    <3>1. \A one : Exempt(one)' <=> Exempt(one)
      BY DEF Exempt
    <3> QED BY <2>3, <2>5, <2>6, <3>1 DEF BudgetByPriority, Exempt, Elements
  <2>8. \A old \in Elements(retained_items'), next \in Elements(todo') :
            old.priority >= next.priority
    BY <1>4, <1>6, <2>2
  <2>9. Len(retained_items') + Len(dropped_items') + Len(todo') = Len(sorted_items')
    BY <1>1, <1>2, <1>5, <1>6, <2>1, <2>2
  <2>10. \A one \in Elements(sorted_items) :
            Exempt(one) => one \in Elements(retained_items') \cup Elements(todo')
    BY <1>2, <1>6, <2>2
  <2>11. Budgeting'
    <3>1. \A i, j \in DOMAIN Ahead' : i < j => Ahead'[i].priority >= Ahead'[j].priority
      BY <1>3, <1>4
    <3>2. /\ Elements(retained_items)' = Elements(retained_items')
          /\ Elements(dropped_items)' = Elements(dropped_items')
          /\ Elements(Ahead)' = Elements(todo') /\ Elements(sorted_items)' = Elements(sorted_items)
      BY <1>1, <1>3 DEF Elements
    <3>3. \A one : Exempt(one)' <=> Exempt(one)
      BY DEF Exempt
    <3> QED BY <1>3, <2>3, <2>6, <2>8, <2>9, <2>10, <3>1, <3>2, <3>3 DEF Budgeting
  <2> QED BY <2>7, <2>11 DEF Budgeted
<1>9. CASE ~(Fits(item) \/ Exempt(item))
  <2>1. /\ dropped_items' = Append(dropped_items, item)
        /\ retained_items' = retained_items /\ current_tokens' = current_tokens
    BY <1>9 DEF Consider, Drop, item
  <2>2. /\ Len(dropped_items') = Len(dropped_items) + 1
        /\ Elements(dropped_items') = Elements(dropped_items) \cup {item}
    BY <1>2, <2>1, Appended DEF TypeOK
  <2>3. Elements(retained_items') = Elements(retained_items)
    BY <2>1
  <2>4. Tokens[item.content] \in Nat /\ item.priority \in Int
    BY <1>2, ItemTypes
  <2>5. ASSUME NEW gone \in Elements(dropped_items')
        PROVE  /\ current_tokens + Tokens[gone.content] > MaxTokens
               /\ ~Exempt(gone)
               /\ \A old \in Elements(retained_items) :
                     old.priority < gone.priority => Tokens[old.content] < Tokens[gone.content]
    <3>1. CASE gone \in Elements(dropped_items)
      BY <1>6, <1>7, <3>1
    <3>2. CASE gone = item
      <4>1. current_tokens + Tokens[item.content] > MaxTokens /\ ~Exempt(item)
        BY <1>5, <1>9, <2>4 DEF Fits
      <4>2. \A old \in Elements(retained_items) : ~(old.priority < item.priority)
        BY <1>5, <1>6, <2>4, ItemTypes
      <4> QED BY <3>2, <4>1, <4>2
    <3> QED BY <2>2, <3>1, <3>2
  <2>6. BudgetByPriority'
    BY <1>7, <2>1, <2>3, <2>5 DEF BudgetByPriority, Exempt, Elements
  <2>7. Len(retained_items') + Len(dropped_items') + Len(todo') = Len(sorted_items')
    BY <1>1, <1>2, <1>5, <1>6, <2>1, <2>2
  <2>8. \A one \in Elements(sorted_items) :
            Exempt(one) => one \in Elements(retained_items) \cup Elements(todo')
    BY <1>2, <1>6, <1>9
  <2>9. Budgeting'
    <3>1. \A i, j \in DOMAIN Ahead' : i < j => Ahead'[i].priority >= Ahead'[j].priority
      BY <1>3, <1>4
    <3>2. /\ Elements(retained_items)' = Elements(retained_items')
          /\ Elements(dropped_items)' = Elements(dropped_items')
          /\ Elements(Ahead)' = Elements(todo') /\ Elements(sorted_items)' = Elements(sorted_items)
      BY <1>1, <1>3 DEF Elements
    <3>3. \A one : Exempt(one)' <=> Exempt(one)
      BY DEF Exempt
    <3> QED BY <1>3, <1>6, <2>1, <2>3, <2>5, <2>7, <2>8, <3>1, <3>2, <3>3 DEF Budgeting
  <2> QED BY <2>6, <2>9 DEF Budgeted
<1> QED BY <1>8, <1>9

LEMMA BudgetedKept ==
    TypeOK /\ Waiting /\ Budgeted /\ [Next]_vars => Budgeted'
<1> SUFFICES ASSUME TypeOK, Waiting, Budgeted, [Next]_vars PROVE Budgeted'
  OBVIOUS
<1> USE DEF pruning, budgeting, placing, returned, Begin
<1>1. ASSUME stage' \in {"submit", "dedup", "prune"}, stage \in {"submit", "dedup", "prune"},
             UNCHANGED budgeting
      PROVE  Budgeted'
  <2>1. retained_items' = <<>> /\ dropped_items' = <<>> /\ Ahead' = <<>>
    BY <1>1 DEF Waiting, Ahead
  <2>2. Elements(retained_items') = {} /\ Elements(dropped_items') = {}
    BY <2>1 DEF Elements
  <2> QED BY <1>1, <2>1, <2>2 DEF Budgeted, Budgeting, BudgetByPriority, Elements
<1>2. ASSUME stage \in {"budget", "reorder", "done"}, stage' \in {"reorder", "done"},
             stage = "budget" => todo = <<>>, UNCHANGED budgeting
      PROVE  Budgeted'
  <2>1. Ahead = <<>> /\ Ahead' = <<>>
    BY <1>2 DEF Ahead
  <2> QED BY <1>2, <2>1 DEF Budgeted, Budgeting, BudgetByPriority, Elements, Exempt
<1>3. ASSUME NEW item \in Items, Submit(item) PROVE Budgeted'
  BY <1>1, <1>3 DEF Submit
<1>4. CASE Assemble \/ Deduplicate \/ Deduplicated \/ Prune
  BY <1>1, <1>4 DEF Assemble, Deduplicate, Deduplicated, Prune
<1>5. CASE SortByPriority
  <2>1. /\ stage' = "budget" /\ todo' = sorted_items'
        /\ retained_items' = <<>> /\ dropped_items' = <<>>
    BY <1>5 DEF SortByPriority, Waiting
  <2>2. Descending(sorted_items') /\ Len(sorted_items') \in Nat
    BY <1>5, Sorted
  <2>3. Ahead' = sorted_items'
    BY <2>1 DEF Ahead
  <2>4. Elements(retained_items') = {} /\ Elements(dropped_items') = {}
    BY <2>1 DEF Elements
  <2>5. Len(retained_items') + Len(dropped_items') + Len(Ahead') = Len(sorted_items')
    BY <2>1, <2>2, <2>3
  <2>6. BudgetByPriority'
    BY <2>4 DEF BudgetByPriority, Elements
  <2>7. Budgeting'
    <3>1. \A i, j \in DOMAIN Ahead' : i < j => Ahead'[i].priority >= Ahead'[j].priority
      BY <2>2, <2>3 DEF Descending
    <3>2. Elements(retained_items)' = {} /\ Elements(dropped_items)' = {}
      BY <2>4 DEF Elements
    <3>3. \A one \in Elements(sorted_items)' : one \in Elements(Ahead)'
      BY <2>3 DEF Elements
    <3> QED BY <2>5, <3>1, <3>2, <3>3 DEF Budgeting
  <2> QED BY <2>6, <2>7 DEF Budgeted
<1>6. CASE Consider
  BY <1>6, ConsiderKeeps
<1>7. CASE Reorder \/ Place \/ Finish
  BY <1>2, <1>7 DEF Reorder, Place, Finish
<1>8. CASE UNCHANGED vars
  <2>1. UNCHANGED <<stage, todo, sorted_items, retained_items, dropped_items, current_tokens>>
    BY <1>8 DEF vars
  <2>2. Budgeting'
    BY <2>1 DEF Budgeted, Budgeting, Elements, Exempt, Ahead
  <2>3. BudgetByPriority'
    BY <2>1 DEF Budgeted, BudgetByPriority, Elements, Exempt
  <2> QED BY <2>2, <2>3 DEF Budgeted
<1> QED BY <1>3, <1>4, <1>5, <1>6, <1>7, <1>8 DEF Next
-----------------------------------------------------------------------------
(* The order of what is returned *)

LEMMA NothingIn == Elements(<<>>) = {}
BY DEF Elements

(* An item is exempt, a user message or one of the rest, and goes to one    *)
(* list                                                                     *)
LEMMA PlaceKeeps ==
    ASSUME TypeOK, Placing, Place PROVE Placing'
<1> DEFINE item == Head(todo)
<1>1. /\ stage = "reorder" /\ stage' = "reorder" /\ todo # <<>> /\ todo' = Tail(todo)
      /\ retained_items' = retained_items
  BY DEF Place, budgeting
<1>2. /\ item \in Items /\ Len(todo) = Len(todo') + 1 /\ Len(todo') \in Nat
      /\ Elements(todo) = {item} \cup Elements(todo')
  BY <1>1, Taken DEF TypeOK
<1>3. /\ system \in Seq(Items) /\ user \in Seq(Items) /\ front \in Seq(Items) /\ back \in Seq(Items)
      /\ Len(system) \in Nat /\ Len(user) \in Nat /\ Len(front) \in Nat /\ Len(back) \in Nat
  BY DEF TypeOK
<1>4. /\ Len(system) + Len(user) + Len(front) + Len(back) + Len(todo) = Len(retained_items)
      /\ Elements(system) \cup Elements(user) \cup Elements(front) \cup Elements(back)
            \cup Elements(todo) = Elements(retained_items)
  BY <1>1 DEF Placing
<1> HIDE DEF item
<1>5. ASSUME NEW items \in Seq(Items)
      PROVE  /\ Len(Append(items, item)) = Len(items) + 1
             /\ Elements(Append(items, item)) = Elements(items) \cup {item}
  BY <1>2, Appended
<1>6. /\ system' = Added(system, item, Exempt(item))
      /\ user' = Added(user, item, IsUser(item))
      /\ front' = Added(front, item, IsRest(item) /\ Len(front) = Len(back))
      /\ back' = Added(back, item, IsRest(item) /\ Len(front) # Len(back))
  BY DEF Place, item
<1>7. ASSUME Len(system') + Len(user') + Len(front') + Len(back') + Len(todo') = Len(retained_items),
              Elements(system') \cup Elements(user') \cup Elements(front') \cup Elements(back')
                 \cup Elements(todo') = Elements(retained_items)
       PROVE  Placing'
  BY <1>1, <1>7 DEF Placing, Elements
<1>8. CASE Exempt(item)
  <2>1. ~IsUser(item) /\ ~IsRest(item)
    BY <1>2, <1>8, PriorityAssumption DEF IsUser, IsRest
  <2>2. system' = Append(system, item) /\ user' = user /\ front' = front /\ back' = back
    BY <1>6, <1>8, <2>1 DEF Added
  <2>3. Len(system') = Len(system) + 1 /\ Elements(system') = Elements(system) \cup {item}
    BY <1>3, <1>5, <2>2
  <2>4. Len(system') + Len(user') + Len(front') + Len(back') + Len(todo') = Len(retained_items)
    BY <1>2, <1>3, <1>4, <2>2, <2>3
  <2>5. Elements(system') \cup Elements(user') \cup Elements(front') \cup Elements(back')
           \cup Elements(todo') = Elements(retained_items)
    BY <1>2, <1>4, <2>2, <2>3
  <2> QED BY <1>7, <2>4, <2>5
<1>9. CASE IsUser(item)
  <2>1. ~Exempt(item) /\ ~IsRest(item)
    BY <1>2, <1>9, PriorityAssumption DEF IsUser, IsRest
  <2>2. user' = Append(user, item) /\ system' = system /\ front' = front /\ back' = back
    BY <1>6, <1>9, <2>1 DEF Added
  <2>3. Len(user') = Len(user) + 1 /\ Elements(user') = Elements(user) \cup {item}
    BY <1>3, <1>5, <2>2
  <2>4. Len(system') + Len(user') + Len(front') + Len(back') + Len(todo') = Len(retained_items)
    BY <1>2, <1>3, <1>4, <2>2, <2>3
  <2>5. Elements(system') \cup Elements(user') \cup Elements(front') \cup Elements(back')
           \cup Elements(todo') = Elements(retained_items)
    BY <1>2, <1>4, <2>2, <2>3
  <2> QED BY <1>7, <2>4, <2>5
<1>10. CASE IsRest(item) /\ Len(front) = Len(back)
  <2>1. front' = Append(front, item) /\ system' = system /\ user' = user /\ back' = back
    BY <1>6, <1>10 DEF Added, IsRest
  <2>2. Len(front') = Len(front) + 1 /\ Elements(front') = Elements(front) \cup {item}
    BY <1>3, <1>5, <2>1
  <2>3. Len(system') + Len(user') + Len(front') + Len(back') + Len(todo') = Len(retained_items)
    BY <1>2, <1>3, <1>4, <2>1, <2>2
  <2>4. Elements(system') \cup Elements(user') \cup Elements(front') \cup Elements(back')
           \cup Elements(todo') = Elements(retained_items)
    BY <1>2, <1>4, <2>1, <2>2
  <2> QED BY <1>7, <2>3, <2>4
<1>11. CASE IsRest(item) /\ Len(front) # Len(back)
  <2>1. back' = Append(back, item) /\ system' = system /\ user' = user /\ front' = front
    BY <1>6, <1>11 DEF Added, IsRest
  <2>2. Len(back') = Len(back) + 1 /\ Elements(back') = Elements(back) \cup {item}
    BY <1>3, <1>5, <2>1
  <2>3. Len(system') + Len(user') + Len(front') + Len(back') + Len(todo') = Len(retained_items)
    BY <1>2, <1>3, <1>4, <2>1, <2>2
  <2>4. Elements(system') \cup Elements(user') \cup Elements(front') \cup Elements(back')
           \cup Elements(todo') = Elements(retained_items)
    BY <1>2, <1>4, <2>1, <2>2
  <2> QED BY <1>7, <2>3, <2>4
<1> QED BY <1>8, <1>9, <1>10, <1>11 DEF IsRest

LEMMA PlacingKept ==
    TypeOK /\ Waiting /\ Placing /\ [Next]_vars => Placing'
<1> SUFFICES ASSUME TypeOK, Waiting, Placing, [Next]_vars PROVE Placing'
  OBVIOUS
<1> USE DEF pruning, budgeting, placing, returned, Begin
<1>1. ASSUME stage' # "reorder" PROVE Placing'
  BY <1>1 DEF Placing
<1>2. ASSUME NEW item \in Items, Submit(item) PROVE Placing'
  BY <1>1, <1>2 DEF Submit
<1>3. CASE Assemble \/ Deduplicate \/ Deduplicated \/ Prune
  BY <1>1, <1>3 DEF Assemble, Deduplicate, Deduplicated, Prune
<1>4. CASE SortByPriority \/ Consider \/ Finish
  BY <1>1, <1>4 DEF SortByPriority, Consider, Finish
<1>5. CASE Reorder
  <2>1. /\ system' = <<>> /\ user' = <<>> /\ front' = <<>> /\ back' = <<>>
        /\ todo' = retained_items /\ retained_items' = retained_items
    BY <1>5 DEF Reorder, Waiting
  <2>2. Len(<<>>) = 0 /\ Len(retained_items) \in Nat
    BY DEF TypeOK
  <2>3. /\ Elements(system') = {} /\ Elements(user') = {} /\ Elements(front') = {}
        /\ Elements(back') = {} /\ Elements(todo') = Elements(retained_items')
    BY <2>1, NothingIn
  <2>4. Len(system') + Len(user') + Len(front') + Len(back') + Len(todo') = Len(retained_items')
    BY <2>1, <2>2
  <2>5. Elements(system') \cup Elements(user') \cup Elements(front') \cup Elements(back')
           \cup Elements(todo') = Elements(retained_items')
    BY <2>3
  <2> QED BY <2>4, <2>5 DEF Placing, Elements
<1>6. CASE Place
  BY <1>6, PlaceKeeps
<1>7. CASE UNCHANGED vars
  <2>1. /\ stage' = stage /\ system' = system /\ user' = user /\ front' = front /\ back' = back
        /\ todo' = todo /\ retained_items' = retained_items
    BY <1>7 DEF vars
  <2>2. CASE stage = "reorder"
    <3>1. Len(system') + Len(user') + Len(front') + Len(back') + Len(todo') = Len(retained_items')
      BY <2>1, <2>2 DEF Placing
    <3>2. Elements(system') \cup Elements(user') \cup Elements(front') \cup Elements(back')
             \cup Elements(todo') = Elements(retained_items')
      BY <2>1, <2>2 DEF Placing
    <3> QED BY <3>1, <3>2 DEF Placing, Elements
  <2> QED BY <1>1, <2>1, <2>2
<1> QED BY <1>2, <1>3, <1>4, <1>5, <1>6, <1>7 DEF Next

LEMMA ReportingKept ==
    TypeOK /\ Placing /\ Reporting /\ [Next]_vars => Reporting'
<1> SUFFICES ASSUME TypeOK, Placing, Reporting, [Next]_vars PROVE Reporting'
  OBVIOUS
<1> USE DEF pruning, budgeting, placing, returned, Begin
<1>1. ASSUME stage' # "done" PROVE Reporting'
  BY <1>1 DEF Reporting
<1>2. ASSUME NEW item \in Items, Submit(item) PROVE Reporting'
  BY <1>1, <1>2 DEF Submit
<1>3. CASE Assemble \/ Deduplicate \/ Deduplicated \/ Prune
  BY <1>1, <1>3 DEF Assemble, Deduplicate, Deduplicated, Prune
<1>4. CASE SortByPriority \/ Consider \/ Reorder \/ Place
  BY <1>1, <1>4 DEF SortByPriority, Consider, Reorder, Place
<1>5. CASE Finish
  <2>1. Len(bundle') = Len(retained_items) /\ Elements(bundle') = Elements(retained_items)
    <3>1. CASE stage = "budget" /\ bundle' = retained_items
      BY <3>1
    <3>2. CASE stage = "reorder" /\ bundle' = system \o user \o front \o back
      <4>1. /\ system \o user \in Seq(Items)
            /\ Len(system \o user) = Len(system) + Len(user)
            /\ Elements(system \o user) = Elements(system) \cup Elements(user)
        BY Joined DEF TypeOK
      <4>2. /\ system \o user \o front \in Seq(Items)
            /\ Len(system \o user \o front) = Len(system \o user) + Len(front)
            /\ Elements(system \o user \o front) = Elements(system \o user) \cup Elements(front)
        BY <4>1, Joined DEF TypeOK
      <4>3. /\ Len(bundle') = Len(system \o user \o front) + Len(back)
            /\ Elements(bundle') = Elements(system \o user \o front) \cup Elements(back)
        BY <3>2, <4>2, Joined DEF TypeOK
      <4>4. Elements(todo) = {} /\ Len(todo) = 0
        BY <1>5, NothingIn DEF Finish
      <4>5. /\ Len(system) \in Nat /\ Len(user) \in Nat /\ Len(front) \in Nat /\ Len(back) \in Nat
            /\ Len(retained_items) \in Nat
        BY DEF TypeOK
      <4>6. /\ Len(system) + Len(user) + Len(front) + Len(back) + Len(todo) = Len(retained_items)
            /\ Elements(system) \cup Elements(user) \cup Elements(front) \cup Elements(back)
                  \cup Elements(todo) = Elements(retained_items)
        BY <3>2 DEF Placing
      <4>7. Len(bundle') = Len(retained_items)
        BY <4>1, <4>2, <4>3, <4>4, <4>5, <4>6
      <4>8. Elements(bundle') = Elements(retained_items)
        BY <4>1, <4>2, <4>3, <4>4, <4>6
      <4> QED BY <4>7, <4>8
    <3> QED BY <1>5, <3>1, <3>2 DEF Finish
  <2>2. /\ report' = Report /\ deduped' = deduped /\ pruned_count' = pruned_count
        /\ dropped_items' = dropped_items /\ retained_items' = retained_items
    BY <1>5 DEF Finish
  <2>3. /\ report'.items_after_dedup = Len(deduped') /\ report'.items_pruned = pruned_count'
        /\ report'.items_dropped_by_budget = Len(dropped_items')
        /\ report'.items_retained = Len(bundle')
    BY <2>2 DEF Report
  <2>4. Elements(retained_items') = Elements(retained_items)
    BY <2>2
  <2> QED BY <2>1, <2>2, <2>3, <2>4 DEF Reporting, Elements
<1>6. CASE UNCHANGED vars
  BY <1>6 DEF vars, Reporting, Elements
<1> QED BY <1>2, <1>3, <1>4, <1>5, <1>6 DEF Next
-----------------------------------------------------------------------------
(* The invariant *)

LEMMA AssemblyInvInit == Init => AssemblyInv
<1> SUFFICES ASSUME Init PROVE AssemblyInv
  OBVIOUS
<1>1. <<>> \in Seq(Items) /\ Len(<<>>) = 0 /\ Elements(<<>>) = {}
  BY NothingIn
<1>2. TypeOK /\ Waiting
  BY <1>1 DEF Init, TypeOK, Waiting
<1>3. Deduping
  <2>1. Looked = 0 /\ FirstOfEach(<<>>, <<>>, 0)
    BY DEF Init, Looked, FirstOfEach
  <2> QED BY <1>1, <2>1 DEF Init, Deduping
<1>4. Pruning /\ CrowdingCutsTheLowest /\ Placing /\ Reporting
  BY DEF Init, Pruning, CrowdingCutsTheLowest, Placing, Reporting
<1>5. Budgeting /\ BudgetByPriority
  <2>1. Ahead = <<>>
    BY DEF Init, Ahead
  <2> QED BY <1>1, <2>1 DEF Init, Budgeting, BudgetByPriority
<1> QED BY <1>2, <1>3, <1>4, <1>5 DEF AssemblyInv

(* The types of the assembler's state, that its lists hold the items the    *)
(* earlier steps left to them, and that the properties below hold, from the *)
(* first item submitted to the report                                       *)
(* (assembler.py:29-125, dedup.py:8-19, pruner.py:27-54).                   *)
THEOREM AssemblyInvariant == Spec => []AssemblyInv
<1>1. AssemblyInv /\ [Next]_vars => AssemblyInv'
  <2> SUFFICES ASSUME AssemblyInv, [Next]_vars PROVE AssemblyInv'
    OBVIOUS
  <2>1. TypeOK /\ Waiting /\ Deduping /\ Pruning /\ CrowdingCutsTheLowest
        /\ Budgeted /\ Placing /\ Reporting
    BY DEF AssemblyInv, Budgeted
  <2>2. TypeOK' /\ Waiting' /\ Deduping' /\ Pruning' /\ CrowdingCutsTheLowest'
    BY <2>1, Typing, WaitingKept, DedupingKept, PruningKept, CrowdingKept
  <2>3. Budgeted' /\ Placing' /\ Reporting'
    BY <2>1, BudgetedKept, PlacingKept, ReportingKept
  <2> QED BY <2>2, <2>3 DEF AssemblyInv, Budgeted
<1> QED BY AssemblyInvInit, <1>1, PTL DEF Spec

(* The assembler's state has its types. *)
THEOREM Typed == Spec => []TypeOK
<1>1. AssemblyInv => TypeOK
  BY DEF AssemblyInv
<1> QED BY <1>1, AssemblyInvariant, PTL

(* Whatever the budget and the items, no dropped item lost its place to a   *)
(* less important one that is not smaller, and only exempt items go beyond  *)
(* the budget (assembler.py:46-58).                                         *)
THEOREM BudgetGoesByPriority == Spec => []BudgetByPriority
<1>1. AssemblyInv => BudgetByPriority
  BY DEF AssemblyInv
<1> QED BY <1>1, AssemblyInvariant, PTL

(* Whatever the limit, crowding removes none but the least important items, *)
(* no exempt one and nothing below the limit, and leaves more than the      *)
(* limit only where exempt items reach it (pruner.py:42-54).                *)
THEOREM CrowdingIsByPriority == Spec => []CrowdingCutsTheLowest
<1>1. AssemblyInv => CrowdingCutsTheLowest
  BY DEF AssemblyInv
<1> QED BY <1>1, AssemblyInvariant, PTL

(* The instructions come through the four ways an item can leave.           *)
LEMMA InstructionsComeThrough ==
    ASSUME AssemblyInv PROVE SystemInstructionsStay
<1> SUFFICES ASSUME stage = "done", NEW i \in DOMAIN raw_items, Exempt(raw_items[i]),
                    ~Seen(SubSeq(raw_items, 1, i - 1), raw_items[i])
             PROVE  raw_items[i] \in Elements(bundle)
  BY DEF SystemInstructionsStay
<1>1. i \in 1..Looked
  BY DEF AssemblyInv, TypeOK, Looked
<1>2. raw_items[i] \in Elements(deduped)
  BY <1>1 DEF AssemblyInv, Deduping, FirstOfEach
<1>3. raw_items[i] \in Elements(sorted_items)
  BY <1>2 DEF AssemblyInv, Pruning
<1>4. Elements(Ahead) = {}
  BY NothingIn DEF Ahead
<1>5. raw_items[i] \in Elements(retained_items)
  BY <1>3, <1>4 DEF AssemblyInv, Budgeting
<1> QED BY <1>5 DEF AssemblyInv, Reporting

(* Whatever the age limit, the crowd and the budget, an instruction whose   *)
(* content is new reaches the model                                         *)
(* (assembler.py:51, pruner.py:36, 46-53, dedup.py:13).                     *)
THEOREM InstructionsReachTheModel == Spec => []SystemInstructionsStay
<1>1. AssemblyInv => SystemInstructionsStay
  BY InstructionsComeThrough
<1> QED BY <1>1, AssemblyInvariant, PTL

(* One item is kept of every content: the kept items can be counted by      *)
(* their contents.                                                          *)
LEMMA ContentsCounted ==
    ASSUME NEW items \in Seq(Items), NEW kept \in Seq(Items), FirstOfEach(kept, items, Len(items))
    PROVE  Cardinality({item.content : item \in Elements(items)}) = Len(kept)
<1> DEFINE contents == {item.content : item \in Elements(items)}
           at == [k \in 1..Len(kept) |-> kept[k].content]
<1>1. /\ DOMAIN items = 1..Len(items) /\ DOMAIN kept = 1..Len(kept)
      /\ Len(items) \in Nat /\ Len(kept) \in Nat
  OBVIOUS
<1>2. \A k \in 1..Len(kept) : kept[k].content \in contents
  <2> SUFFICES ASSUME NEW k \in 1..Len(kept) PROVE kept[k].content \in contents
    OBVIOUS
  <2>1. PICK j \in 1..Len(items) : kept[k] = items[j]
    BY <1>1 DEF FirstOfEach
  <2>2. items[j] \in Elements(items)
    BY <1>1 DEF Elements
  <2> QED BY <2>1, <2>2
<1>3. \A c \in contents : \E k \in 1..Len(kept) : kept[k].content = c
  <2> SUFFICES ASSUME NEW j \in DOMAIN items
               PROVE  \E k \in 1..Len(kept) : kept[k].content = items[j].content
    BY DEF Elements
  <2> QED BY <1>1 DEF FirstOfEach, Seen
<1> HIDE DEF contents
<1>4. at \in Bijection(1..Len(kept), contents)
  <2>1. at \in [1..Len(kept) -> contents]
    BY <1>2
  <2>2. \A k, l \in 1..Len(kept) : at[k] = at[l] => k = l
    BY <1>1 DEF FirstOfEach
  <2>3. \A c \in contents : \E k \in 1..Len(kept) : at[k] = c
    BY <1>3
  <2> HIDE DEF at
  <2> QED BY <2>1, <2>2, <2>3 DEF Bijection, Injection, Surjection, IsInjective
<1>5. Cardinality(1..Len(kept)) = Len(kept) /\ IsFiniteSet(1..Len(kept))
  <2>1. \A n \in Nat : IsFiniteSet(1..n) /\ Cardinality(1..n) = IF 1 > n THEN 0 ELSE n - 1 + 1
    BY FS_Interval
  <2>2. \A n \in Nat : (IF 1 > n THEN 0 ELSE n - 1 + 1) = n
    OBVIOUS
  <2> QED BY <1>1, <2>1, <2>2
<1>6. Cardinality(1..Len(kept)) = Cardinality(contents)
  BY <1>4, <1>5, FS_Bijection DEF ExistsBijection
<1> QED BY <1>5, <1>6 DEF contents

LEMMA ReportCounts ==
    ASSUME AssemblyInv PROVE ReportAddsUp
<1> SUFFICES ASSUME report # NoReport PROVE ReportAddsUp
  BY DEF ReportAddsUp
<1>1. stage = "done"
  BY DEF AssemblyInv, Waiting
<1>2. Len(Ahead) = 0 /\ Looked = Len(raw_items)
  BY <1>1 DEF Ahead, Looked
<1>3. /\ Len(deduped) \in Nat /\ Len(dropped_items) \in Nat /\ Len(retained_items) \in Nat
      /\ Len(sorted_items) \in Nat /\ pruned_count \in Nat
  BY DEF AssemblyInv, TypeOK
<1>4. /\ pruned_count + Len(sorted_items) = Len(deduped)
      /\ Len(retained_items) + Len(dropped_items) + Len(Ahead) = Len(sorted_items)
  BY <1>1 DEF AssemblyInv, Pruning, Budgeting
<1>5. Cardinality({item.content : item \in Elements(raw_items)}) = Len(deduped)
  BY <1>2, ContentsCounted DEF AssemblyInv, TypeOK, Deduping
<1>6. /\ report.items_after_dedup = Len(deduped) /\ report.items_pruned = pruned_count
      /\ report.items_dropped_by_budget = Len(dropped_items)
      /\ report.items_retained = Len(retained_items)
      /\ Elements(bundle) = Elements(retained_items)
  BY <1>1 DEF AssemblyInv, Reporting
<1>7. report.items_after_dedup =
          report.items_pruned + report.items_dropped_by_budget + report.items_retained
  BY <1>2, <1>3, <1>4, <1>6
<1> QED BY <1>5, <1>6, <1>7 DEF ReportAddsUp

(* The report accounts for every item that was submitted                    *)
(* (assembler.py:29-36, 60-95, pruner.py:37, 52).                           *)
THEOREM EveryItemIsAccounted == Spec => []ReportAddsUp
<1>1. AssemblyInv => ReportAddsUp
  BY ReportCounts
<1> QED BY <1>1, AssemblyInvariant, PTL
=============================================================================
