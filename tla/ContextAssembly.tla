--------------------------- MODULE ContextAssembly --------------------------
(***************************************************************************)
(* How the context of a model request is assembled                         *)
(* (src/src/agent_runtime/context/): ContextAssembler.assemble and the     *)
(* deduplicator and the pruner it calls, one action for every item a loop  *)
(* looks at and for every statement between the loops.  Variables have the *)
(* names of the code's lists.                                              *)
(*                                                                         *)
(* An item is identified by the content its comparisons see, which decides *)
(* its tokens; provenance, trust levels and the distributions the report   *)
(* counts from the final list are left out.                                *)
(***************************************************************************)
EXTENDS Integers, FiniteSets, Sequences

CONSTANTS
    Items,                  \* [content, kind, priority, age_in_steps]
    Tokens,                 \* estimate_tokens of the contents, at least one
    MaxSubmitted,           \* bound on the items of one call
    MaxTokens,              \* max_tokens
    MaxAge, StalePriority,  \* max_age and stale_priority_threshold
    MaxItems,               \* max_items_before_low_priority_cut
    LongContext,            \* the length beyond which a context is reordered
    SystemPriority,         \* from here on items are kept whatever they cost
    NoReport

ASSUME ItemsAssumption ==
    /\ \A item \in Items : /\ DOMAIN item = {"content", "kind", "priority", "age_in_steps"}
                           /\ item.priority \in Int /\ item.age_in_steps \in Nat
                           /\ Tokens[item.content] \in Nat \ {0}
    /\ MaxTokens \in Int /\ MaxAge \in Int /\ StalePriority \in Int /\ SystemPriority \in Int
    /\ MaxSubmitted \in Nat /\ MaxItems \in Nat /\ LongContext \in Nat

Exempt(item) == item.priority >= SystemPriority

(* The agent loop, the caller, gives its items such priorities *)
ASSUME PriorityAssumption ==
    /\ StalePriority <= SystemPriority
    /\ \A item \in Items : item.kind = "user_message" => ~Exempt(item)

VARIABLES
    stage,           \* the statement that comes next
    raw_items,       \* the argument
    todo,            \* what the loop of this stage has not looked at
    deduped,         \* unique_items of the deduplicator
    fresh,           \* retained of the pruner after its first rule
    pruned_count,
    sorted_items,
    retained_items, dropped_items, current_tokens,
    system, user,    \* the instructions and the messages among the retained
    front, back,     \* the rest, by turns
    bundle, report   \* what is returned

pruning   == <<deduped, fresh, pruned_count>>
budgeting == <<sorted_items, retained_items, dropped_items, current_tokens>>
placing   == <<system, user, front, back>>
returned  == <<bundle, report>>
vars      == <<stage, raw_items, todo, pruning, budgeting, placing, returned>>

Init ==
    /\ stage = "submit"
    /\ raw_items = <<>> /\ todo = <<>>
    /\ deduped = <<>> /\ fresh = <<>> /\ pruned_count = 0
    /\ sorted_items = <<>> /\ retained_items = <<>> /\ dropped_items = <<>>
    /\ current_tokens = 0
    /\ system = <<>> /\ user = <<>> /\ front = <<>> /\ back = <<>>
    /\ bundle = <<>> /\ report = NoReport

(* A loop over items begins *)
Begin(next, items) == stage' = next /\ todo' = items
-----------------------------------------------------------------------------
(* The caller *)
Submit(item) ==
    /\ stage = "submit"
    /\ Len(raw_items) < MaxSubmitted
    /\ raw_items' = Append(raw_items, item)
    /\ UNCHANGED <<stage, todo, pruning, budgeting, placing, returned>>

Assemble ==
    /\ stage = "submit"
    /\ Begin("dedup", raw_items)
    /\ UNCHANGED <<raw_items, pruning, budgeting, placing, returned>>
-----------------------------------------------------------------------------
(* ContextDeduplicator.deduplicate: the first item of a content stays *)
Seen(items, item) == \E i \in DOMAIN items : items[i].content = item.content

Deduplicate ==
    /\ stage = "dedup" /\ todo # <<>>
    /\ deduped' = IF Seen(deduped, Head(todo)) THEN deduped ELSE Append(deduped, Head(todo))
    /\ todo' = Tail(todo)
    /\ UNCHANGED <<stage, raw_items, fresh, pruned_count, budgeting, placing, returned>>

Deduplicated ==
    /\ stage = "dedup" /\ todo = <<>>
    /\ Begin("prune", deduped)
    /\ UNCHANGED <<raw_items, pruning, budgeting, placing, returned>>
-----------------------------------------------------------------------------
(* ContextPruner.prune *)
StaleAnyPriority(item) ==  \* mutant: the threshold of the priority is forgotten
    item.age_in_steps > MaxAge

Stale(item) == item.age_in_steps > MaxAge /\ item.priority < StalePriority

Prune ==
    /\ stage = "prune" /\ todo # <<>>
    /\ IF Stale(Head(todo))
       THEN pruned_count' = pruned_count + 1 /\ UNCHANGED fresh
       ELSE fresh' = Append(fresh, Head(todo)) /\ UNCHANGED pruned_count
    /\ todo' = Tail(todo)
    /\ UNCHANGED <<stage, raw_items, deduped, budgeting, placing, returned>>

(* sorted(..., reverse=True): stable, by descending priority *)
BeforeAscending(items, i, j) ==  \* mutant: reverse=True is forgotten
    \/ items[i].priority < items[j].priority
    \/ items[i].priority = items[j].priority /\ i < j

Before(items, i, j) ==
    \/ items[i].priority > items[j].priority
    \/ items[i].priority = items[j].priority /\ i < j

Orders(items) ==
    {order \in [DOMAIN items -> DOMAIN items] :
        /\ \A i, j \in DOMAIN items : i < j => Before(items, order[i], order[j])
        /\ \A k \in DOMAIN items : \E i \in DOMAIN items : order[i] = k}

Arranged(items, order) == [i \in DOMAIN items |-> items[order[i]]]

ExemptIn(items) == {i \in DOMAIN items : Exempt(items[i])}

(* must_keep + rest[:extra_cut]: exempt items lead in this order, so what   *)
(* stays is the beginning of it, unless they leave no room to cut to.       *)
Uncrowded(items) ==
    IF Cardinality(ExemptIn(items)) < MaxItems THEN SubSeq(items, 1, MaxItems) ELSE items

(* The second rule, if there are too many, and the sort of the assembler,   *)
(* which the pruner's two sorts leave nothing to do.                        *)
CutSilently(items) ==  \* mutant: what the second rule removes is not counted
    /\ sorted_items' = IF Len(items) > MaxItems THEN Uncrowded(items) ELSE items
    /\ UNCHANGED pruned_count

Cut(items) ==
    /\ sorted_items' = IF Len(items) > MaxItems THEN Uncrowded(items) ELSE items
    /\ pruned_count' = pruned_count + Len(items) - Len(sorted_items')

SortByPriority ==
    /\ stage = "prune" /\ todo = <<>>
    /\ \E order \in Orders(fresh) : Cut(Arranged(fresh, order))
    /\ Begin("budget", sorted_items')
    /\ UNCHANGED <<raw_items, deduped, fresh, retained_items, dropped_items, current_tokens,
                   placing, returned>>
-----------------------------------------------------------------------------
(* The budget loop: a smaller item may still fit where a larger did not *)
Retain(item) ==
    /\ retained_items' = Append(retained_items, item)
    /\ current_tokens' = current_tokens + Tokens[item.content]
    /\ UNCHANGED dropped_items

Drop(item) ==
    /\ dropped_items' = Append(dropped_items, item)
    /\ UNCHANGED <<retained_items, current_tokens>>

Fits(item) == current_tokens + Tokens[item.content] <= MaxTokens

ConsiderBeforeCounting ==  \* mutant: the item itself is not counted against the budget
    /\ stage = "budget" /\ todo # <<>>
    /\ IF current_tokens <= MaxTokens \/ Exempt(Head(todo))
       THEN Retain(Head(todo)) ELSE Drop(Head(todo))
    /\ todo' = Tail(todo)
    /\ UNCHANGED <<stage, raw_items, pruning, sorted_items, placing, returned>>

Consider ==
    /\ stage = "budget" /\ todo # <<>>
    /\ IF Fits(Head(todo)) \/ Exempt(Head(todo))
       THEN Retain(Head(todo)) ELSE Drop(Head(todo))
    /\ todo' = Tail(todo)
    /\ UNCHANGED <<stage, raw_items, pruning, sorted_items, placing, returned>>
-----------------------------------------------------------------------------
(* _reorder_for_positional_bias: front and back are what the loop inserts   *)
(* after the messages and what it appends.                                  *)
IsUser(item) == item.kind = "user_message"
IsRest(item) == ~Exempt(item) /\ ~IsUser(item)

(* The reordering, for more than two items *)
Long == Len(retained_items) > LongContext /\ Len(retained_items) > 2

Reorder ==
    /\ stage = "budget" /\ todo = <<>> /\ Long
    /\ Begin("reorder", retained_items)
    /\ UNCHANGED <<raw_items, pruning, budgeting, placing, returned>>

Added(items, item, wanted) == IF wanted THEN Append(items, item) ELSE items

Place ==
    /\ stage = "reorder" /\ todo # <<>>
    /\ LET item == Head(todo)
           even == Len(front) = Len(back)
       IN  /\ system' = Added(system, item, Exempt(item))
           /\ user'   = Added(user, item, IsUser(item))
           /\ front'  = Added(front, item, IsRest(item) /\ even)
           /\ back'   = Added(back, item, IsRest(item) /\ ~even)
    /\ todo' = Tail(todo)
    /\ UNCHANGED <<stage, raw_items, pruning, budgeting, returned>>
-----------------------------------------------------------------------------
Report == [total_items_submitted   |-> Len(raw_items),
           items_after_dedup       |-> Len(deduped),
           items_pruned            |-> pruned_count,
           items_dropped_by_budget |-> Len(dropped_items),
           items_retained          |-> Len(bundle'),
           estimated_tokens_used   |-> current_tokens,
           lost_in_middle_warning  |->
               /\ Len(retained_items) > LongContext
               /\ 10 * current_tokens > 9 * (IF MaxTokens > 1 THEN MaxTokens ELSE 1)]

Finish ==
    /\ todo = <<>>
    /\ \/ stage = "budget" /\ ~Long /\ bundle' = retained_items
       \/ stage = "reorder" /\ bundle' = system \o user \o front \o back
    /\ report' = Report
    /\ stage' = "done"
    /\ UNCHANGED <<raw_items, todo, pruning, budgeting, placing>>
-----------------------------------------------------------------------------
Next == \/ \E item \in Items : Submit(item)
        \/ Assemble \/ Deduplicate \/ Deduplicated \/ Prune \/ SortByPriority
        \/ Consider \/ Reorder \/ Place \/ Finish

Spec == Init /\ [][Next]_vars
-----------------------------------------------------------------------------
(* Properties *)

Elements(items) == {items[i] : i \in DOMAIN items}

(* The types of the assembler's state *)
TypeOK ==
    /\ stage \in {"submit", "dedup", "prune", "budget", "reorder", "done"}
    /\ raw_items \in Seq(Items) /\ todo \in Seq(Items)
    /\ deduped \in Seq(Items) /\ fresh \in Seq(Items) /\ pruned_count \in Nat
    /\ sorted_items \in Seq(Items)
    /\ retained_items \in Seq(Items) /\ dropped_items \in Seq(Items)
    /\ current_tokens \in Nat
    /\ system \in Seq(Items) /\ user \in Seq(Items)
    /\ front \in Seq(Items) /\ back \in Seq(Items)
    /\ bundle \in Seq(Items)

(* The budget goes to the most important items: it is exceeded only when    *)
(* nothing but exempt items is left in, an exempt item is never dropped,    *)
(* and an item that was dropped lost its place to no less important one     *)
(* unless that one is smaller (assembler.py:46-58).                         *)
BudgetByPriority ==
    /\ current_tokens > MaxTokens => \A item \in Elements(retained_items) : Exempt(item)
    /\ \A gone \in Elements(dropped_items) :
        /\ ~Exempt(gone)
        /\ \A item \in Elements(retained_items) :
            item.priority < gone.priority => Tokens[item.content] < Tokens[gone.content]

(* The four ways of leaving a context are told apart and add up: every item *)
(* that was submitted is a duplicate, pruned, dropped, or in the bundle     *)
(* (assembler.py:29-36, 60-95, pruner.py:37, 52).                           *)
ReportAddsUp ==
    report # NoReport =>
        /\ report.items_after_dedup =
              report.items_pruned + report.items_dropped_by_budget + report.items_retained
        /\ report.items_after_dedup = Cardinality({item.content : item \in Elements(raw_items)})
        /\ Elements(bundle) = Elements(retained_items)

(* A system instruction reaches the model whatever its age, the crowd and   *)
(* the budget, unless the same content was submitted before it.             *)
(* (assembler.py:51, pruner.py:36, 46-53, dedup.py:13)                      *)
SystemInstructionsStay ==
    stage = "done" => \A i \in DOMAIN raw_items :
        Exempt(raw_items[i]) /\ ~Seen(SubSeq(raw_items, 1, i - 1), raw_items[i]) =>
            raw_items[i] \in Elements(bundle)

(* Crowding removes none but the least important items, no exempt item and  *)
(* nothing below the limit, and the limit is exceeded only where the exempt *)
(* items alone reach it.  Whether the others stay there, as they do in the  *)
(* code, or are dropped, as its comments say, is left open                  *)
(* (pruner.py:7, 42-54).                                                    *)
CrowdingCutsTheLowest ==
    stage \in {"budget", "reorder", "done"} =>
        /\ \A gone \in Elements(fresh) \ Elements(sorted_items) :
              /\ ~Exempt(gone)
              /\ \A other \in Elements(sorted_items) : gone.priority <= other.priority
        /\ Cardinality(ExemptIn(sorted_items)) < MaxItems => Len(sorted_items) <= MaxItems
        /\ Len(sorted_items) < Len(fresh) => Len(sorted_items) >= MaxItems
=============================================================================
