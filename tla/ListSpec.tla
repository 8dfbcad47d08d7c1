------------------------------ MODULE ListSpec ------------------------------
(***************************************************************************)
(* What a list of lib/list.c promises its clients: a sequence of items,    *)
(* and iterators that are cursors into it. A cursor stands before the item *)
(* at index next and remembers (cur) whether the item just before it is    *)
(* the last one it returned, so that list_insert and list_remove refer to  *)
(* that one.                                                               *)
(*                                                                         *)
(* AsDocumented is what list.h says. Without it, the specification makes   *)
(* the two exceptions that lib/list.c makes; module List shows that the    *)
(* linked nodes implement that one, and that they do not implement list.h. *)
(***************************************************************************)
EXTENDS Integers, FiniteSets, SequencesExt

CONSTANTS
  Item,      \* what clients put into the list
  Iter,      \* iterators that can be open at a time
  Null,      \* NULL: no item
  Key,       \* what ListFindF and ListCmpF look at
  Capacity,  \* items that fit into memory
  AsDocumented \* whether to take list.h at its word

VARIABLES
  live,      \* the list exists
  items,     \* its items
  open,      \* its iterators
  cursor,    \* where each open iterator is
  ret        \* what the last call returned

vars == <<live, items, open, cursor, ret>>

Start == [next |-> 1, cur |-> FALSE]
Keys == {Key[x] : x \in Item}

-----------------------------------------------------------------------------
\* An item inserted at k is passed over by a cursor that stands there, unless
\* it comes right after the item that the cursor returned last.
Inserted(k) ==
  [i \in Iter |->
     LET c == cursor[i] IN
     IF i \in open /\ (c.next > k \/ (c.next = k /\ ~c.cur))
     THEN [next |-> c.next + 1, cur |-> c.cur] ELSE c]

\* When the items at D go, a cursor moves along with those behind them, and no
\* longer stands after the item it returned last if that one goes. (The code
\* forgets that item also if the one after it goes.)
Removed(D) ==
  [i \in Iter |->
     LET c == cursor[i] IN
     IF i \notin open THEN c
     ELSE [next |-> c.next - Cardinality({d \in D : d < c.next}),
           cur  |-> /\ c.cur /\ c.next - 1 \notin D
                    /\ AsDocumented \/ c.next \notin D]]

\* The items at K, in their order.
Only(K) ==
  [n \in 1 .. Cardinality(K) |->
     items[CHOOSE k \in K : Cardinality({d \in K : d < k}) = n - 1]]

InsertItem(k, x) ==
  \/ /\ ret' = x
     /\ Len(items) < Capacity
     /\ items' = InsertAt(items, k, x)
     /\ cursor' = Inserted(k)
  \/ /\ ret' = Null
     /\ Len(items) = Capacity
     /\ UNCHANGED <<items, cursor>>

RemoveItem(k) ==
  /\ ret' = items[k]
  /\ items' = RemoveAt(items, k)
  /\ cursor' = Removed({k})

Insert(k, x) == live /\ UNCHANGED <<live, open>> /\ InsertItem(k, x)

Prepend == \E x \in Item : Insert(1, x)
Add     == \E x \in Item : Insert(Len(items) + 1, x)

Pop ==
  /\ live /\ UNCHANGED <<live, open>>
  /\ \/ items = <<>> /\ ret' = Null /\ UNCHANGED <<items, cursor>>
     \/ items # <<>> /\ RemoveItem(1)

DeleteAll ==
  \E k \in Keys :
    LET dead == {n \in DOMAIN items : Key[items[n]] = k} IN
    /\ live /\ UNCHANGED <<live, open>>
    /\ ret' = Cardinality(dead)
    /\ items' = Only(DOMAIN items \ dead)
    /\ cursor' = Removed(dead)

\* Stable; all iterators start again. (The code leaves them where they are if
\* there is nothing to sort.)
Sort ==
  /\ live /\ UNCHANGED <<live, open, ret>>
  /\ cursor' = IF AsDocumented \/ Len(items) > 1 THEN [i \in Iter |-> Start] ELSE cursor
  /\ \E s \in [DOMAIN items -> DOMAIN items] :
       /\ IsInjective(s)
       /\ \A a, b \in DOMAIN items : a < b =>
            \/ Key[items[s[a]]] < Key[items[s[b]]]
            \/ Key[items[s[a]]] = Key[items[s[b]]] /\ s[a] < s[b]
       /\ items' = [n \in DOMAIN items |-> items[s[n]]]

Look ==
  /\ live /\ UNCHANGED <<live, items, open, cursor>>
  /\ \/ ret' = IF items = <<>> THEN Null ELSE items[1]
     \/ ret' = Len(items)
     \/ ret' = IF items = <<>> THEN 1 ELSE 0
     \/ \E k \in Keys :
          LET n == SelectInSeq(items, LAMBDA x : Key[x] = k) IN
          \/ ret' = IF n = 0 THEN Null ELSE items[n]
          \/ ret' = IF n = 0 THEN Len(items) ELSE -n

-----------------------------------------------------------------------------
OpenIter ==
  /\ live
  /\ \/ \E i \in Iter \ open : open' = open \cup {i} /\ UNCHANGED ret
     \/ open = Iter /\ ret' = Null /\ UNCHANGED open
  /\ UNCHANGED <<live, items, cursor>>

ResetIter ==
  /\ live /\ UNCHANGED <<live, open, ret, items>>
  /\ \E i \in open : cursor' = [cursor EXCEPT ![i] = Start]

CloseIter ==
  /\ live
  /\ \E i \in open : open' = open \ {i} /\ cursor' = [cursor EXCEPT ![i] = Start]
  /\ UNCHANGED <<live, items, ret>>

NextItem ==
  /\ live /\ UNCHANGED <<live, items, open>>
  /\ \E i \in open :
       LET n == cursor[i].next IN
       \/ /\ n <= Len(items)
          /\ ret' = items[n]
          /\ cursor' = [cursor EXCEPT ![i] = [next |-> n + 1, cur |-> TRUE]]
       \/ /\ n > Len(items)
          /\ ret' = Null
          /\ cursor' = [cursor EXCEPT ![i] = [next |-> n, cur |-> FALSE]]

InsertHere ==
  \E i \in open, x \in Item :
    Insert(IF cursor[i].cur THEN cursor[i].next - 1 ELSE cursor[i].next, x)

RemoveHere ==
  /\ live /\ UNCHANGED <<live, open>>
  /\ \E i \in open :
       \/ cursor[i].cur /\ RemoveItem(cursor[i].next - 1)
       \/ ~cursor[i].cur /\ ret' = Null /\ UNCHANGED <<items, cursor>>

Create ==
  /\ ~live
  /\ \/ live' = TRUE /\ UNCHANGED ret
     \/ ret' = Null /\ UNCHANGED live
  /\ UNCHANGED <<items, open, cursor>>

Destroy ==
  /\ live /\ live' = FALSE
  /\ items' = <<>> /\ open' = {} /\ cursor' = [i \in Iter |-> Start]
  /\ UNCHANGED ret

-----------------------------------------------------------------------------
Init ==
  /\ live = FALSE /\ items = <<>> /\ open = {}
  /\ cursor = [i \in Iter |-> Start] /\ ret = Null

Next ==
  \/ Create \/ Destroy
  \/ Prepend \/ Add \/ Pop \/ DeleteAll \/ Sort \/ Look
  \/ OpenIter \/ ResetIter \/ CloseIter
  \/ NextItem \/ InsertHere \/ RemoveHere

Spec == Init /\ [][Next]_vars

=============================================================================
