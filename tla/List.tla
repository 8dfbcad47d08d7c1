-------------------------------- MODULE List --------------------------------
(***************************************************************************)
(* lib/list.c: a singly linked list whose iterators stay valid while nodes *)
(* around them come and go. An address is the place of a "next" pointer:   *)
(* that of the list itself (ListHead) or that of a node. Every operation   *)
(* runs under the list's mutex, so it is one step; list_find and           *)
(* list_delete are a list_next or list_remove each time they touch it.     *)
(***************************************************************************)
EXTENDS Integers, FiniteSets, SequencesExt

CONSTANTS
  Node,   \* list nodes that memory has room for
  Iter,   \* list iterators that memory has room for
  Item,   \* client data
  Key,    \* the key of each item that ListFindF and ListCmpF look at
  ListHead, \* the address of l->head
  Null    \* the NULL pointer

ASSUME ListAssumption ==
  /\ IsFiniteSet(Node) /\ IsFiniteSet(Iter)
  /\ Key \in [Item -> Int]
  /\ ListHead \notin Node /\ Null \notin Node \cup Item \cup {ListHead}

Addr == Node \cup {ListHead}
Keys == {Key[x] : x \in Item}

VARIABLES
  live,   \* the list exists
  mem,    \* next, data, tail, count, pos and prev: list, nodes and iterators
  free,   \* nodes on list_free_nodes or not yet allocated
  open,   \* the list's chain of iterators
  ret,    \* what the last call returned
  due     \* history: nodes each iterator has had before it since its reset

vars == <<live, mem, free, open, ret, due>>

-----------------------------------------------------------------------------
(* The nodes in the order in which the pointers lead to them.              *)

\* The k-th address of a chain of nodes.
AddrAt(s, k) == IF k = 0 THEN ListHead ELSE s[k]

\* The nodes that the pointers `next' lead to, up to NULL.
ChainOf(next) ==
  LET at[k \in 0 .. Cardinality(Node)] ==
        IF k = 0 THEN ListHead ELSE LET p == at[k - 1] IN IF p = Null THEN Null ELSE next[p]
  IN [k \in 1 .. Cardinality({n \in 1 .. Cardinality(Node) : at[n] # Null}) |-> at[k]]

Chain == ChainOf(mem.next)

\* The index of p in a chain of nodes; NULL comes after the last node.
IndexOf(s, p) == IF p = Null THEN Len(s) + 1 ELSE SelectInSeq(s, LAMBDA q : q = p)

Empty ==
  [next |-> [a \in Addr |-> Null], data |-> [p \in Node |-> Null],
   tail |-> ListHead, count |-> 0,
   pos  |-> [i \in Iter |-> Null], prev |-> [i \in Iter |-> ListHead]]

DataOf(p) == IF p = Null THEN Null ELSE mem.data[p]

-----------------------------------------------------------------------------
(* list_node_create and list_node_destroy, as functions of the memory.     *)

\* Node p with data x goes in at address pp; an iterator that stands at pp
\* stays behind it, one that would return the node after it returns p first.
NodeCreate(m, pp, p, x) ==
  LET old == m.next[pp] IN
  [next  |-> [m.next EXCEPT ![p] = old, ![pp] = p],
   data  |-> [m.data EXCEPT ![p] = x],
   tail  |-> IF old = Null THEN p ELSE m.tail,
   count |-> m.count + 1,
   prev  |-> [i \in Iter |-> IF i \in open /\ m.prev[i] = pp THEN p ELSE m.prev[i]],
   pos   |-> [i \in Iter |-> IF i \in open /\ m.prev[i] # pp /\ m.pos[i] = old
                             THEN p ELSE m.pos[i]]]

\* Faulty variant: `prev' is not moved off the node that is freed.
NodeDestroyStale(m, pp) ==
  LET p == m.next[pp] IN
  IF p = Null THEN m
  ELSE [m EXCEPT !.next  = [m.next EXCEPT ![pp] = m.next[p], ![p] = Null],
                 !.data  = [m.data EXCEPT ![p] = Null],
                 !.tail  = IF m.next[p] = Null THEN pp ELSE @,
                 !.count = @ - 1,
                 !.pos   = [i \in Iter |-> IF m.pos[i] = p THEN m.next[p] ELSE m.pos[i]],
                 !.prev  = [i \in Iter |-> IF m.pos[i] = p THEN pp ELSE m.prev[i]]]

\* The node at address pp is taken out. What a free node contains does not
\* matter: no pointer leads there (Shape).
NodeDestroy(m, pp) ==
  LET p == m.next[pp]
      Gone(i) == i \in open /\ m.pos[i] = p
  IN
  IF p = Null THEN m
  ELSE [next  |-> [m.next EXCEPT ![pp] = m.next[p], ![p] = Null],
        data  |-> [m.data EXCEPT ![p] = Null],
        tail  |-> IF m.next[p] = Null THEN pp ELSE m.tail,
        count |-> m.count - 1,
        pos   |-> [i \in Iter |-> IF Gone(i) THEN m.next[p] ELSE m.pos[i]],
        prev  |-> [i \in Iter |-> IF Gone(i) \/ (i \in open /\ m.prev[i] = p)
                                  THEN pp ELSE m.prev[i]]]

\* Iterators S start again.
Rewind(m, S) ==
  [m EXCEPT !.pos  = [i \in Iter |-> IF i \in S THEN m.next[ListHead] ELSE m.pos[i]],
            !.prev = [i \in Iter |-> IF i \in S THEN ListHead ELSE m.prev[i]]]

Restarted(S) == [i \in Iter |-> IF i \in S THEN Range(Chain) ELSE due[i]]

\* A call that inserts at pp, or finds no memory.
InsertAtAddr(pp, x) ==
  /\ \/ \E p \in free : /\ mem' = NodeCreate(mem, pp, p, x)
                        /\ free' = free \ {p}
                        /\ ret' = x
     \/ free = {} /\ ret' = Null /\ UNCHANGED <<mem, free>>
  /\ UNCHANGED <<live, open, due>>

\* A call that removes what is at pp, if anything.
RemoveAtAddr(pp) ==
  LET p == mem.next[pp] IN
  /\ mem' = NodeDestroy(mem, pp)
  /\ free' = free \cup ({p} \ {Null})
  /\ ret' = DataOf(p)
  /\ due' = [i \in Iter |-> due[i] \ {p}]
  /\ UNCHANGED <<live, open>>

-----------------------------------------------------------------------------
(* The list.                                                               *)

ListCreate ==
  /\ ~live
  /\ \/ live' = TRUE /\ mem' = Empty /\ open' = {} /\ UNCHANGED ret
     \/ ret' = Null /\ UNCHANGED <<live, mem, open>>   \* no memory
  /\ UNCHANGED <<free, due>>

ListDestroy ==
  /\ live /\ live' = FALSE
  /\ mem' = Empty /\ open' = {}
  /\ free' = free \cup Range(Chain)
  /\ due' = [i \in Iter |-> {}]
  /\ UNCHANGED ret

\* list_prepend, list_push.
ListPrepend(x) == live /\ InsertAtAddr(ListHead, x)

\* list_append, list_enqueue.
ListAppend(x) == live /\ InsertAtAddr(mem.tail, x)

\* list_pop, list_dequeue.
ListPop == live /\ RemoveAtAddr(ListHead)

\* One round of the loop of list_delete_all: st.pp is where the loop stands.
DeleteStep(k, st) ==
  LET p == st.m.next[st.pp]
      Matches == mem.data[p] # Null /\ Key[mem.data[p]] = k
  IN
  IF p = Null THEN st
  ELSE IF Matches THEN [m |-> NodeDestroy(st.m, st.pp), pp |-> st.pp, dead |-> st.dead \cup {p}]
  ELSE [m |-> st.m, pp |-> p, dead |-> st.dead]

DeleteLoop(k) ==
  LET loop[n \in 0 .. Cardinality(Node)] ==
        IF n = 0 THEN [m |-> mem, pp |-> ListHead, dead |-> {}] ELSE DeleteStep(k, loop[n - 1])
  IN loop[Cardinality(Node)]

ListDeleteAll(k) ==
  LET last == DeleteLoop(k) IN
  /\ live
  /\ mem' = last.m
  /\ free' = free \cup last.dead
  /\ ret' = Cardinality(last.dead)
  /\ due' = [i \in Iter |-> due[i] \ last.dead]
  /\ UNCHANGED <<live, open>>

\* Faulty variant: an item is inserted before those that compare equal.
SortStepUnstable(st) ==
  LET p == st.next[st.pp]
      Less(a, b) == Key[mem.data[a]] <= Key[mem.data[b]]
      nodes == ChainOf(st.next)
      k == SelectInSeq(nodes, LAMBDA q : Less(p, q))
      ppPos == IF k = 1 THEN ListHead ELSE nodes[k - 1]
  IN
  IF p = Null THEN st
  ELSE IF Less(p, st.next[st.ppPrev])
  THEN [next |-> [st.next EXCEPT ![p] = st.next[ppPos], ![ppPos] = p, ![st.pp] = st.next[p]],
        ppPrev |-> IF ppPos = st.ppPrev THEN p ELSE st.ppPrev, pp |-> st.pp]
  ELSE [next |-> st.next, ppPrev |-> st.pp, pp |-> p]

\* One round of the loop of list_sort: the node at pp is moved to before the
\* first one that is greater, or left where it is.
SortStep(st) ==
  LET p == st.next[st.pp]
      Less(a, b) == Key[mem.data[a]] < Key[mem.data[b]]
      nodes == ChainOf(st.next)
      k == SelectInSeq(nodes, LAMBDA q : Less(p, q))
      ppPos == IF k = 1 THEN ListHead ELSE nodes[k - 1]
  IN
  IF p = Null THEN st
  ELSE IF Less(p, st.next[st.ppPrev])
  THEN [next |-> [st.next EXCEPT ![p] = st.next[ppPos], ![ppPos] = p, ![st.pp] = st.next[p]],
        ppPrev |-> IF ppPos = st.ppPrev THEN p ELSE st.ppPrev, pp |-> st.pp]
  ELSE [next |-> st.next, ppPrev |-> st.pp, pp |-> p]

SortLoop(m) ==
  LET loop[n \in 0 .. Cardinality(Node)] ==
        IF n = 0 THEN [next |-> m.next, ppPrev |-> ListHead, pp |-> m.next[ListHead]]
        ELSE SortStep(loop[n - 1])
  IN loop[Cardinality(Node)]

\* The pointers and the tail once the loop is done.
Sorted(m) == [m EXCEPT !.next = SortLoop(m).next, !.tail = SortLoop(m).pp]

\* Faulty variant: the iterators stay where they were.
ListSortKeep ==
  /\ live
  /\ \/ mem.count > 1 /\ mem' = Sorted(mem) /\ due' = Restarted(open)
     \/ mem.count <= 1 /\ UNCHANGED <<mem, due>>
  /\ UNCHANGED <<live, free, open, ret>>

ListSort ==
  /\ live
  /\ \/ mem.count > 1 /\ mem' = Rewind(Sorted(mem), open) /\ due' = Restarted(open)
     \/ mem.count <= 1 /\ UNCHANGED <<mem, due>>
  /\ UNCHANGED <<live, free, open, ret>>

\* The calls that only look: list_peek, list_count, list_is_empty,
\* list_find_first, and list_for_each with a function that fails on key k.
ListPeek    == ret' = DataOf(mem.next[ListHead])
ListCount   == ret' = mem.count
ListIsEmpty == ret' = IF mem.count = 0 THEN 1 ELSE 0
ListFindFirst(k) ==
  LET n == SelectInSeq(Chain, LAMBDA p : Key[mem.data[p]] = k)
  IN ret' = IF n = 0 THEN Null ELSE mem.data[Chain[n]]
ListForEach(k) ==
  LET n == SelectInSeq(Chain, LAMBDA p : Key[mem.data[p]] = k)
  IN ret' = IF n = 0 THEN Len(Chain) ELSE -n

-----------------------------------------------------------------------------
(* Iterators.                                                              *)

ListIteratorCreate ==
  /\ live
  /\ \/ \E i \in Iter \ open :
          /\ open' = open \cup {i}
          /\ mem' = Rewind(mem, {i}) /\ due' = Restarted({i})
          /\ UNCHANGED ret
     \/ open = Iter /\ ret' = Null /\ UNCHANGED <<mem, open, due>>
  /\ UNCHANGED <<live, free>>

ListIteratorReset(i) ==
  /\ live /\ i \in open
  /\ mem' = Rewind(mem, {i}) /\ due' = Restarted({i})
  /\ UNCHANGED <<live, free, open, ret>>

ListIteratorDestroy(i) ==
  /\ live /\ i \in open
  /\ open' = open \ {i}
  /\ mem' = [mem EXCEPT !.pos[i] = Null, !.prev[i] = ListHead]
  /\ due' = [due EXCEPT ![i] = {}]
  /\ UNCHANGED <<live, free, ret>>

ListNext(i) ==
  LET p == mem.pos[i] IN
  /\ live /\ i \in open
  /\ mem' = [mem EXCEPT !.pos[i] = IF p = Null THEN Null ELSE mem.next[p],
                        !.prev[i] = IF mem.next[@] # p THEN mem.next[@] ELSE @]
  /\ ret' = DataOf(p)
  /\ due' = [due EXCEPT ![i] = @ \ {p}]
  /\ UNCHANGED <<live, free, open>>

ListInsert(i, x) == live /\ i \in open /\ InsertAtAddr(mem.prev[i], x)

\* list_remove, and list_delete, which also calls fDel on the item.
ListRemove(i) ==
  /\ live /\ i \in open
  /\ \/ mem.next[mem.prev[i]] # mem.pos[i] /\ RemoveAtAddr(mem.prev[i])
     \/ /\ mem.next[mem.prev[i]] = mem.pos[i]
        /\ ret' = Null
        /\ UNCHANGED <<live, mem, free, open, due>>

-----------------------------------------------------------------------------
Init ==
  /\ live = FALSE /\ mem = Empty /\ free = Node /\ open = {} /\ ret = Null
  /\ due = [i \in Iter |-> {}]

Look ==
  /\ live
  /\ ListPeek \/ ListCount \/ ListIsEmpty \/ (\E k \in Keys : ListFindFirst(k) \/ ListForEach(k))
  /\ UNCHANGED <<live, mem, free, open, due>>

\* Items the client does not have in the list: it adds each object once.
Fresh == Item \ {mem.data[p] : p \in Node}

Next ==
  \/ ListCreate \/ ListDestroy
  \/ \E x \in Fresh : ListPrepend(x) \/ ListAppend(x)
  \/ ListPop
  \/ \E k \in Keys : ListDeleteAll(k)
  \/ ListSort
  \/ Look
  \/ ListIteratorCreate
  \/ \E i \in Iter : ListIteratorReset(i) \/ ListIteratorDestroy(i)
  \/ \E i \in Iter : ListNext(i) \/ ListRemove(i)
  \/ \E i \in Iter, x \in Fresh : ListInsert(i, x)

Spec == Init /\ [][Next]_vars

-----------------------------------------------------------------------------
(* Properties.                                                             *)

\* What list_node_create and list_node_destroy assert of every iterator, and
\* what they rely on: tail and count agree with the chain, no iterator points
\* to a free node, and every node is on the chain or free, never both.
Shape ==
  /\ Range(Chain) = Node \ free
  /\ mem.count = Len(Chain)
  /\ mem.tail = IF Chain = <<>> THEN ListHead ELSE Last(Chain)
  /\ mem.next[mem.tail] = Null
  /\ \A i \in open :
       /\ mem.prev[i] \in {ListHead} \cup (Node \ free)
       /\ mem.pos[i] \in {Null} \cup (Node \ free)
       /\ \/ mem.pos[i] = mem.next[mem.prev[i]]
          \/ /\ mem.next[mem.prev[i]] # Null
             /\ mem.pos[i] = mem.next[mem.next[mem.prev[i]]]

\* A loop over list_next misses nothing: whatever is inserted and removed
\* around it, by itself or through another iterator, a node that was there
\* when it began and still is, has been returned or will be.
VisitsAll ==
  \A i \in open : \A p \in due[i] : p \in Range(Chain) /\ IndexOf(Chain, p) >= IndexOf(Chain, mem.pos[i])

Items == LET s == Chain IN [k \in DOMAIN s |-> mem.data[s[k]]]

\* Where memory m has the iterators `its'. After list_next, prev is the address
\* before the node returned.
CursorsOf(m, its) ==
  [i \in Iter |->
     IF i \in its
     THEN [next |-> IndexOf(ChainOf(m.next), m.pos[i]), cur |-> m.next[m.prev[i]] # m.pos[i]]
     ELSE [next |-> 1, cur |-> FALSE]]

Cursors == CursorsOf(mem, open)

Abstract == INSTANCE ListSpec WITH
  Capacity     <- Cardinality(Node),
  AsDocumented <- FALSE,
  items        <- Items,
  cursor       <- Cursors

ListH == INSTANCE ListSpec WITH
  Capacity     <- Cardinality(Node),
  AsDocumented <- TRUE,
  items        <- Items,
  cursor       <- Cursors

\* The linked nodes with their iterators behave as a sequence with cursors:
\* every call returns and leaves what ListSpec says, with two exceptions to
\* what list.h says. Sorting fewer than two items leaves the iterators where
\* they are, and an iterator no longer knows which item it returned last once
\* the item after that was removed through another one.
Implements == Abstract!Spec

\* list.h: "Sorting a list resets all iterators associated with the list", and
\* list_remove removes "the last item returned via list iterator".
ImplementsListH == ListH!Spec

-----------------------------------------------------------------------------
(* The inductive invariant behind these properties.                        *)

Memory ==
  [next : [Addr -> Node \cup {Null}], data : [Node -> Item \cup {Null}],
   tail : Addr, count : Nat,
   pos  : [Iter -> Node \cup {Null}], prev : [Iter -> Addr]]

\* The k-th node of a chain, or NULL.
NodeAt(s, k) == IF k \in 1 .. Len(s) THEN s[k] ELSE Null

\* The pointers `next' lead through the nodes s, each once.
Links(next, s) ==
  /\ s \in Seq(Node) /\ IsInjective(s)
  /\ \A k \in 0 .. Len(s) : next[AddrAt(s, k)] = NodeAt(s, k + 1)

\* Memory m holds the nodes s, and the iterators `its' are at the cursors cur.
Holds(m, s, cur, its) ==
  /\ Links(m.next, s)
  /\ m.count = Len(s) /\ m.tail = AddrAt(s, Len(s))
  /\ \A i \in its :
       /\ cur[i].next \in 1 .. Len(s) + 1 /\ (cur[i].cur => cur[i].next > 1)
       /\ m.prev[i] = AddrAt(s, cur[i].next - (IF cur[i].cur THEN 2 ELSE 1))
       /\ m.pos[i] = NodeAt(s, cur[i].next)

ListInv ==
  /\ live \in BOOLEAN /\ mem \in Memory /\ open \subseteq Iter
  /\ ~live => mem = Empty /\ open = {}
  /\ Holds(mem, Chain, Cursors, open)
  /\ free = Node \ Range(Chain)
  /\ \A p \in Range(Chain) : mem.data[p] \in Item
  /\ due \in [Iter -> SUBSET Node]
  /\ \A i \in open : \A p \in due[i] : \E k \in Cursors[i].next .. Len(Chain) : Chain[k] = p

=============================================================================
