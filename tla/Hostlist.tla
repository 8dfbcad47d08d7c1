------------------------------ MODULE Hostlist ------------------------------
(***************************************************************************)
(* lib/hostlist.c: the hostlist, an array of host ranges that stands for a *)
(* sequence of host names, its iterators, and the hostset, a hostlist kept *)
(* sorted and joined. One list and one iterator on it; calls come in any   *)
(* order its caller may make them. A host string is a sequence of tokens,  *)
(* each a host name or a prefix with ranges in brackets.                   *)
(***************************************************************************)
EXTENDS HostRange, SequencesExt

CONSTANTS
  Texts,      \* the host strings that callers pass
  Hosts,      \* the host names that callers pass
  MaxRange,   \* MAX_RANGE: hosts one range may have
  MaxRanges,  \* MAX_RANGES: ranges between two brackets
  MaxHosts,   \* bound: no call that adds hosts is made beyond this
  Null        \* the NULL pointer: no list, no iterator, no host, no range

VARIABLES
  hl,         \* Null, or the list: hr[] and nhosts, and its iterator it
  set,        \* whether hl belongs to a hostset
  missed,     \* history: a host past the last one was deleted from hl
  last        \* history: the last call, its argument and its result

vars == <<hl, set, missed, last>>

Did(op, arg, ret) == last' = [op |-> op, arg |-> arg, ret |-> ret]

\* The hosts a range array stands for.
Expand(s) == FlattenSeq([i \in DOMAIN s |-> HostsOf(s[i])])

Total(s) == SumFunction([i \in DOMAIN s |-> hostrange_count(s[i])])

-----------------------------------------------------------------------------
(* Iterators: idx counts ranges from 0, depth hosts within the range, and  *)
(* at tells whether the iterator's hr still is hl->hr[idx].                *)

IteratorAt(idx, depth, s) == [idx |-> idx, depth |-> depth, at |-> idx < Len(s)]

hostlist_iterator_reset(h) ==
  IF h.it = Null THEN h ELSE [h EXCEPT !.it = IteratorAt(0, -1, h.hr)]

hostlist_insert_range(h, hr, n) ==
  LET s == InsertAt(h.hr, n + 1, hr) IN
  [h EXCEPT !.hr = s,
            !.it = IF @ # Null /\ @.idx >= n THEN IteratorAt(@.idx + 1, @.depth, s) ELSE @]

\* Faulty variant: the iterators are not shifted with the ranges.
hostlist_delete_rangeStale(h, n) ==
  [h EXCEPT !.hr = RemoveAt(@, n + 1),
            !.it = IF @ = Null \/ @.idx < n THEN @ ELSE [@ EXCEPT !.at = FALSE]]

hostlist_delete_range(h, n) ==
  LET s == RemoveAt(h.hr, n + 1) IN
  [h EXCEPT !.hr = s,
            !.it = IF @ = Null \/ @.idx < n THEN @
                   ELSE IF @.idx = 0 THEN IteratorAt(0, -1, s)
                   ELSE IteratorAt(@.idx - 1, @.depth, s)]

\* Faulty variant: an iterator in the first range keeps its depth.
ShiftIteratorNot(it) == it

\* hostlist_shift_iterators for a host that leaves the first range.
ShiftIterator(it) ==
  IF it # Null /\ it.idx = 0 /\ it.depth >= 0 THEN [it EXCEPT !.depth = @ - 1] ELSE it

-----------------------------------------------------------------------------
(* Strings to lists and back.                                              *)

NewList == [hr |-> <<>>, nhosts |-> 0, it |-> Null]

Adjoins(h1, h2) ==
  /\ hostrange_prefix_cmp(h1, h2) = 0
  /\ h1.hi = Dec(h2.lo)
  /\ hostrange_width_combine(h1, h2)

Joined(h1, h2) == [h1 EXCEPT !.hi = h2.hi, !.width = CombinedWidth(h1, h2)]

hostlist_push_range(h, hr) ==
  LET s == h.hr IN
  [h EXCEPT !.nhosts = @ + hostrange_count(hr),
            !.hr = IF s # <<>> /\ Adjoins(Last(s), hr)
                   THEN Append(Front(s), Joined(Last(s), hr)) ELSE Append(s, hr)]

hostlist_push_list(h1, s) == FoldLeft(hostlist_push_range, h1, s)

\* A name with a bracketed number inside is a prefix as a whole; which one
\* does not matter, only that different names differ.
SuffixedPrefix(p, n, w) == 1000 * (p + 1) + 100 * w + n

parse_single_range(r) == r.lo <= r.hi /\ r.hi - r.lo + 1 <= MaxRange

Parses(tok) ==
  tok.kind # "host" => /\ Len(tok.ranges) <= MaxRanges
                       /\ \A k \in DOMAIN tok.ranges : parse_single_range(tok.ranges[k])

\* The ranges that one token pushes.
TokenRanges(tok) ==
  CASE tok.kind = "host" -> <<RangeOfName(tok.name)>>
    [] tok.kind = "list" ->
         [k \in DOMAIN tok.ranges |->
            LET r == tok.ranges[k] IN hostrange_create(tok.pfx, r.lo, r.hi, r.width)]
    [] tok.kind = "suffixed" ->
         FlattenSeq([k \in DOMAIN tok.ranges |->
            LET r == tok.ranges[k] IN
            [j \in 1 .. r.hi - r.lo + 1 |->
               hostrange_create_single(SuffixedPrefix(tok.pfx, r.lo + j - 1, r.width))]])

\* hostlist_create; a bad range makes it NULL and drops what was pushed.
Parsed(text) ==
  IF \E k \in DOMAIN text : ~Parses(text[k]) THEN Null
  ELSE hostlist_push_list(NewList, FlattenSeq([k \in DOMAIN text |-> TokenRanges(text[k])]))

\* "%0*lu" and "-%0*lu": the number as it reads back.
numstr(hr) ==
  [lo |-> hr.lo, hi |-> hr.hi, width |-> Digits(hr.lo) + zero_padded(hr.lo, hr.width)]

\* The index after the last range that shares the brackets of range i.
BracketEnd(s, i) ==
  CHOOSE j \in i + 1 .. Len(s) + 1 :
    /\ \A k \in i + 1 .. j - 1 : hostrange_within_range(s[k], s[k - 1])
    /\ j <= Len(s) => ~hostrange_within_range(s[j], s[j - 1])

\* Faulty variant: a range of several hosts alone loses its brackets.
get_bracketed_listBare(s, i) ==
  LET j == BracketEnd(s, i) IN
  IF j = i + 1 THEN [kind |-> "host", name |-> NameAt(s[i], s[i].lo)]
  ELSE [kind |-> "list", pfx |-> s[i].pfx, ranges |-> [k \in 1 .. j - i |-> numstr(s[i + k - 1])]]

\* The token written for range i and those that share its brackets.
get_bracketed_list(s, i) ==
  LET j == BracketEnd(s, i) IN
  IF hostrange_count(s[i]) > 1 \/ j > i + 1
  THEN [kind |-> "list", pfx |-> s[i].pfx, ranges |-> [k \in 1 .. j - i |-> numstr(s[i + k - 1])]]
  ELSE [kind |-> "host", name |-> NameAt(s[i], s[i].lo)]

ranged_string(s) ==
  LET starts == {i \in DOMAIN s : i = 1 \/ ~hostrange_within_range(s[i], s[i - 1])}
  IN [k \in 1 .. Cardinality(starts) |->
        get_bracketed_list(s, CHOOSE i \in starts :
                                Cardinality({j \in starts : j < i}) = k - 1)]

deranged_string(s) ==
  [k \in DOMAIN Expand(s) |-> [kind |-> "host", name |-> Expand(s)[k]]]

-----------------------------------------------------------------------------
(* Searching, deleting, sorting and joining, as functions of the list.     *)

\* The first range with host hn in it, from 1; 0 if there is none.
RangeWith(s, hn) == SelectInSeq(s, LAMBDA hr : hostrange_hn_within(hr, hn))

FoundAt(s, hn) ==
  LET i == RangeWith(s, hn) IN
  IF i = 0 THEN -1
  ELSE Total(SubSeq(s, 1, i - 1)) + (IF s[i].single THEN 0 ELSE hn.num - s[i].lo)

\* The list after a search: the range that was found has its width adjusted.
Searched(h, hn) ==
  LET i == RangeWith(h.hr, hn) IN
  IF i = 0 THEN h ELSE [h EXCEPT !.hr = ReplaceAt(@, i, Adjusted(@[i], hn))]

\* The range that holds the nth host (both from 0, as in the code).
RangeOfNth(s, n) ==
  CHOOSE i \in 0 .. Len(s) - 1 : /\ Total(SubSeq(s, 1, i)) <= n
                                 /\ n < Total(SubSeq(s, 1, i + 1))

nth(s, n) ==
  LET i == RangeOfNth(s, n) IN
  NameAt(s[i + 1], s[i + 1].lo + n - Total(SubSeq(s, 1, i)))

\* Without an nth host only the count goes down.
delete_nth(h, n) ==
  LET i == RangeOfNth(h.hr, n)
      hr == h.hr[i + 1]
      parts == hostrange_delete_host(hr, hr.lo + n - Total(SubSeq(h.hr, 1, i)))
      h1 == [h EXCEPT !.hr = ReplaceAt(@, i + 1, parts[1]), !.nhosts = @ - 1]
  IN IF n >= Total(h.hr) THEN [h EXCEPT !.nhosts = @ - 1]
     ELSE IF hr.single THEN hostlist_delete_range([h EXCEPT !.nhosts = @ - 1], i)
     ELSE IF Len(parts) = 2 THEN hostlist_insert_range(h1, parts[2], i + 1)
     ELSE IF hostrange_empty(parts[1]) THEN hostlist_delete_range(h1, i)
     ELSE h1

delete_host(h, hn) ==
  LET n == FoundAt(h.hr, hn) IN IF n >= 0 THEN delete_nth(Searched(h, hn), n) ELSE h

\* The orders in which qsort may leave the ranges. The comparisons may also
\* adjust widths, which changes neither names nor later comparisons.
Sorted(s) ==
  {t \in {[i \in DOMAIN s |-> s[p[i]]] : p \in Permutations(DOMAIN s)} :
     \A i \in 1 .. Len(s) - 1 : hostrange_cmp(t[i], t[i + 1]) <= 0}

\* Faulty variant: the number of the single hosts does not go up.
DoubledLow(pfx, w, lo, hi) ==
  [k \in 1 .. 2 * (hi - lo) |-> hostrange_create(pfx, lo, lo, w)]

\* The single hosts that hostlist_coalesce puts between the two ranges.
Doubled(pfx, w, lo, hi) ==
  LET one(x) == hostrange_create(pfx, x, x, w) IN
  FlattenSeq([k \in 1 .. hi - lo + 1 |->
    LET x == lo + k - 1 IN (IF x > lo THEN <<one(x)>> ELSE <<>>)
                           \o (IF x < hi THEN <<one(x)>> ELSE <<>>)])

\* hostlist_coalesce: pairs from the last one down, again from the last one
\* after each split; <<Null>> if the order asserted of a pair is broken.
coalesce[s \in Seq(HostRanges), i \in Nat] ==
  IF i < 2 THEN s
  ELSE LET h1 == s[i - 1]
           h2 == s[i]
           w  == CombinedWidth(h1, h2)
           m  == IF h2.hi < h1.hi THEN h2.hi ELSE h1.hi
           M  == IF h2.hi < h1.hi THEN h1.hi ELSE h2.hi
           t  == SubSeq(s, 1, i - 2)
                 \o <<[h1 EXCEPT !.hi = h2.lo, !.width = w]>>
                 \o Doubled(h1.pfx, w, h2.lo, m)
                 \o <<[h2 EXCEPT !.lo = m, !.hi = M, !.width = w]>>
                 \o SubSeq(s, i + 1, Len(s))
       IN IF ~h1.single /\ ~h2.single /\ hostrange_cmp(h1, h2) > 0 THEN <<Null>>
          ELSE IF hostrange_intersects(h1, h2) THEN coalesce[t, Len(t)]
          ELSE coalesce[s, i - 1]

collapse[s \in Seq(HostRanges), i \in Nat] ==
  IF i < 2 THEN s
  ELSE IF Adjoins(s[i - 1], s[i])
       THEN collapse[SubSeq(s, 1, i - 2) \o <<Joined(s[i - 1], s[i])>>
                       \o SubSeq(s, i + 1, Len(s)), i - 1]
  ELSE collapse[s, i - 1]

\* What hostlist_sort may make of the ranges.
sort(s) ==
  IF Len(s) <= 1 THEN {s}
  ELSE {LET c == coalesce[t, Len(t)] IN
        IF c = <<Null>> THEN c ELSE collapse[c, Len(c)] : t \in Sorted(s)}

\* Faulty variant: the duplicates are not taken off the count.
attempt_range_joinUncounted(h, loc) ==
  LET j == hostrange_join(h.hr[loc], h.hr[loc + 1])
      h1 == [h EXCEPT !.hr = ReplaceAt(@, loc, j.range)]
  IN [dups |-> j.dups, list |-> IF j.dups < 0 THEN h1 ELSE hostlist_delete_range(h1, loc)]

\* _attempt_range_join of ranges loc - 1 and loc, from 0.
attempt_range_join(h, loc) ==
  LET j == hostrange_join(h.hr[loc], h.hr[loc + 1])
      h1 == [h EXCEPT !.hr = ReplaceAt(@, loc, j.range)]
  IN [dups |-> j.dups,
      list |-> IF j.dups < 0 THEN h1
               ELSE [hostlist_delete_range(h1, loc) EXCEPT !.nhosts = @ - j.dups]]

\* The list as hostlist_uniq joins its ranges: the iterators are reset later.
Joinable == [hr : Seq(HostRanges), nhosts : Int, it : {Null}]

\* The joins of hostlist_uniq, from range i (from 1) on.
join_all[h \in Joinable, i \in Nat] ==
  IF i >= Len(h.hr) THEN h
  ELSE LET a == attempt_range_join(h, i) IN
       IF a.dups < 0 THEN join_all[a.list, i + 1] ELSE join_all[a.list, i]

\* Faulty variant: neighbours are joined without a sort.
uniqUnsorted(h) ==
  IF Len(h.hr) <= 1 THEN {h}
  ELSE {LET u == join_all[[h EXCEPT !.it = Null], 1]
        IN hostlist_iterator_reset([u EXCEPT !.it = h.it])}

\* What hostlist_uniq may make of the list.
uniq(h) ==
  IF Len(h.hr) <= 1 THEN {h}
  ELSE {LET u == join_all[[h EXCEPT !.hr = t, !.it = Null], 1]
        IN hostlist_iterator_reset([u EXCEPT !.it = h.it]) : t \in Sorted(h.hr)}

\* Faulty variant: a range that was joined with the next is not put back.
hostset_insert_rangeLost(h, hr) ==
  LET n == hostrange_count(hr)
      i == SelectInSeq(h.hr, LAMBDA r : hostrange_cmp(hr, r) <= 0)
      j == hostrange_join(hr, h.hr[i])
  IN [new |-> n,
      list |-> IF i = 0 THEN [h EXCEPT !.hr = Append(@, hr), !.nhosts = @ + n]
               ELSE IF j.dups >= 0 THEN hostlist_delete_range(h, i - 1)
               ELSE hostlist_insert_range([h EXCEPT !.nhosts = @ + n], hr, i - 1)]

\* hostset_insert_range: the list afterwards and the count it returns. nhosts
\* loses what _attempt_range_join has already taken off once more.
hostset_insert_range(h, hr) ==
  LET n == hostrange_count(hr)
      i == SelectInSeq(h.hr, LAMBDA r : hostrange_cmp(hr, r) <= 0)
      j == hostrange_join(hr, h.hr[i])
      h1 == IF j.dups >= 0 THEN hostlist_delete_range(h, i - 1) ELSE h
      h2 == hostlist_insert_range(h1, j.range, i - 1)
      a == IF i > 1 THEN attempt_range_join(h2, i - 1) ELSE [dups |-> 0, list |-> h2]
      d == (IF j.dups > 0 THEN j.dups ELSE 0) + (IF a.dups > 0 THEN a.dups ELSE 0)
      e1 == [h EXCEPT !.hr = Append(@, hr), !.nhosts = @ + n]
      e == IF h.hr = <<>> THEN [dups |-> 0, list |-> e1] ELSE attempt_range_join(e1, Len(h.hr))
  IN IF i > 0 THEN [list |-> [a.list EXCEPT !.nhosts = @ + n - d], new |-> n - d]
     ELSE [list |-> e.list, new |-> n - (IF e.dups > 0 THEN e.dups ELSE 0)]

-----------------------------------------------------------------------------
(* The calls. With a hole in the array every one that walks it aborts.     *)

Whole(h) == \A i \in DOMAIN h.hr : h.hr[i] # Null

Usable == hl # Null /\ Whole(hl)

\* The bound on calls that add hosts: also on a count that has gone wrong (once
\* it is short they stop one host earlier) and on an iterator that inserts have
\* pushed beyond the end.
Room ==
  /\ hl.nhosts \in -1 .. MaxHosts
  /\ Total(hl.hr) < IF missed THEN MaxHosts - 1 ELSE MaxHosts
  /\ hl.it # Null => hl.it.idx <= MaxHosts

Init ==
  /\ hl = Null /\ set = FALSE /\ missed = FALSE
  /\ last = [op |-> "none", arg |-> Null, ret |-> Null]

hostlist_create(text) ==
  /\ hl = Null
  /\ hl' = Parsed(text)
  /\ set' = FALSE /\ missed' = FALSE
  /\ Did("create", text, Null)

hostset_create(text) ==
  /\ hl = Null
  /\ \/ Parsed(text) = Null /\ hl' = Null /\ set' = FALSE
     \/ Parsed(text) # Null /\ hl' \in uniq(Parsed(text)) /\ set' = TRUE
  /\ missed' = FALSE
  /\ Did("set_create", text, Null)

\* The caller goes on with a copy, which has no iterators.
hostlist_copy ==
  /\ Usable
  /\ hl' = [hl EXCEPT !.it = Null]
  /\ Did("copy", Null, Null)
  /\ UNCHANGED <<set, missed>>

hostlist_destroy ==
  /\ hl # Null
  /\ hl' = Null /\ set' = FALSE /\ missed' = FALSE
  /\ Did("destroy", Null, Null)

hostlist_push(text) ==
  /\ Usable /\ ~set /\ Room
  /\ LET new == Parsed(text) IN
     IF new = Null THEN Did("push", text, 0) /\ UNCHANGED hl
     ELSE /\ hl' = hostlist_push_list(hl, new.hr)
          /\ Did("push", text, new.nhosts)
  /\ UNCHANGED <<set, missed>>

hostlist_push_host(hn) ==
  /\ Usable /\ ~set /\ Room
  /\ hl' = hostlist_push_range(hl, RangeOfName(hn))
  /\ Did("push_host", hn, 1)
  /\ UNCHANGED <<set, missed>>

hostlist_pop ==
  /\ Usable
  /\ IF hl.nhosts <= 0 THEN Did("pop", Null, Null) /\ UNCHANGED hl
     ELSE LET hr == Last(hl.hr)
              rest == WithoutLast(hr)
              gone == hostrange_empty(rest)
          IN /\ hl' = [hl EXCEPT
                  !.nhosts = @ - 1,
                  !.hr = IF gone THEN Front(@) ELSE Append(Front(@), rest),
                  !.it = IF @ # Null /\ gone /\ @.idx = Len(hl.hr) - 1
                         THEN [@ EXCEPT !.at = FALSE] ELSE @]
             /\ Did("pop", Null, NameAt(hr, hr.hi))
  /\ UNCHANGED <<set, missed>>

hostlist_shift ==
  /\ Usable
  /\ IF hl.nhosts <= 0 THEN Did("shift", Null, Null) /\ UNCHANGED hl
     ELSE LET hr == Head(hl.hr)
              rest == WithoutFirst(hr)
              h1 == [hl EXCEPT !.nhosts = @ - 1, !.hr = ReplaceAt(@, 1, rest)]
          IN /\ hl' = IF hostrange_empty(rest) THEN hostlist_delete_range(h1, 0)
                      ELSE [h1 EXCEPT !.it = ShiftIterator(@)]
             /\ Did("shift", Null, NameAt(hr, hr.lo))
  /\ UNCHANGED <<set, missed>>

\* The last bracketed group goes; nranges falls by the ranges it has once they
\* are pushed together, so that joined ones leave NULLs behind.
hostlist_pop_range ==
  /\ Usable
  /\ LET s == hl.hr
         g == CHOOSE i \in 1 .. Len(s) :
                /\ \A k \in i .. Len(s) - 1 : hostrange_within_range(Last(s), s[k])
                /\ i > 1 => ~hostrange_within_range(Last(s), s[i - 1])
         tmp == hostlist_push_list(NewList, SubSeq(s, g, Len(s)))
     IN IF s = <<>> THEN Did("pop_range", Null, Null) /\ UNCHANGED hl
        ELSE /\ hl' = [hl EXCEPT
                  !.nhosts = @ - tmp.nhosts,
                  !.hr = SubSeq(s, 1, g - 1)
                         \o [k \in 1 .. Len(s) - g + 1 - Len(tmp.hr) |-> Null],
                  !.it = IF @ # Null /\ @.idx >= g - 1 THEN [@ EXCEPT !.at = FALSE] ELSE @]
             /\ Did("pop_range", Null, ranged_string(tmp.hr))
  /\ UNCHANGED <<set, missed>>

\* The first bracketed group goes. Iterators read hl->hr before it is shifted,
\* and freed ranges (Null here) stay in front when some were joined.
hostlist_shift_range ==
  /\ Usable
  /\ LET s == hl.hr
         e == BracketEnd(s, 1)
         tmp == hostlist_push_list(NewList, SubSeq(s, 1, e - 1))
         n == Len(tmp.hr)
     IN IF s = <<>> THEN Did("shift_range", Null, Null) /\ UNCHANGED hl
        ELSE /\ hl' = [hl EXCEPT
                  !.nhosts = @ - tmp.nhosts,
                  !.hr = [k \in 1 .. e - 1 - n |-> Null] \o SubSeq(s, e, Len(s)),
                  !.it = IF @ = Null THEN @
                         ELSE [@ EXCEPT !.at = FALSE,
                                        !.idx = IF @ >= e - 1 THEN @ - n ELSE @]]
             /\ Did("shift_range", Null, ranged_string(tmp.hr))
  /\ UNCHANGED <<set, missed>>

hostlist_delete(text) ==
  /\ Usable
  /\ LET new == Parsed(text)
         after == FoldLeft(delete_host, hl, Reverse(Expand(new.hr)))
     IN IF new = Null THEN Did("delete", text, 0) /\ UNCHANGED hl
        ELSE /\ hl' = after
             /\ Did("delete", text, hl.nhosts - after.nhosts)
  /\ UNCHANGED <<set, missed>>

hostlist_delete_host(hn) ==
  /\ Usable
  /\ hl' = delete_host(hl, hn)
  /\ Did("delete_host", hn, FoundAt(hl.hr, hn) >= 0)
  /\ UNCHANGED <<set, missed>>

hostlist_nth(n) ==
  /\ Usable
  /\ Did("nth", n, IF n < Total(hl.hr) THEN nth(hl.hr, n) ELSE Null)
  /\ UNCHANGED <<hl, set, missed>>

\* The assertion lets n = nhosts pass, and there is no error to return.
hostlist_delete_nth(n) ==
  /\ Usable /\ ~set
  /\ n <= hl.nhosts
  /\ hl' = delete_nth(hl, n)
  /\ missed' = (missed \/ n >= Total(hl.hr))
  /\ Did("delete_nth", n, 1)
  /\ UNCHANGED set

hostlist_find(hn) ==
  /\ Usable
  /\ hl' = Searched(hl, hn)
  /\ Did("find", hn, FoundAt(hl.hr, hn))
  /\ UNCHANGED <<set, missed>>

hostlist_sort ==
  /\ Usable /\ ~set
  /\ \E s \in sort(hl.hr) :
       hl' = IF Len(hl.hr) <= 1 THEN hl ELSE hostlist_iterator_reset([hl EXCEPT !.hr = s])
  /\ Did("sort", Null, Null)
  /\ UNCHANGED <<set, missed>>

hostlist_uniq ==
  /\ Usable /\ ~set
  /\ hl' \in uniq(hl)
  /\ Did("uniq", Null, Null)
  /\ UNCHANGED <<set, missed>>

hostset_insert(text) ==
  /\ Usable /\ set /\ Room
  /\ LET insert(acc, hr) == LET r == hostset_insert_range(acc.list, hr)
                            IN [list |-> r.list, new |-> acc.new + r.new]
     IN IF Parsed(text) = Null THEN Did("insert", text, 0) /\ UNCHANGED hl
        ELSE \E u \in uniq(Parsed(text)) :
               LET r == FoldLeft(insert, [list |-> hl, new |-> 0], u.hr)
               IN hl' = r.list /\ Did("insert", text, r.new)
  /\ UNCHANGED <<set, missed>>

\* The searches adjust widths, as hostlist_find does.
hostset_within(text) ==
  /\ Usable /\ set
  /\ LET names == Expand(Parsed(text).hr) IN
     IF Parsed(text) = Null THEN Did("within", text, FALSE) /\ UNCHANGED hl
     ELSE /\ hl' = FoldLeft(Searched, hl, Reverse(names))
          /\ Did("within", text, \A k \in DOMAIN names : RangeWith(hl.hr, names[k]) # 0)
  /\ UNCHANGED <<set, missed>>

hostlist_iterator_create ==
  /\ Usable
  /\ hl.it = Null
  /\ hl' = [hl EXCEPT !.it = IteratorAt(0, -1, hl.hr)]
  /\ Did("iterator_create", Null, Null)
  /\ UNCHANGED <<set, missed>>

hostlist_iterator_destroy ==
  /\ Usable
  /\ hl.it # Null
  /\ hl' = [hl EXCEPT !.it = Null]
  /\ Did("iterator_destroy", Null, Null)
  /\ UNCHANGED <<set, missed>>

ResetIterator ==
  /\ Usable
  /\ hl.it # Null
  /\ hl' = hostlist_iterator_reset(hl)
  /\ Did("iterator_reset", Null, Null)
  /\ UNCHANGED <<set, missed>>

AtEnd(h) == h.it.idx > Len(h.hr) - 1

\* The iterator's range is read without a look at whether it is still there.
Bound(h) == h.it # Null => AtEnd(h) \/ h.it.at

iterator_advance(h) ==
  LET it == h.it
      hr == h.hr[it.idx + 1]
  IN IF AtEnd(h) THEN it
     ELSE IF it.depth + 1 > hr.hi - hr.lo THEN IteratorAt(it.idx + 1, 0, h.hr)
     ELSE [it EXCEPT !.depth = @ + 1]

hostlist_next ==
  /\ Usable
  /\ hl.it # Null /\ Bound(hl)
  /\ hl' = [hl EXCEPT !.it = iterator_advance(hl)]
  /\ LET hr == hl.hr[hl'.it.idx + 1] IN
     Did("next", Null, IF AtEnd(hl') THEN Null ELSE NameAt(hr, hr.lo + hl'.it.depth))
  /\ UNCHANGED <<set, missed>>

iterator_advance_range(h) ==
  LET it == h.it IN
  IF it.depth + 1 <= 0 THEN [it EXCEPT !.depth = 0]
  ELSE IteratorAt(IF AtEnd(h) THEN it.idx + 1 ELSE BracketEnd(h.hr, it.idx + 1) - 1, 0, h.hr)

hostlist_next_range ==
  /\ Usable
  /\ hl.it # Null /\ Bound(hl)
  /\ hl.it.idx <= Len(hl.hr)
  /\ hl' = [hl EXCEPT !.it = iterator_advance_range(hl)]
  /\ Did("next_range", Null,
         IF AtEnd(hl') THEN Null ELSE get_bracketed_list(hl.hr, hl'.it.idx + 1))
  /\ UNCHANGED <<set, missed>>

\* Asserts that the iterator is at a host of its range.
hostlist_remove ==
  /\ Usable
  /\ hl.it # Null /\ ~AtEnd(hl) /\ Bound(hl)
  /\ hl.it.depth \in 0 .. hostrange_count(hl.hr[hl.it.idx + 1]) - 1
  /\ LET it == hl.it
         hr == hl.hr[it.idx + 1]
         parts == hostrange_delete_host(hr, hr.lo + it.depth)
         h1 == [hl EXCEPT !.hr = ReplaceAt(@, it.idx + 1, parts[1]), !.nhosts = @ - 1]
         h2 == hostlist_insert_range(h1, parts[2], it.idx + 1)
     IN hl' = IF Len(parts) = 2 THEN [h2 EXCEPT !.it = IteratorAt(it.idx + 1, -1, h2.hr)]
              ELSE IF hostrange_empty(parts[1]) THEN hostlist_delete_range(h1, it.idx)
              ELSE [h1 EXCEPT !.it = [it EXCEPT !.depth = @ - 1]]
  /\ Did("remove", Null, 1)
  /\ UNCHANGED <<set, missed>>

Next ==
  \/ \E t \in Texts :
       \/ hostlist_create(t) \/ hostset_create(t)
       \/ hostlist_push(t) \/ hostlist_delete(t)
       \/ hostset_insert(t) \/ hostset_within(t)
  \/ \E hn \in Hosts :
       hostlist_push_host(hn) \/ hostlist_delete_host(hn) \/ hostlist_find(hn)
  \/ \E n \in 0 .. MaxHosts : hostlist_nth(n) \/ hostlist_delete_nth(n)
  \/ hostlist_copy \/ hostlist_destroy
  \/ hostlist_pop \/ hostlist_shift
  \/ hostlist_pop_range \/ hostlist_shift_range
  \/ hostlist_sort \/ hostlist_uniq
  \/ hostlist_iterator_create \/ hostlist_iterator_destroy \/ ResetIterator
  \/ hostlist_next \/ hostlist_next_range \/ hostlist_remove

Spec == Init /\ [][Next]_vars

-----------------------------------------------------------------------------
(* What callers may rely on.                                               *)

\* The hosts a string names, read off the string.
TextHosts(text) ==
  LET names(tok, r) ==
        [j \in 1 .. r.hi - r.lo + 1 |->
           LET n == r.lo + j - 1 IN
           IF tok.kind = "suffixed"
           THEN [pfx |-> SuffixedPrefix(tok.pfx, n, r.width), num |-> 0, len |-> 0]
           ELSE [pfx |-> tok.pfx, num |-> n,
                 len |-> IF r.width > Digits(n) THEN r.width ELSE Digits(n)]]
  IN FlattenSeq([k \in DOMAIN text |->
       LET tok == text[k] IN
       IF tok.kind = "host" THEN <<tok.name>>
       ELSE FlattenSeq([i \in DOMAIN tok.ranges |-> names(tok, tok.ranges[i])])])

Good(text) == \A k \in DOMAIN text : Parses(text[k])

\* nhosts of a hostlist, which hostlist_count returns and which decides whether
\* pop and shift return anything, is the number of hosts its ranges stand for,
\* whatever was pushed, split, joined or removed before; it is one less once
\* hostlist_delete_nth has deleted nothing past the last host, and never falls
\* further behind. (Not so for a set, where hostset_insert_range takes the hosts
\* it drops off twice.)
CountRight ==
  Usable /\ ~set => hl.nhosts = Len(Expand(hl.hr)) - (IF missed THEN 1 ELSE 0)

\* pop and shift find a host to return: a list whose count is one short keeps
\* its last host from them.
Counted(names) == names # <<>> /\ (missed => Len(names) > 1)

\* What each call that adds or removes hosts makes of the sequence of names.
EndsStep(old, new, op, a, r) ==
  /\ op = "push" => new = old \o (IF Good(a) THEN TextHosts(a) ELSE <<>>)
  /\ op = "push_host" => new = Append(old, a)
  /\ op = "pop" /\ ~set => IF Counted(old) THEN r = Last(old) /\ new = Front(old)
                                           ELSE r = Null /\ new = old
  /\ op = "shift" /\ ~set => IF Counted(old) THEN r = Head(old) /\ new = Tail(old)
                                             ELSE r = Null /\ new = old

DeleteStep(old, new, op, a, r) ==
  /\ op = "delete_host" => new = RemoveFirst(old, a) /\ r = Contains(old, a)
  /\ op = "delete" /\ Good(a) => new = FoldLeft(RemoveFirst, old, Reverse(TextHosts(a)))
  /\ op = "delete_nth" => r = 1 /\ new = IF a < Len(old) THEN RemoveAt(old, a + 1) ELSE old
  /\ op = "remove" =>
       new = RemoveAt(old, Total(SubSeq(hl.hr, 1, hl.it.idx)) + hl.it.depth + 1)

LookStep(old, new, op, a, r) ==
  /\ op = "find" => new = old /\ r = SelectInSeq(old, LAMBDA x : x = a) - 1
  /\ op = "nth" => new = old /\ r = IF a < Len(old) THEN old[a + 1] ELSE Null
  /\ op = "within" => /\ new = old
                      /\ r = (Good(a) /\ ToSet(TextHosts(a)) \subseteq ToSet(old))
  /\ op \in {"copy", "next", "next_range", "iterator_create", "iterator_reset"} => new = old

\* A group that is taken off in one piece is returned and nothing else is, as
\* long as no two ranges of it join when they are collected.
GroupStep(old, new, op, r) ==
  /\ op = "pop_range" /\ r # Null => old = new \o TextHosts(r)
  /\ op = "shift_range" /\ r # Null => old = TextHosts(r) \o new

\* Through splits, joins and width adjustments of ranges the list behaves as
\* the sequence of host names that hostlist.h describes: every call returns and
\* leaves what the same call on that sequence would; a search finds a host by
\* its exact name, leading zeros included. (hostlist_delete_nth past the last
\* host returns 1 all the same, and pop and shift then leave one host behind.)
ActsAsSequence ==
  [][Usable /\ hl' # Null /\ Whole(hl')
     => LET old == Expand(hl.hr)
            new == Expand(hl'.hr)
        IN /\ EndsStep(old, new, last'.op, last'.arg, last'.ret)
           /\ DeleteStep(old, new, last'.op, last'.arg, last'.ret)
           /\ LookStep(old, new, last'.op, last'.arg, last'.ret)
           /\ GroupStep(old, new, last'.op, last'.ret)]_vars

\* No name has leading zeros.
Unpadded(names) == \A k \in DOMAIN names : names[k].len \in {0, Digits(names[k].num)}

\* hostlist_sort has each host as often afterwards as before, although it cuts
\* overlapping ranges to pieces and joins what is left, and without leading
\* zeros it never trips over the order that hostrange_intersect asserts of
\* neighbours. (With them it may: f[9-10],f09,f[8-10] aborts.)
SortKeepsHosts ==
  [][last'.op = "sort"
     => LET old == Expand(hl.hr) IN
        /\ Whole(hl') => ToBag(Expand(hl'.hr)) = ToBag(old)
        /\ Unpadded(old) => Whole(hl')]_vars

\* hostlist_uniq keeps every host; if no name has leading zeros it keeps it
\* once. (In f[8-12],f05,f10 the name between hides f10 from its twin.)
UniqKeepsOne ==
  [][last'.op = "uniq"
     => LET old == Expand(hl.hr)
            new == Expand(hl'.hr)
        IN /\ ToSet(new) = ToSet(old)
           /\ Unpadded(old) => IsInjective(new)]_vars

\* Whatever is inserted into a hostset, its members are those it had and the
\* new ones.
InsertAddsMembers ==
  [][last'.op = "insert" /\ Good(last'.arg)
     => ToSet(Expand(hl'.hr)) = ToSet(Expand(hl.hr)) \cup ToSet(TextHosts(last'.arg))]_vars

\* The hosts the iterator has still to return.
Rest(h) ==
  IF AtEnd(h) THEN <<>>
  ELSE LET n == hostrange_count(h.hr[h.it.idx + 1])
           seen == IF h.it.depth < n THEN h.it.depth + 1 ELSE n
           before == Total(SubSeq(h.hr, 1, h.it.idx)) + seen
       IN SubSeq(Expand(h.hr), before + 1, Len(Expand(h.hr)))

\* An iterator returns the hosts of the list in order, each once: hosts shifted
\* off or pushed while it is under way, a search, and hosts removed through it
\* leave what it has still to return alone; a sort starts it anew. (Removing the
\* last host of a range sends it back into the range before, if that has more
\* than one host; deletions by name do not tell it.)
IteratorWalk ==
  [][/\ Usable /\ hl' # Null /\ Whole(hl')
     /\ hl.it # Null /\ hl'.it # Null /\ Bound(hl)
     => LET rest == Rest(hl)
            next == Rest(hl')
            all == Expand(hl.hr)
            it == hl.it
        IN /\ last'.op = "next" =>
                IF rest = <<>> THEN last'.ret = Null /\ next = <<>>
                ELSE last'.ret = Head(rest) /\ next = Tail(rest)
           /\ last'.op = "shift" /\ ~set =>
                next = IF Counted(all) /\ rest = all THEN Tail(all) ELSE rest
           /\ last'.op \in {"push", "push_host"} /\ rest # <<>> =>
                next = rest \o SubSeq(Expand(hl'.hr), Len(all) + 1, Len(Expand(hl'.hr)))
           /\ last'.op \in {"find", "within"} => next = rest
           /\ last'.op = "iterator_reset" => next = all
           /\ last'.op = "sort" /\ Len(hl.hr) > 1 => next = Expand(hl'.hr)
           /\ last'.op = "remove" /\ (it.idx > 0 => hostrange_count(hl.hr[it.idx]) = 1)
                => next = rest]_vars

\* hostlist_next reads the iterator's own pointer to a range. Only five calls can
\* leave it pointing at no range, or a freed one, of the list: a push, when the
\* iterator is at the end, an insert, and pop, pop_range and shift_range. Sort,
\* uniq, deletions and removal through the iterator all put it right.
IteratorBound ==
  [][/\ Usable /\ hl' # Null /\ hl'.it # Null /\ Whole(hl')
     /\ Bound(hl) /\ ~Bound(hl')
     => \/ last'.op \in {"push", "push_host"} /\ hl.it.idx >= Len(hl.hr)
        \/ last'.op \in {"insert", "pop", "pop_range", "shift_range"}]_vars

\* hostlist_ranged_string and hostlist_deranged_string write what
\* hostlist_create reads back as the same hosts, padding included, unless the
\* list holds more than brackets may.
StringsReadBack ==
  Usable =>
    LET hosts == Expand(hl.hr)
        ranged == ranged_string(hl.hr)
    IN /\ Expand(Parsed(deranged_string(hl.hr)).hr) = hosts
       /\ Good(ranged) => Expand(Parsed(ranged).hr) = hosts

=============================================================================
