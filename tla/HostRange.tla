----------------------------- MODULE HostRange ------------------------------
(***************************************************************************)
(* The host names and host ranges of lib/hostlist.c, as pure functions. A  *)
(* prefix is a natural number: its order stands for strcmp, all the code   *)
(* asks of it. A name is its prefix, the value of its numeric suffix and   *)
(* the number of digits it is written with (0: no suffix that counts).     *)
(***************************************************************************)
EXTENDS Integers, FiniteSets, Sequences

\* (unsigned long) -1, far above every suffix; 2^64 - 1 in the code.
ULongMax == 2147483647

Dec(n) == IF n = 0 THEN ULongMax ELSE n - 1

HostNames == [pfx : Nat, num : Nat, len : Nat]
HostRanges == [pfx : Nat, lo : Nat, hi : Nat, width : Nat, single : BOOLEAN]

-----------------------------------------------------------------------------
(* Zero padding.                                                           *)

Powers == <<10, 100, 1000, 10000, 100000, 1000000, 10000000, 100000000>>

Digits(n) == 1 + Cardinality({k \in 1 .. 8 : Powers[k] <= n})

zero_padded(num, width) == IF width > Digits(num) THEN width - Digits(num) ELSE 0

\* Faulty variant: the paddings are not looked at.
width_equivAlways(n, wn, m, wm) == TRUE

width_equiv(n, wn, m, wm) ==
  \/ zero_padded(n, wn) = zero_padded(n, wm)
  \/ zero_padded(m, wm) = zero_padded(m, wn)

\* The width that both formats have once they were found equivalent.
CommonWidth(n, wn, m, wm) ==
  IF zero_padded(n, wn) # zero_padded(n, wm) THEN wn ELSE wm

-----------------------------------------------------------------------------
(* Ranges.                                                                 *)

hostrange_create_single(p) ==
  [pfx |-> p, lo |-> 0, hi |-> 0, width |-> 0, single |-> TRUE]

hostrange_create(p, lo, hi, w) ==
  [pfx |-> p, lo |-> lo, hi |-> hi, width |-> w, single |-> FALSE]

\* The range of one host that hostlist_push_host makes of a name.
RangeOfName(hn) ==
  IF hn.len = 0 THEN hostrange_create_single(hn.pfx)
  ELSE hostrange_create(hn.pfx, hn.num, hn.num, hn.len)

hostrange_count(hr) == IF hr.single THEN 1 ELSE hr.hi - hr.lo + 1

hostrange_empty(hr) == hr.hi < hr.lo \/ hr.hi = ULongMax

\* The name that "%s%0*lu" prints for the suffix n of range hr.
NameAt(hr, n) ==
  IF hr.single THEN [pfx |-> hr.pfx, num |-> 0, len |-> 0]
  ELSE [pfx |-> hr.pfx, num |-> n, len |-> Digits(n) + zero_padded(n, hr.width)]

\* The hosts of a range, in order.
HostsOf(hr) == [k \in 1 .. hostrange_count(hr) |-> NameAt(hr, hr.lo + k - 1)]

hostrange_prefix_cmp(h1, h2) ==
  IF h1.pfx # h2.pfx THEN h1.pfx - h2.pfx
  ELSE (IF h2.single THEN 1 ELSE 0) - (IF h1.single THEN 1 ELSE 0)

hostrange_within_range(h1, h2) ==
  hostrange_prefix_cmp(h1, h2) = 0 /\ ~h1.single /\ ~h2.single

hostrange_width_combine(h0, h1) == width_equiv(h0.lo, h0.width, h1.lo, h1.width)

\* The width h0 is left with when it combines with h1.
CombinedWidth(h0, h1) == CommonWidth(h0.lo, h0.width, h1.lo, h1.width)

hostrange_cmp(h1, h2) ==
  IF hostrange_prefix_cmp(h1, h2) # 0 THEN hostrange_prefix_cmp(h1, h2)
  ELSE IF hostrange_width_combine(h1, h2) THEN h1.lo - h2.lo
  ELSE h1.width - h2.width

\* What is left of a range without its host n: one range, possibly empty, or
\* the two around n.
hostrange_delete_host(hr, n) ==
  CASE n = hr.lo -> <<[hr EXCEPT !.lo = @ + 1]>>
    [] n # hr.lo /\ n = hr.hi -> <<[hr EXCEPT !.hi = @ - 1]>>
    [] OTHER -> <<[hr EXCEPT !.hi = n - 1], [hr EXCEPT !.lo = n + 1]>>

\* hostrange_pop and hostrange_shift without the name they return.
WithoutLast(hr) == IF hr.single THEN [hr EXCEPT !.lo = @ + 1] ELSE [hr EXCEPT !.hi = Dec(@)]
WithoutFirst(hr) == [hr EXCEPT !.lo = @ + 1]

\* h2 is coalesced into h1 unless dups is -1; range is what h1 becomes.
hostrange_join(h1, h2) ==
  LET h == [h1 EXCEPT !.width = CombinedWidth(h1, h2)] IN
  IF hostrange_prefix_cmp(h1, h2) # 0 \/ ~hostrange_width_combine(h1, h2)
  THEN [dups |-> -1, range |-> h1]
  ELSE IF h1.single THEN [dups |-> 1, range |-> h]
  ELSE IF h1.hi = Dec(h2.lo) THEN [dups |-> 0, range |-> [h EXCEPT !.hi = h2.hi]]
  ELSE IF h1.hi < h2.lo THEN [dups |-> -1, range |-> h]
  ELSE IF h1.hi < h2.hi
       THEN [dups |-> h1.hi - h2.lo + 1, range |-> [h EXCEPT !.hi = h2.hi]]
  ELSE [dups |-> hostrange_count(h2), range |-> h]

\* Two ranges overlap in more than the end of the first.
hostrange_intersects(h1, h2) ==
  /\ ~h1.single /\ ~h2.single
  /\ hostrange_prefix_cmp(h1, h2) = 0
  /\ h1.hi > h2.lo
  /\ hostrange_width_combine(h1, h2)

hostrange_hn_within(hr, hn) ==
  IF hr.single THEN hn.len = 0 /\ hn.pfx = hr.pfx
  ELSE /\ hn.len # 0 /\ hn.pfx = hr.pfx
       /\ hn.num \in hr.lo .. hr.hi
       /\ width_equiv(hr.lo, hr.width, hn.num, hn.len)

\* A search that finds hn in hr adjusts the width of hr.
Adjusted(hr, hn) ==
  IF hr.single THEN hr
  ELSE [hr EXCEPT !.width = CommonWidth(hr.lo, hr.width, hn.num, hn.len)]

=============================================================================
