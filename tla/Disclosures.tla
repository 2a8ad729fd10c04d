---------------------------- MODULE Disclosures ----------------------------
(* thesis/collapse.py on the filings of one issuer: the tranches of an order *)
(* become one row, affiliates who report one block become one row, and a     *)
(* standing order worked over near days becomes one row.  A filing has a     *)
(* number, its place in the bulk data.                                       *)
EXTENDS Integers, Sequences, FiniteSets, FiniteSetsExt, SequencesExt

CONSTANTS
  Filing,      \* the filings there can be: no, owner, form, senior, day, shares, price
  MaxFilings,  \* bound: of which so many are in the data
  MaxGap, MinLegs, Similarity  \* one part in Similarity is near enough

VARIABLES
  raw,         \* the filings
  kept,        \* work: the rows left by multi_tranche and affiliates, sorted
  run,         \* the places in work of the run that the loop is in
  program,     \* per finished program its places
  next         \* the place the loop is at; 0 before it

vars == <<raw, kept, run, program, next>>

Init == /\ raw \in UNION {kSubset(n, Filing) : n \in 1 .. MaxFilings}
        /\ kept = <<>> /\ run = <<>> /\ program = {} /\ next = 0

Total(rows) == MapThenSumSet(LAMBDA f : f.shares * f.price, rows)
Bought(rows) == MapThenSumSet(LAMBDA f : f.shares, rows)

\* Slip: an owner's orders of one day are one, whatever they are held in.
OneOrderAnyForm(f, g) == f.owner = g.owner /\ f.day = g.day
\* multi_tranche: the filings of one owner, form and day are one order.
OneOrder(f, g) == f.owner = g.owner /\ f.form = g.form /\ f.day = g.day
Tranches == {{g \in raw : OneOrder(f, g)} : f \in raw}
Ordered(t) == LET first == CHOOSE f \in t : \A g \in t : f.no <= g.no
              IN [no |-> first.no, owner |-> first.owner, day |-> first.day,
                  senior |-> Max({f.senior : f \in t}), shares |-> Bought(t), value |-> Total(t)]

\* Slip: the shares alone make a block.
OneBlockAnyPrice(x, y) == x.day = y.day /\ x.shares = y.shares
\* affiliates: one day, as many shares, at one price.
OneBlock(x, y) == x.day = y.day /\ x.shares = y.shares /\ x.value = y.value
Blocks == LET orders == {Ordered(t) : t \in Tranches}
          IN {{y \in orders : OneBlock(x, y)} : x \in orders}
\* The most senior filer's row is kept, of equals the first.
Kept(block) == CHOOSE x \in block : \A y \in block :
                 x.senior > y.senior \/ (x.senior = y.senior /\ x.no <= y.no)

\* By owner and day; where both agree, as affiliates left them.
Before(x, y) ==
  \/ x.owner < y.owner
  \/ x.owner = y.owner /\ x.day < y.day
  \/ x.owner = y.owner /\ x.day = y.day /\ x.shares < y.shares
  \/ x.owner = y.owner /\ x.day = y.day /\ x.shares = y.shares /\ x.value < y.value

Fold == /\ next = 0
        /\ kept' = SetToSortSeq({Kept(block) : block \in Blocks}, Before)
        /\ next' = 1
        /\ UNCHANGED <<raw, run, program>>

----------------------------------------------------------------------------
(* programs, one row of the loop over an owner's rows. *)

Distance(a, b) == IF a < b THEN b - a ELSE a - b
Near(x, y) == Similarity * Distance(x.value, y.value) <= Max({x.value, 1})
\* Slip: near is measured from the start of the run.
ContinuesFromStart(x) ==
  /\ run # <<>> /\ kept[run[1]].owner = x.owner
  /\ x.day - kept[Last(run)].day \in 1 .. MaxGap /\ Near(kept[run[1]], x)
Continues(x) ==
  /\ run # <<>> /\ kept[Last(run)].owner = x.owner
  /\ x.day - kept[Last(run)].day \in 1 .. MaxGap /\ Near(kept[Last(run)], x)

Finished == IF Len(run) >= MinLegs THEN program \cup {Range(run)} ELSE program

\* The next row, and after the last one the end.
Leg == /\ next \in DOMAIN kept
       /\ next' = next + 1
       /\ IF Continues(kept[next])
            THEN run' = Append(run, next) /\ program' = program
            ELSE run' = <<next>> /\ program' = Finished
       /\ UNCHANGED <<raw, kept>>
End == /\ next = Len(kept) + 1 /\ next' = next + 1
       /\ run' = <<>> /\ program' = Finished
       /\ UNCHANGED <<raw, kept>>

Next == Fold \/ Leg \/ End
Spec == Init /\ [][Next]_vars

----------------------------------------------------------------------------
(* Properties. *)

\* The loop is in the rows, and no row is in two programs.
TypeOK == /\ next \in 0 .. Len(kept) + 2 /\ Range(run) \subseteq DOMAIN kept
          /\ \A p, o \in program : p # o => p \cap o = {}

\* "One decision": a row follows another in a program exactly if the two are
\* neighbours among their owner's rows, on near days and of near value, and a
\* program is a longest chain of such, of MinLegs or more.
Follows(i, j) ==
  /\ j = i + 1 /\ kept[i].owner = kept[j].owner
  /\ kept[j].day > kept[i].day /\ kept[j].day <= kept[i].day + MaxGap
  /\ Similarity * Distance(kept[i].value, kept[j].value) <= Max({kept[i].value, 1})
Chained(i, j) == \A k \in i .. j - 1 : Follows(k, k + 1)
Chains == {{j \in DOMAIN kept : Chained(i, j) /\ Chained(j, i)} : i \in DOMAIN kept}

\* Each share that was bought is counted once: a block that several filed is
\* one row, of a filer at least as senior as any of them, no order is lost and
\* none is made up; and the programs are the chains, the longest there are.
DecisionsCounted ==
  next > Len(kept) + 1 =>
    /\ program = {c \in Chains : Cardinality(c) >= MinLegs}
    /\ \A i, j \in DOMAIN kept : OneBlock(kept[i], kept[j]) => i = j
    /\ \A f \in raw :
         LET order == {g \in raw : g.owner = f.owner /\ g.form = f.form /\ g.day = f.day}
         IN \E x \in Range(kept) : /\ x.day = f.day /\ x.senior >= f.senior
                                   /\ x.shares = Bought(order) /\ x.value = Total(order)
    /\ \A x \in Range(kept) : \E f \in raw : f.no = x.no /\ f.owner = x.owner /\ f.day = x.day
=============================================================================
