------------------------------ MODULE Quarters ------------------------------
(* _quarterize (providers/sec.py): the quarters of a company out of what it  *)
(* filed - three-month facts, facts of the year to date and full years.      *)
(* Nobody files the last quarter of a year, and some statements are filed    *)
(* year-to-date only.  Time is counted in quarters; a fact is found by the   *)
(* first and the last quarter of its span, and only its newest filing counts.*)
EXTENDS Integers, FiniteSets, FiniteSetsExt, Functions, TLC

CONSTANTS
  Quarter,     \* numbered
  Begins,      \* those that begin a fiscal year
  Worth        \* per version of the books and quarter, its amount

VARIABLES
  books,       \* the version of the books: a restatement begins another
  facts        \* per filed span, the version of its newest filing

vars == <<books, facts>>

Init == books = 1 /\ facts = [s \in {} |-> 0]

\* A quarter, or the year to date.
Span == {<<q, q>> : q \in Quarter}
          \cup {s \in Begins \X Quarter : s[1] < s[2] /\ s[2] <= s[1] + 3}
File(span) == /\ facts' = (span :> books) @@ facts
              /\ UNCHANGED books
Restate == /\ books + 1 \in DOMAIN Worth /\ books' = books + 1
           /\ UNCHANGED facts
Next == Restate \/ \E span \in Span : File(span)
Spec == Init /\ [][Next]_vars

----------------------------------------------------------------------------
(* _quarterize. *)

Amount(version, first, last) == MapThenSumSet(LAMBDA q : Worth[version][q], first .. last)
Val(span) == Amount(facts[span], span[1], span[2])
Filed == {s[1] : s \in {x \in DOMAIN facts : x[1] = x[2]}}

\* Slip: any span that ends a quarter earlier.
PriorAny(span) == {s \in DOMAIN facts : s[2] = span[2] - 1}
\* "difference spans that share a fiscal-year start".
Prior(span) == {s \in DOMAIN facts : s[1] = span[1] /\ s[2] = span[2] - 1}

\* The longer spans that give their last quarter; of several the shortest does.
Longer(q) == {s \in DOMAIN facts : s[2] = q /\ s[1] < q /\ Prior(s) # {}}
Differenced == {q \in Quarter \ Filed : Longer(q) # {}}
Difference(q) ==
  LET span == CHOOSE s \in Longer(q) : \A o \in Longer(q) : o[1] <= s[1]
  IN Val(span) - Val(CHOOSE s \in Prior(span) : TRUE)
Found == [q \in Filed \cup Differenced |->
            IF q \in Filed THEN Val(<<q, q>>) ELSE Difference(q)]

\* Slip: a window of a whole year, with the quarter before it.
WindowYear(q) == q - 4 .. q - 1
\* The quarters that end less than 340 days before.
Window(q) == q - 3 .. q - 1

\* "Last resort for Q4 when the nine-month YTD was never tagged."
LastResort == {q \in Quarter \ DOMAIN Found :
                 <<q - 3, q>> \in DOMAIN facts /\ Cardinality(Window(q) \cap DOMAIN Found) = 3}
Quarters == [q \in LastResort |->
               Val(<<q - 3, q>>) - MapThenSumSet(LAMBDA o : Found[o], Window(q) \cap DOMAIN Found)] @@ Found

----------------------------------------------------------------------------
(* Properties. *)

\* What is filed are spans of the company's, from books there were.
TypeOK == DOMAIN facts \subseteq Span /\ Range(facts) \subseteq 1 .. books

\* Whatever subset of its facts a company tags, and in whatever order: the
\* quarters of a year that is filed from one set of books are the company's,
\* none is lost of a year filed to date, and the fourth is recovered from the
\* year and the three others.  A year of which part is restated has quarters
\* of no books.
OfYear(b) == {s \in DOMAIN facts : b <= s[1] /\ s[2] <= b + 3}
QuartersRight ==
  \A b \in Begins, v \in 1 .. books :
    (\A s \in OfYear(b) : facts[s] = v) =>
      /\ \A q \in DOMAIN Quarters \cap (b .. b + 3) : Quarters[q] = Worth[v][q]
      /\ (\A q \in b .. b + 3 : <<b, q>> \in DOMAIN facts) => b .. b + 3 \subseteq DOMAIN Quarters
      /\ (<<b, b + 3>> \in DOMAIN facts /\ b .. b + 2 \subseteq Filed) => b + 3 \in DOMAIN Quarters
=============================================================================
