--------------------------- MODULE ListingsProofs ---------------------------
(***************************************************************************)
(* Facts about the answer of a SELECT and about working it off, for the    *)
(* proofs of the loops that work in batches.                               *)
(***************************************************************************)
EXTENDS Listings, FiniteSetTheorems, TLAPS

\* An answer consists of rows the WHERE clause lets through, at most n, in order.
LEMMA AnswersAreRows ==
  ASSUME NEW s, NEW where, NEW n \in Nat, NEW a \in Answers(s, where, n)
  PROVE  /\ a \in Seq(Elements(s) \cap where) /\ Len(a) <= n
         /\ \A i, k \in 1..Len(a) : i < k => Before(s, a[i], a[k])
<1>1. PICK m \in 0..n : a \in [1..m -> Elements(s) \cap where]
  BY DEF Answers
<1>2. a \in Seq(Elements(s) \cap where) /\ Len(a) = m
  BY <1>1
<1>3. QED
  BY <1>1, <1>2 DEF Answers

\* What is left of a batch was in it, one place further on.
LEMMA TailElements ==
  ASSUME NEW S, NEW s \in Seq(S), s # <<>>
  PROVE  /\ Tail(s) \in Seq(S) /\ Len(Tail(s)) = Len(s) - 1
         /\ Head(s) \in Elements(s) /\ Elements(Tail(s)) \subseteq Elements(s)
         /\ \A i \in 1..Len(Tail(s)) : Tail(s)[i] = s[i + 1]
  BY DEF Elements

\* A new row comes last.
LEMMA AppendElements ==
  ASSUME NEW S, NEW s \in Seq(S), NEW x \in S
  PROVE  /\ Append(s, x) \in Seq(S) /\ Len(Append(s, x)) = Len(s) + 1
         /\ Append(s, x)[Len(s) + 1] = x /\ \A i \in 1..Len(s) : Append(s, x)[i] = s[i]
  OBVIOUS

\* The rows of a table after an INSERT.
LEMMA AppendedElements ==
  ASSUME NEW S, NEW s \in Seq(S), NEW x \in S
  PROVE  Elements(Append(s, x)) = Elements(s) \cup {x}
<1>1. Len(s) \in Nat
  OBVIOUS
<1>2. \A i \in 1..Len(s) + 1 : i \in 1..Len(s) \/ i = Len(s) + 1
  BY <1>1
<1>3. QED
  BY <1>1, <1>2, AppendElements DEF Elements

\* A list is empty exactly if it has no rows.
LEMMA EmptyByLength == ASSUME NEW S, NEW s \in Seq(S) PROVE s = <<>> <=> Len(s) = 0
  OBVIOUS

\* The elements of a list of S are in S.
LEMMA ElementsOf == ASSUME NEW S, NEW s \in Seq(S) PROVE Elements(s) \subseteq S
  BY DEF Elements

\* The empty list has no elements.
LEMMA NoElements == Elements(<<>>) = {}
  BY DEF Elements
=============================================================================
