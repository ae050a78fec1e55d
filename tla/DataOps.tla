------------------------------ MODULE DataOps ------------------------------
(***************************************************************************)
(* The operators on sets and sequences that the components share.          *)
(***************************************************************************)
EXTENDS Integers, FiniteSets, Sequences

Sets == INSTANCE FiniteSetsExt

\* The sum of the values of a function at the members of a set.
SumOver(f, S) == Sets!MapThenSumSet(LAMBDA x : f[x], S)

\* The elements of a sequence at some of its places, in their order.  (It is
\* SelectSeq as the loops of the code have it, for SelectSeq itself is a symbol
\* without a definition to the provers.)
Select(s, places) ==
    LET kept[i \in 0 .. Len(s)] ==
            IF i = 0 THEN <<>>
            ELSE IF i \in places THEN Append(kept[i - 1], s[i])
            ELSE kept[i - 1]
    IN  kept[Len(s)]

\* The members of a finite set of natural numbers, in their order.
InOrder(S) ==
    Select([n \in 1 .. Sets!Max(S \cup {0}) + 1 |-> n - 1], {i + 1 : i \in S})
=============================================================================
