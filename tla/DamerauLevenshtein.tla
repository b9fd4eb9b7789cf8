--------------------------- MODULE DamerauLevenshtein --------------------------
(* util::DamerauLevenshteinDistance(), and what it is checked against.     *)
EXTENDS Naturals, Sequences, FiniteSetsExt, SequencesExt

Cost(a, b) == IF a = b THEN 0 ELSE 1

\* Mutant: a transposition costs nothing.
Transposed_Free(source, target, i, j, before) ==
    before + Cost(source[i - 1], target[j]) + Cost(source[i], target[j - 1])

\* trans: the cost of a transposition, and of substitutions in it.
Transposed(source, target, i, j, before) ==
    before + 1 + Cost(source[i - 1], target[j]) + Cost(source[i], target[j - 1])

\* A cell of the matrix, from those before it.  A transposition is looked for from
\* the third characters on: (i > 2) && (j > 2).
Cell(source, target, matrix, i, j) ==
    IF i = 0 \/ j = 0 THEN i + j
    ELSE Min({matrix[<<i - 1, j>>] + 1, matrix[<<i, j - 1>>] + 1,
              matrix[<<i - 1, j - 1>>] + Cost(source[i], target[j])} \cup
             IF i > 2 /\ j > 2
             THEN {Transposed(source, target, i, j, matrix[<<i - 2, j - 2>>])} ELSE {})

Cells(source, target) == (0..Len(source)) \X (0..Len(target))

\* The last cell of the matrix is the distance.
DamerauLevenshteinDistance(source, target) ==
    LET matrix[c \in Cells(source, target)] == Cell(source, target, matrix, c[1], c[2])
    IN  matrix[<<Len(source), Len(target)>>]
-----------------------------------------------------------------------------
\* The reference: the least number of edits that turn one word into the other.

Substitutes(v, w) ==
    Len(v) = Len(w) /\ Cardinality({i \in DOMAIN v : v[i] # w[i]}) = 1

Deletes(v, w) == \E i \in DOMAIN v : w = RemoveAt(v, i)

Transposes(v, w) ==
    \E i \in 1..(Len(v) - 1) : w = [v EXCEPT ![i] = v[i + 1], ![i + 1] = v[i]]

WordsUpTo(chars, n) == UNION {[1..k -> chars] : k \in 0..n}

\* The pairs of words that at most k of the edits are between, on the way through
\* the words.
Within(words, n, edits) ==
    LET within[k \in 0..n] ==
            IF k = 0 THEN {<<w, w>> : w \in words}
            ELSE LET closer == within[k - 1]
                 IN  closer \cup {p \in words \X words :
                        \E w \in words : <<p[1], w>> \in closer /\ <<w, p[2]>> \in edits}
    IN  within

\* The least number of edits between any two of the words; it is at most the length
\* of the longest, n.
EditDistances(words, n, edits) ==
    LET within == Within(words, n, edits)
        upTo == [k \in 0..n |-> within[k]]
    IN  [p \in words \X words |-> Min({k \in 0..n : p \in upTo[k]})]
=============================================================================
