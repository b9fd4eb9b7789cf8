------------------------- MODULE PasswordWidget_proofs -------------------------
(***************************************************************************)
(* Proofs about PasswordRequirements, PasswordWidget and the distance of   *)
(* DamerauLevenshtein, for all texts, requirements and character classes.  *)
(***************************************************************************)
EXTENDS PasswordWidget, FiniteSetTheorems, SequenceTheorems, TLAPS

\* Whatever Set() accepts (PasswordRequirements::Validate()) some password has:
\* its lower case letters fill up what the letters and the length lack.
THEOREM ValidRequirementsCanBeMet ==
    ASSUME NEW r \in RequirementsType, Validate(r), NoneNegative(r)
    PROVE  \E c \in Composition : Meets(c, r)
<1> DEFINE larger(a, b) == IF a >= b THEN a ELSE b
           others == r.pwdMinUpper + r.pwdMinDigits + r.pwdMinSymbols
           lower == larger(r.pwdMinLower,
                           larger(r.pwdMinLetters - r.pwdMinUpper, r.pwdMinLen - others))
           c == [upper |-> r.pwdMinUpper, lower |-> lower,
                 digits |-> r.pwdMinDigits, symbols |-> r.pwdMinSymbols]
<1>1. /\ {r.pwdMaxLen, r.pwdMinLen, r.pwdMinLetters} \subseteq Int
      /\ {r.pwdMinUpper, r.pwdMinLower, r.pwdMinDigits, r.pwdMinSymbols} \subseteq Nat
    BY DEF RequirementsType, NoneNegative
<1>2. MaxLen(r.pwdMaxLen) \in Nat /\ MaxLen(r.pwdMaxLen) <= QLineEditMaxLength
    BY <1>1, MaxLengthAssumption DEF Validate, MaxLen
<1>3. LengthBound(r) \in Int /\ LengthBound(r) <= MaxLen(r.pwdMaxLen)
    BY <1>1, <1>2 DEF Validate, LengthBound
<1>4. others + r.pwdMinLower <= LengthBound(r)
    BY <1>1, <1>2, <1>3 DEF Validate, ActualMinLen, LettersBound
<1>5. r.pwdMinLetters - r.pwdMinUpper + others <= LengthBound(r)
    BY <1>1, <1>2, <1>3, <1>4 DEF Validate, ActualMinLen
<1>6. r.pwdMinLen <= MaxLen(r.pwdMaxLen)
    BY DEF Validate
<1>7. lower \in Nat /\ others + lower <= MaxLen(r.pwdMaxLen)
    BY <1>1, <1>2, <1>3, <1>4, <1>5, <1>6
<1>8. c \in Composition
    BY <1>1, <1>2, <1>7, MaxLengthAssumption DEF Composition
<1>9. Length(c) = others + lower
    BY <1>1, <1>7 DEF Length
<1>10. Meets(c, r)
    BY <1>1, <1>2, <1>7, <1>9 DEF Meets
<1> QED
    BY <1>8, <1>10

\* What the clients keep of requirements that were set stays valid.
LEMMA ClearedStaysValid ==
    ASSUME NEW r \in RequirementsType, Validate(r)
    PROVE  \A s \in {r, ClearHint(r), ClearNew(r)} : s \in RequirementsType /\ Validate(s)
<1>1. ClearHint(r) \in RequirementsType
    <2> DEFINE r1 == [r EXCEPT !.hintMaxLen = 0]
               r2 == [r1 EXCEPT !.hintMinLen = 0]
               r3 == [r2 EXCEPT !.hintNotEqual = FALSE]
               r4 == [r3 EXCEPT !.hintMinSimilarity = 0]
    <2>1. r1 \in RequirementsType
        BY DEF RequirementsType
    <2> HIDE DEF r1
    <2>2. r2 \in RequirementsType
        BY <2>1 DEF RequirementsType
    <2> HIDE DEF r2
    <2>3. r3 \in RequirementsType
        BY <2>2 DEF RequirementsType
    <2> HIDE DEF r3
    <2>4. r4 \in RequirementsType
        BY <2>3 DEF RequirementsType
    <2>5. ClearHint(r) = r4
        BY DEF ClearHint, r1, r2, r3
    <2> QED
        BY <2>4, <2>5
<1>2. ClearNew(r) \in RequirementsType
    <2> DEFINE r1 == [r EXCEPT !.newOldNotEqual = FALSE]
               r2 == [r1 EXCEPT !.newOldMinSimilarity = 0]
    <2>1. r1 \in RequirementsType
        BY DEF RequirementsType
    <2> HIDE DEF r1
    <2>2. r2 \in RequirementsType
        BY <2>1 DEF RequirementsType
    <2>3. ClearNew(r) = r2
        BY DEF ClearNew, r1
    <2> QED
        BY <2>2, <2>3
<1>3. Validate(ClearHint(r))
    BY MaxLengthAssumption DEF RequirementsType, ClearHint, Validate, MaxLen, LengthBound,
        LettersBound, ActualMinLen
<1>4. Validate(ClearNew(r))
    BY DEF RequirementsType, ClearNew, Validate, MaxLen, LengthBound, LettersBound, ActualMinLen
<1> QED
    BY <1>1, <1>2, <1>3, <1>4

\* What a widget shows while its client respects Set(): requirements are valid.
RequirementsValid == req \in RequirementsType /\ Validate(req)

\* The requirements in force are always some that Validate() accepts.
LEMMA RequirementsStayValid == Spec => []RequirementsValid
<1>1. Init => RequirementsValid
    BY RequirementsAssumption DEF Init, RequirementsValid
<1>2. RequirementsValid /\ [Next]_vars => RequirementsValid'
    <2> SUFFICES ASSUME RequirementsValid, [Next]_vars PROVE RequirementsValid'
        OBVIOUS
    <2>1. CASE UNCHANGED req
        BY <2>1 DEF RequirementsValid
    <2>2. ASSUME NEW r \in Requirements, Validate(r),
                 NEW s \in {r, ClearHint(r), ClearNew(r)}, SetRequirements(s)
          PROVE  RequirementsValid'
        BY <2>2, ClearedStaysValid, RequirementsAssumption DEF SetRequirements, RequirementsValid
    <2> QED
        BY <2>1, <2>2 DEF Next, vars, Edit, SetMode, Clear
<1> QED
    BY <1>1, <1>2, PTL DEF Spec

\* The widget never asks for what no password has (unless a minimum is negative).
THEOREM AlwaysCanBeMet == Spec => []RequirementsCanBeMet
<1>1. RequirementsValid => RequirementsCanBeMet
    BY ValidRequirementsCanBeMet DEF RequirementsValid, RequirementsCanBeMet
<1> QED
    BY <1>1, RequirementsStayValid, PTL
-----------------------------------------------------------------------------
\* Every part of a validation yields a mark.
LEMMA VerdictsAreMarks ==
    ASSUME NEW m, NEW r, NEW t, NEW w
    PROVE  /\ PasswordVerdict(r, w) \in Marked
           /\ ConfirmVerdict(r, w) \in Marked
           /\ HintVerdict(r, w) \in Marked
           /\ NewOldVerdict(m, r, t) \in Marked
           /\ ConfirmedVerdict(t) \in Marked
           /\ HintNewVerdict(r, t) \in Marked
BY DEF Marked, PasswordVerdict, ConfirmVerdict, HintVerdict, NewOldVerdict, ConfirmedVerdict,
    HintNewVerdict

\* The fields DoValidate() marks as acceptable, but for the old password where
\* it does not count, are all of them exactly when it returns true.
LEMMA MarksAgree ==
    ASSUME NEW m \in {"set", "change"}, NEW r, NEW t, NEW oldMark \in Marked \cup {"none"}
    PROVE  LET marks == Marks(m, r, t, oldMark)
           IN  /\ {marks.new, marks.confirm, marks.hint} \subseteq Marked
               /\ marks.old \in Marked \/ (m = "set" /\ marks.old = oldMark)
               /\ marks.valid \in BOOLEAN
               /\ marks.valid <=> /\ m = "change" => marks.old = "acceptable"
                                 /\ marks.new = "acceptable"
                                 /\ marks.confirm = "acceptable"
                                 /\ marks.hint = "acceptable"
BY VerdictsAreMarks DEF Marks, InTurn, Marked

\* The colors of the line edits show these marks.
LEMMA ShownAgrees ==
    ASSUME NEW m \in {"set", "change"}, NEW r, NEW t, NEW oldMark \in Marked \cup {"none"},
           m = "set" => oldMark \in Marked
    PROVE  LET marks == Marks(m, r, t, oldMark)
           IN  /\ Shown(marks) \in [Fields -> Marked]
               /\ marks.valid \in BOOLEAN
               /\ marks.valid <=>
                    \A f \in (IF m = "set" THEN Fields \ {"old"} ELSE Fields) :
                        Shown(marks)[f] = "acceptable"
<1> DEFINE marks == Marks(m, r, t, oldMark)
<1>1. /\ {marks.old, marks.new, marks.confirm, marks.hint} \subseteq Marked
      /\ marks.valid \in BOOLEAN
      /\ marks.valid <=> /\ m = "change" => marks.old = "acceptable"
                        /\ marks.new = "acceptable"
                        /\ marks.confirm = "acceptable"
                        /\ marks.hint = "acceptable"
    BY MarksAgree
<1> HIDE DEF marks
<1>2. /\ Shown(marks)["old"] = marks.old /\ Shown(marks)["new"] = marks.new
      /\ Shown(marks)["confirm"] = marks.confirm /\ Shown(marks)["hint"] = marks.hint
    BY DEF Shown, Fields
<1>3. Shown(marks) \in [Fields -> Marked]
    BY <1>1 DEF Shown, Fields
<1>4. marks.valid <=>
        \A f \in (IF m = "set" THEN Fields \ {"old"} ELSE Fields) : Shown(marks)[f] = "acceptable"
    BY <1>1, <1>2 DEF Fields
<1> QED
    BY <1>1, <1>3, <1>4 DEF marks

\* Whatever a handler did before, the validation it ends with makes one verdict.
LEMMA ValidationMakesOneVerdict ==
    ASSUME OneVerdict, ValidateAll, mode' \in {"set", "change"}, req' \in RequirementsType,
           text' \in [Fields -> Words]
    PROVE  OneVerdict'
<1> DEFINE marks == Marks(mode', req', text', mark["old"])
<1>1. mark["old"] \in Marked
    BY DEF OneVerdict, TypeOK, Fields
<1>2. mark' = Shown(marks) /\ isValid' = marks.valid
    BY DEF ValidateAll
<1>3. /\ mark' \in [Fields -> Marked] /\ isValid' \in BOOLEAN
      /\ isValid' <=> \A f \in Visible' : mark'[f] = "acceptable"
    BY <1>1, <1>2, ShownAgrees DEF Visible
<1>4. told' = isValid'
    BY DEF ValidateAll, OneVerdict
<1> QED
    BY <1>3, <1>4 DEF OneVerdict, TypeOK

\* A text that is shortened is one that could be typed.
LEMMA ShortenedIsWord ==
    ASSUME NEW w \in Words, NEW max \in Nat
    PROVE  SubSeq(w, 1, Min({Len(w), max})) \in Words
<1>1. Len(w) \in Nat
    BY WordsAssumption
<1>2. Min({Len(w), max}) \in {Len(w), max}
      /\ \A n \in {Len(w), max} : Min({Len(w), max}) <= n
    BY <1>1 DEF Min
<1>3. Min({Len(w), max}) \in 0..Len(w)
    BY <1>1, <1>2
<1> QED
    BY <1>3, WordsAssumption

\* IsValid(), ValidChanged() and the marks tell the same, in every history.
THEOREM WidgetTellsOneVerdict == Spec => []OneVerdict
<1>1. Init => OneVerdict
    <2> SUFFICES ASSUME Init PROVE OneVerdict
        OBVIOUS
    <2>1. text \in [Fields -> Words]
        BY WordsAssumption DEF Init
    <2>2. /\ mark \in [Fields -> Marked] /\ isValid \in BOOLEAN
          /\ isValid <=> \A f \in Visible : mark[f] = "acceptable"
        BY ShownAgrees DEF Init, Visible
    <2> QED
        BY <2>1, <2>2, RequirementsAssumption DEF Init, OneVerdict, TypeOK
<1>2. RequirementsValid /\ OneVerdict /\ [Next]_vars => OneVerdict'
    <2> SUFFICES ASSUME RequirementsValid, OneVerdict, [Next]_vars PROVE OneVerdict'
        OBVIOUS
    <2> USE DEF RequirementsValid
    <2>1. ASSUME NEW f \in Fields, NEW w \in Words, Edit(f, w) PROVE OneVerdict'
        BY <2>1, ValidationMakesOneVerdict DEF Edit, OneVerdict, TypeOK
    <2>2. ASSUME NEW m \in {"set", "change"}, SetMode(m) PROVE OneVerdict'
        BY <2>2, ValidationMakesOneVerdict DEF SetMode, OneVerdict, TypeOK
    <2>3. ASSUME NEW r \in Requirements, Validate(r),
                 NEW s \in {r, ClearHint(r), ClearNew(r)}, SetRequirements(s)
          PROVE  OneVerdict'
        <3>1. s \in RequirementsType
            BY <2>3, ClearedStaysValid, RequirementsAssumption
        <3>2. \A f \in Fields : FieldMax(s, f) \in Nat
            BY <3>1, MaxLengthAssumption DEF FieldMax, MaxLen, RequirementsType
        <3>3. text' \in [Fields -> Words]
            BY <2>3, <3>2, ShortenedIsWord DEF SetRequirements, OneVerdict, TypeOK
        <3> QED
            BY <2>3, <3>1, <3>3, ValidationMakesOneVerdict DEF SetRequirements, OneVerdict, TypeOK
    <2>4. ASSUME Clear PROVE OneVerdict'
        BY <2>4, ValidationMakesOneVerdict, WordsAssumption DEF Clear, OneVerdict, TypeOK
    <2>5. CASE UNCHANGED vars
        BY <2>5 DEF vars, OneVerdict, TypeOK, Visible
    <2> QED
        BY <2>1, <2>2, <2>3, <2>4, <2>5 DEF Next
<1> QED
    BY <1>1, <1>2, RequirementsStayValid, PTL DEF Spec
-----------------------------------------------------------------------------
(***************************************************************************)
(* Induction, over sets instead of predicates: the library's theorems of   *)
(* induction take an operator, which the provers cannot instantiate.       *)
(***************************************************************************)

\* A set of natural numbers has a least one.
LEMMA LeastNatural ==
    ASSUME NEW S \in SUBSET Nat, S # {}
    PROVE  Min(S) \in S /\ \A n \in S : Min(S) <= n
<1>1. \E x \in S : \A y \in S : ~(<<y, x>> \in OpToRel(<, Nat))
    BY NatLessThanWellFounded, WFMin
<1>2. PICK x \in S : \A y \in S : ~(y < x)
    BY <1>1 DEF OpToRel
<1>3. \A y \in S : x <= y
    BY <1>2
<1> QED
    BY <1>3 DEF Min

\* Induction, over a set instead of a predicate.
LEMMA Inductive ==
    ASSUME NEW S, 0 \in S, \A n \in S \cap Nat : n + 1 \in S
    PROVE  \A n \in Nat : n \in S
<1> SUFFICES ASSUME Nat \ S # {} PROVE FALSE
    OBVIOUS
<1> DEFINE m == Min(Nat \ S)
<1>1. m \in Nat \ S /\ \A n \in Nat \ S : m <= n
    BY LeastNatural
<1> HIDE DEF m
<1>2. m # 0
    BY <1>1
<1>3. m - 1 \in Nat /\ ~(m <= m - 1)
    BY <1>1, <1>2
<1>5. m - 1 \in S
    BY <1>1, <1>3
<1>4. (m - 1) + 1 = m
    BY <1>1
<1> QED
    BY <1>1, <1>3, <1>4, <1>5

\* The largest of a set of natural numbers with a bound.
LEMMA LargestNatural ==
    ASSUME NEW S \in SUBSET Nat, S # {}, NEW b \in Nat, \A n \in S : n <= b
    PROVE  Max(S) \in S /\ \A n \in S : n <= Max(S)
<1> DEFINE below == {b - n : n \in S}
           m == b - Min(below)
<1>0. \A n \in S : n \in Nat /\ b - n \in Nat
    OBVIOUS
<1>1. below \in SUBSET Nat /\ below # {}
    BY <1>0
<1>2. Min(below) \in below /\ \A n \in below : Min(below) <= n
    BY <1>1, LeastNatural
<1>3. PICK x \in S : Min(below) = b - x
    BY <1>2
<1>4. \A n \in S : b - x <= b - n
    BY <1>2, <1>3
<1>5. \A n \in S : n <= x
    BY <1>0, <1>4
<1> QED
    BY <1>5 DEF Max
-----------------------------------------------------------------------------
(***************************************************************************)
(* The matrix of DamerauLevenshteinDistance(): there is one, and what is   *)
(* in it.                                                                  *)
(***************************************************************************)

\* What a cell is the least of, with transpositions or without.
Kinds == {"transposing", "plain"}

Options(source, target, table, i, j, kind) ==
    {table[<<i - 1, j>>] + 1, table[<<i, j - 1>>] + 1,
     table[<<i - 1, j - 1>>] + Cost(source[i], target[j])} \cup
    IF kind = "transposing" /\ i > 2 /\ j > 2
    THEN {Transposed(source, target, i, j, table[<<i - 2, j - 2>>])} ELSE {}

\* What is put into a cell.
TableCell(source, target, table, i, j, kind) ==
    IF i = 0 \/ j = 0 THEN i + j ELSE Min(Options(source, target, table, i, j, kind))

\* A matrix that is right in the cells up to the n-th antidiagonal.
RightUpTo(source, target, table, kind, n) ==
    /\ table \in [Cells(source, target) -> Nat]
    /\ \A c \in Cells(source, target) : c[1] + c[2] <= n =>
            table[c] = TableCell(source, target, table, c[1], c[2], kind)

\* A matrix that is right in all its cells.
IsTable(source, target, table, kind) ==
    /\ table \in [Cells(source, target) -> Nat]
    /\ \A c \in Cells(source, target) :
            table[c] = TableCell(source, target, table, c[1], c[2], kind)

\* A substitution costs one, or nothing.
LEMMA CostType == ASSUME NEW a, NEW b PROVE Cost(a, b) \in 0..1
BY DEF Cost

\* The indices of the matrix.
LEMMA InCells ==
    ASSUME NEW S, NEW v \in Seq(S), NEW w \in Seq(S)
    PROVE  /\ Len(v) \in Nat /\ Len(w) \in Nat
           /\ \A i \in 0..Len(v), j \in 0..Len(w) : <<i, j>> \in Cells(v, w)
           /\ \A c \in Cells(v, w) : /\ c[1] \in 0..Len(v) /\ c[2] \in 0..Len(w)
                                     /\ c = <<c[1], c[2]>>
BY DEF Cells

\* There is a least one of what a cell may be.
LEMMA OptionsAreNatural ==
    ASSUME NEW S, NEW v \in Seq(S), NEW w \in Seq(S), NEW kind \in Kinds,
           NEW f \in [Cells(v, w) -> Nat], NEW i \in 1..Len(v), NEW j \in 1..Len(w)
    PROVE  LET options == Options(v, w, f, i, j, kind)
           IN  /\ options \in SUBSET Nat /\ options # {}
               /\ Min(options) \in options /\ \A o \in options : Min(options) <= o
<1> DEFINE options == Options(v, w, f, i, j, kind)
<1>1. /\ Len(v) \in Nat /\ Len(w) \in Nat
      /\ i - 1 \in 0..Len(v) /\ j - 1 \in 0..Len(w)
      /\ i > 2 => i - 2 \in 0..Len(v)
      /\ j > 2 => j - 2 \in 0..Len(w)
    OBVIOUS
<1>2. /\ f[<<i - 1, j>>] \in Nat /\ f[<<i, j - 1>>] \in Nat /\ f[<<i - 1, j - 1>>] \in Nat
      /\ i > 2 /\ j > 2 => f[<<i - 2, j - 2>>] \in Nat
    BY <1>1, InCells
<1>3. /\ Cost(v[i], w[j]) \in Nat /\ Cost(v[i - 1], w[j]) \in Nat
      /\ Cost(v[i], w[j - 1]) \in Nat
    BY CostType
<1>4. options \in SUBSET Nat
    <2>1. /\ f[<<i - 1, j>>] + 1 \in Nat /\ f[<<i, j - 1>>] + 1 \in Nat
          /\ f[<<i - 1, j - 1>>] + Cost(v[i], w[j]) \in Nat
        <3>1. \A m, n \in Nat : m + n \in Nat /\ m + 1 \in Nat
            OBVIOUS
        <3> QED
            BY <1>2, <1>3, <3>1
    <2>2. i > 2 /\ j > 2 => Transposed(v, w, i, j, f[<<i - 2, j - 2>>]) \in Nat
        <3> DEFINE before == f[<<i - 2, j - 2>>]
                   a == Cost(v[i - 1], w[j])
                   b == Cost(v[i], w[j - 1])
        <3>1. a \in Nat /\ b \in Nat
            BY <1>3
        <3>2. i > 2 /\ j > 2 => before \in Nat
            BY <1>2
        <3>3. Transposed(v, w, i, j, before) = before + 1 + a + b
            BY DEF Transposed
        <3> HIDE DEF before, a, b
        <3>4. i > 2 /\ j > 2 => before + 1 + a + b \in Nat
            BY <3>1, <3>2
        <3> QED
            BY <3>3, <3>4 DEF before
    <2> QED
        BY <2>1, <2>2 DEF Options
<1>5. options # {}
    BY DEF Options
<1> HIDE DEF options
<1> QED
    BY <1>4, <1>5, LeastNatural DEF options

\* A cell depends on those of earlier antidiagonals only.
LEMMA OptionsLookBack ==
    ASSUME NEW S, NEW v \in Seq(S), NEW w \in Seq(S), NEW kind \in Kinds,
           NEW f, NEW g, NEW i \in 1..Len(v), NEW j \in 1..Len(w),
           \A c \in Cells(v, w) : c[1] + c[2] < i + j => f[c] = g[c]
    PROVE  Options(v, w, f, i, j, kind) = Options(v, w, g, i, j, kind)
<1>1. /\ Len(v) \in Nat /\ Len(w) \in Nat
      /\ i - 1 \in 0..Len(v) /\ j - 1 \in 0..Len(w)
      /\ i > 2 => i - 2 \in 0..Len(v)
      /\ j > 2 => j - 2 \in 0..Len(w)
    OBVIOUS
<1>2. \A k \in 0..Len(v), l \in 0..Len(w) : k + l < i + j => f[<<k, l>>] = g[<<k, l>>]
    BY InCells
<1>3. /\ f[<<i - 1, j>>] = g[<<i - 1, j>>] /\ f[<<i, j - 1>>] = g[<<i, j - 1>>]
      /\ f[<<i - 1, j - 1>>] = g[<<i - 1, j - 1>>]
      /\ i > 2 /\ j > 2 => f[<<i - 2, j - 2>>] = g[<<i - 2, j - 2>>]
    BY <1>1, <1>2
<1> QED
    BY <1>3 DEF Options

\* So does what is put into it.
LEMMA CellLooksBack ==
    ASSUME NEW S, NEW v \in Seq(S), NEW w \in Seq(S), NEW kind \in Kinds,
           NEW f, NEW g, NEW c \in Cells(v, w),
           \A b \in Cells(v, w) : b[1] + b[2] < c[1] + c[2] => f[b] = g[b]
    PROVE  TableCell(v, w, f, c[1], c[2], kind) = TableCell(v, w, g, c[1], c[2], kind)
<1>1. c[1] \in 0..Len(v) /\ c[2] \in 0..Len(w) /\ Len(v) \in Nat /\ Len(w) \in Nat
    BY InCells
<1>2. CASE c[1] = 0 \/ c[2] = 0
    BY <1>2 DEF TableCell
<1>3. CASE c[1] # 0 /\ c[2] # 0
    <2>1. c[1] \in 1..Len(v) /\ c[2] \in 1..Len(w)
        BY <1>1, <1>3
    <2>2. Options(v, w, f, c[1], c[2], kind) = Options(v, w, g, c[1], c[2], kind)
        BY <2>1, OptionsLookBack
    <2> QED
        BY <2>2 DEF TableCell
<1> QED
    BY <1>2, <1>3

\* The matrix holds natural numbers.
LEMMA CellType ==
    ASSUME NEW S, NEW v \in Seq(S), NEW w \in Seq(S), NEW kind \in Kinds,
           NEW f \in [Cells(v, w) -> Nat], NEW c \in Cells(v, w)
    PROVE  TableCell(v, w, f, c[1], c[2], kind) \in Nat
<1>1. c[1] \in 0..Len(v) /\ c[2] \in 0..Len(w) /\ Len(v) \in Nat /\ Len(w) \in Nat
    BY InCells
<1>2. CASE c[1] = 0 \/ c[2] = 0
    BY <1>1, <1>2 DEF TableCell
<1>3. CASE c[1] # 0 /\ c[2] # 0
    <2>1. c[1] \in 1..Len(v) /\ c[2] \in 1..Len(w)
        BY <1>1, <1>3
    <2>2. Min(Options(v, w, f, c[1], c[2], kind)) \in Nat
        BY <2>1, OptionsAreNatural
    <2> QED
        BY <2>2, <1>3 DEF TableCell
<1> QED
    BY <1>2, <1>3

\* Filling the matrix ends: one antidiagonal after the other.
LEMMA TableExists ==
    ASSUME NEW S, NEW v \in Seq(S), NEW w \in Seq(S), NEW kind \in Kinds
    PROVE  \E f : IsTable(v, w, f, kind)
<1> DEFINE filled == {n \in Nat : \E f : RightUpTo(v, w, f, kind, n)}
<1>0. /\ Len(v) \in Nat /\ Len(w) \in Nat
      /\ \A c \in Cells(v, w) : c[1] \in 0..Len(v) /\ c[2] \in 0..Len(w)
    BY InCells
<1>1. 0 \in filled
    <2> DEFINE f == [c \in Cells(v, w) |-> 0]
    <2>1. \A c \in Cells(v, w) : c[1] + c[2] <= 0 => c[1] = 0 /\ c[2] = 0
        BY <1>0
    <2>2. f \in [Cells(v, w) -> Nat] /\ \A c \in Cells(v, w) : f[c] = 0
        OBVIOUS
    <2> HIDE DEF f
    <2>3. RightUpTo(v, w, f, kind, 0)
        BY <2>1, <2>2 DEF RightUpTo, TableCell
    <2> QED
        BY <2>3
<1>2. ASSUME NEW n \in filled PROVE n + 1 \in filled
    <2>1. n \in Nat
        OBVIOUS
    <2>2. PICK f : RightUpTo(v, w, f, kind, n)
        OBVIOUS
    <2> DEFINE g == [c \in Cells(v, w) |-> TableCell(v, w, f, c[1], c[2], kind)]
    <2>3. f \in [Cells(v, w) -> Nat]
        BY <2>2 DEF RightUpTo
    <2>4. g \in [Cells(v, w) -> Nat]
        BY <2>3, CellType
    <2>5. \A c \in Cells(v, w) : c[1] + c[2] <= n => g[c] = f[c]
        BY <2>2 DEF RightUpTo
    <2>6. \A c \in Cells(v, w) : g[c] = TableCell(v, w, f, c[1], c[2], kind)
        OBVIOUS
    <2> HIDE DEF g
    <2>7. ASSUME NEW c \in Cells(v, w), c[1] + c[2] <= n + 1
          PROVE  g[c] = TableCell(v, w, g, c[1], c[2], kind)
        <3>1. \A b \in Cells(v, w) : b[1] + b[2] < c[1] + c[2] => f[b] = g[b]
            BY <1>0, <2>1, <2>5, <2>7
        <3>2. TableCell(v, w, f, c[1], c[2], kind) = TableCell(v, w, g, c[1], c[2], kind)
            BY <3>1, CellLooksBack
        <3> QED
            BY <2>6, <3>2
    <2>8. RightUpTo(v, w, g, kind, n + 1)
        BY <2>4, <2>7 DEF RightUpTo
    <2> QED
        BY <2>1, <2>8
<1>3. \A n \in Nat : n \in filled
    <2> HIDE DEF filled
    <2> QED
        BY <1>1, <1>2, Inductive
<1>4. Len(v) + Len(w) \in filled
    BY <1>0, <1>3
<1>5. PICK f : RightUpTo(v, w, f, kind, Len(v) + Len(w))
    BY <1>4
<1>6. \A c \in Cells(v, w) : c[1] + c[2] <= Len(v) + Len(w)
    BY <1>0
<1> QED
    BY <1>5, <1>6 DEF RightUpTo, IsTable

\* There is one such matrix.
LEMMA CellsAreUnique ==
    ASSUME NEW S, NEW v \in Seq(S), NEW w \in Seq(S), NEW kind \in Kinds, NEW f, NEW g,
           \A c \in Cells(v, w) : f[c] = TableCell(v, w, f, c[1], c[2], kind),
           \A c \in Cells(v, w) : g[c] = TableCell(v, w, g, c[1], c[2], kind)
    PROVE  \A c \in Cells(v, w) : f[c] = g[c]
<1> DEFINE agree == {n \in Nat : \A c \in Cells(v, w) : c[1] + c[2] < n => f[c] = g[c]}
<1>1. \A c \in Cells(v, w) : c[1] \in Nat /\ c[2] \in Nat
    BY InCells
<1>2. 0 \in agree
    BY <1>1
<1>3. ASSUME NEW n \in agree PROVE n + 1 \in agree
    <2>1. ASSUME NEW c \in Cells(v, w), c[1] + c[2] < n + 1 PROVE f[c] = g[c]
        <3>1. \A b \in Cells(v, w) : b[1] + b[2] < c[1] + c[2] => f[b] = g[b]
            BY <1>1, <2>1
        <3>2. TableCell(v, w, f, c[1], c[2], kind) = TableCell(v, w, g, c[1], c[2], kind)
            BY <3>1, CellLooksBack
        <3> QED
            BY <3>2
    <2> QED
        BY <2>1
<1>4. \A n \in Nat : n \in agree
    <2> HIDE DEF agree
    <2> QED
        BY <1>2, <1>3, Inductive
<1>5. ASSUME NEW c \in Cells(v, w) PROVE f[c] = g[c]
    <2>1. c[1] + c[2] + 1 \in agree
        BY <1>1, <1>4
    <2> QED
        BY <1>1, <2>1
<1> QED
    BY <1>5

\* DamerauLevenshteinDistance() is the last cell of such a matrix.
LEMMA DistanceIsLastCell ==
    ASSUME NEW S, NEW v \in Seq(S), NEW w \in Seq(S)
    PROVE  \E f : /\ IsTable(v, w, f, "transposing")
                  /\ DamerauLevenshteinDistance(v, w) = f[<<Len(v), Len(w)>>]
<1> DEFINE matrix == CHOOSE f : f = [c \in Cells(v, w) |-> Cell(v, w, f, c[1], c[2])]
<1>1. \A f, i, j : TableCell(v, w, f, i, j, "transposing") = Cell(v, w, f, i, j)
    BY DEF TableCell, Cell, Options
<1>2. PICK f : IsTable(v, w, f, "transposing")
    BY TableExists DEF Kinds
<1>3. f = [c \in Cells(v, w) |-> Cell(v, w, f, c[1], c[2])]
    BY <1>1, <1>2 DEF IsTable
<1>4. matrix = [c \in Cells(v, w) |-> Cell(v, w, matrix, c[1], c[2])]
    BY <1>3
<1>5. DamerauLevenshteinDistance(v, w) = matrix[<<Len(v), Len(w)>>]
    BY DEF DamerauLevenshteinDistance
<1> HIDE DEF matrix
<1>6. \A c \in Cells(v, w) : matrix[c] = Cell(v, w, matrix, c[1], c[2])
    BY <1>4
<1>7. \A c \in Cells(v, w) : matrix[c] = f[c]
    BY <1>1, <1>2, <1>6, CellsAreUnique DEF IsTable, Kinds
<1>8. matrix = f
    BY <1>2, <1>4, <1>7 DEF IsTable
<1> QED
    BY <1>2, <1>5, <1>8
-----------------------------------------------------------------------------
\* A cell is the least of its options.
LEMMA CellIsOption ==
    ASSUME NEW S, NEW v \in Seq(S), NEW w \in Seq(S), NEW kind \in Kinds, NEW f,
           IsTable(v, w, f, kind), NEW i \in 1..Len(v), NEW j \in 1..Len(w)
    PROVE  /\ f[<<i, j>>] \in Options(v, w, f, i, j, kind)
           /\ \A o \in Options(v, w, f, i, j, kind) : f[<<i, j>>] <= o
<1>1. i \in 0..Len(v) /\ j \in 0..Len(w) /\ i # 0 /\ j # 0
    OBVIOUS
<1>2. <<i, j>> \in Cells(v, w)
    BY <1>1, InCells
<1>3. f[<<i, j>>] = TableCell(v, w, f, i, j, kind)
    BY <1>2 DEF IsTable
<1>4. f[<<i, j>>] = Min(Options(v, w, f, i, j, kind))
    BY <1>1, <1>3 DEF TableCell
<1>5. f \in [Cells(v, w) -> Nat]
    BY DEF IsTable
<1> QED
    BY <1>4, <1>5, OptionsAreNatural

\* A cell is one more than one of its neighbours, or the diagonal one with the
\* cost of a substitution or a transposition, and is the least of these.
LEMMA CellIsLeast ==
    ASSUME NEW S, NEW v \in Seq(S), NEW w \in Seq(S), NEW kind \in Kinds, NEW f,
           IsTable(v, w, f, kind), NEW i \in 1..Len(v), NEW j \in 1..Len(w)
    PROVE  /\ f[<<i, j>>] \in Nat /\ f[<<i - 1, j>>] \in Nat /\ f[<<i, j - 1>>] \in Nat
           /\ f[<<i - 1, j - 1>>] \in Nat
           /\ f[<<i, j>>] <= f[<<i - 1, j>>] + 1 /\ f[<<i, j>>] <= f[<<i, j - 1>>] + 1
           /\ f[<<i, j>>] <= f[<<i - 1, j - 1>>] + Cost(v[i], w[j])
           /\ kind = "transposing" /\ i > 2 /\ j > 2 =>
                /\ f[<<i - 2, j - 2>>] \in Nat
                /\ f[<<i, j>>] <= Transposed(v, w, i, j, f[<<i - 2, j - 2>>])
           /\ \/ f[<<i, j>>] = f[<<i - 1, j>>] + 1
              \/ f[<<i, j>>] = f[<<i, j - 1>>] + 1
              \/ f[<<i, j>>] = f[<<i - 1, j - 1>>] + Cost(v[i], w[j])
              \/ /\ kind = "transposing" /\ i > 2 /\ j > 2
                 /\ f[<<i, j>>] = Transposed(v, w, i, j, f[<<i - 2, j - 2>>])
<1>1. /\ Len(v) \in Nat /\ Len(w) \in Nat /\ i \in 0..Len(v) /\ j \in 0..Len(w)
      /\ i - 1 \in 0..Len(v) /\ j - 1 \in 0..Len(w)
      /\ i > 2 => i - 2 \in 0..Len(v)
      /\ j > 2 => j - 2 \in 0..Len(w)
      /\ i # 0 /\ j # 0
    OBVIOUS
<1>2. f \in [Cells(v, w) -> Nat]
    BY DEF IsTable
<1>3. /\ f[<<i, j>>] \in Nat /\ f[<<i - 1, j>>] \in Nat /\ f[<<i, j - 1>>] \in Nat
      /\ f[<<i - 1, j - 1>>] \in Nat
      /\ i > 2 /\ j > 2 => f[<<i - 2, j - 2>>] \in Nat
    BY <1>1, <1>2, InCells
<1> DEFINE options == Options(v, w, f, i, j, kind)
<1>6. f[<<i, j>>] \in options /\ \A o \in options : f[<<i, j>>] <= o
    BY CellIsOption
<1>7. /\ f[<<i - 1, j>>] + 1 \in options /\ f[<<i, j - 1>>] + 1 \in options
      /\ f[<<i - 1, j - 1>>] + Cost(v[i], w[j]) \in options
      /\ kind = "transposing" /\ i > 2 /\ j > 2 =>
            Transposed(v, w, i, j, f[<<i - 2, j - 2>>]) \in options
    BY DEF Options
<1>8. \A o \in options :
        \/ o = f[<<i - 1, j>>] + 1
        \/ o = f[<<i, j - 1>>] + 1
        \/ o = f[<<i - 1, j - 1>>] + Cost(v[i], w[j])
        \/ /\ kind = "transposing" /\ i > 2 /\ j > 2
           /\ o = Transposed(v, w, i, j, f[<<i - 2, j - 2>>])
    BY DEF Options
<1> HIDE DEF options
<1> QED
    BY <1>3, <1>6, <1>7, <1>8

\* The same without transpositions.
LEMMA PlainCellIsLeast ==
    ASSUME NEW S, NEW v \in Seq(S), NEW w \in Seq(S), NEW f,
           IsTable(v, w, f, "plain"), NEW i \in 1..Len(v), NEW j \in 1..Len(w)
    PROVE  /\ f[<<i, j>>] \in Nat /\ f[<<i - 1, j>>] \in Nat /\ f[<<i, j - 1>>] \in Nat
           /\ f[<<i - 1, j - 1>>] \in Nat
           /\ f[<<i, j>>] <= f[<<i - 1, j>>] + 1 /\ f[<<i, j>>] <= f[<<i, j - 1>>] + 1
           /\ f[<<i, j>>] <= f[<<i - 1, j - 1>>] + Cost(v[i], w[j])
           /\ Cost(v[i], w[j]) \in 0..1
           /\ \/ f[<<i, j>>] = f[<<i - 1, j>>] + 1
              \/ f[<<i, j>>] = f[<<i, j - 1>>] + 1
              \/ f[<<i, j>>] = f[<<i - 1, j - 1>>] + Cost(v[i], w[j])
<1>1. "plain" \in Kinds /\ "plain" # "transposing"
    BY DEF Kinds
<1>2. Cost(v[i], w[j]) \in 0..1
    BY CostType
<1>3. /\ f[<<i, j>>] \in Nat /\ f[<<i - 1, j>>] \in Nat /\ f[<<i, j - 1>>] \in Nat
      /\ f[<<i - 1, j - 1>>] \in Nat
      /\ f[<<i, j>>] <= f[<<i - 1, j>>] + 1 /\ f[<<i, j>>] <= f[<<i, j - 1>>] + 1
      /\ f[<<i, j>>] <= f[<<i - 1, j - 1>>] + Cost(v[i], w[j])
    BY <1>1, CellIsLeast
<1>4. f[<<i, j>>] \in Options(v, w, f, i, j, "plain")
    BY <1>1, CellIsOption
<1>5. \/ f[<<i, j>>] = f[<<i - 1, j>>] + 1
      \/ f[<<i, j>>] = f[<<i, j - 1>>] + 1
      \/ f[<<i, j>>] = f[<<i - 1, j - 1>>] + Cost(v[i], w[j])
    BY <1>1, <1>4 DEF Options
<1> QED
    BY <1>2, <1>3, <1>5

\* A cell of a matrix without transpositions is one of three.
LeastOfThree(v, w, f) ==
    \A i \in 1..Len(v), j \in 1..Len(w) :
        /\ f[<<i, j>>] \in Nat /\ f[<<i - 1, j>>] \in Nat /\ f[<<i, j - 1>>] \in Nat
        /\ f[<<i - 1, j - 1>>] \in Nat /\ Cost(v[i], w[j]) \in 0..1
        /\ \/ f[<<i, j>>] = f[<<i - 1, j>>] + 1
           \/ f[<<i, j>>] = f[<<i, j - 1>>] + 1
           \/ f[<<i, j>>] = f[<<i - 1, j - 1>>] + Cost(v[i], w[j])

\* Every cell of such a matrix is one of the three.
LEMMA PlainCellsAreLeastOfThree ==
    ASSUME NEW S, NEW v \in Seq(S), NEW w \in Seq(S), NEW f, IsTable(v, w, f, "plain")
    PROVE  LeastOfThree(v, w, f)
<1>1. ASSUME NEW i \in 1..Len(v), NEW j \in 1..Len(w)
      PROVE  /\ f[<<i, j>>] \in Nat /\ f[<<i - 1, j>>] \in Nat /\ f[<<i, j - 1>>] \in Nat
             /\ f[<<i - 1, j - 1>>] \in Nat /\ Cost(v[i], w[j]) \in 0..1
             /\ \/ f[<<i, j>>] = f[<<i - 1, j>>] + 1
                \/ f[<<i, j>>] = f[<<i, j - 1>>] + 1
                \/ f[<<i, j>>] = f[<<i - 1, j - 1>>] + Cost(v[i], w[j])
    BY PlainCellIsLeast
<1> QED
    BY <1>1 DEF LeastOfThree

\* The first row and column of the matrix: as many edits as characters.
LEMMA BorderOfTable ==
    ASSUME NEW S, NEW v \in Seq(S), NEW w \in Seq(S), NEW kind \in Kinds, NEW f,
           IsTable(v, w, f, kind)
    PROVE  /\ \A i \in 0..Len(v) : f[<<i, 0>>] = i
           /\ \A j \in 0..Len(w) : f[<<0, j>>] = j
           /\ \A i \in 0..Len(v), j \in 0..Len(w) : f[<<i, j>>] \in Nat
<1>0. Len(v) \in Nat /\ Len(w) \in Nat /\ 0 \in 0..Len(v) /\ 0 \in 0..Len(w)
    OBVIOUS
<1>1. ASSUME NEW i \in 0..Len(v), NEW j \in 0..Len(w)
      PROVE  f[<<i, j>>] \in Nat /\ f[<<i, j>>] = TableCell(v, w, f, i, j, kind)
    <2>1. <<i, j>> \in Cells(v, w)
        BY InCells
    <2> QED
        BY <2>1 DEF IsTable
<1>2. ASSUME NEW i \in 0..Len(v) PROVE f[<<i, 0>>] = i
    <2>1. TableCell(v, w, f, i, 0, kind) = i
        BY <1>0 DEF TableCell
    <2> QED
        BY <1>0, <1>1, <2>1
<1>3. ASSUME NEW j \in 0..Len(w) PROVE f[<<0, j>>] = j
    <2>1. TableCell(v, w, f, 0, j, kind) = j
        BY <1>0 DEF TableCell
    <2> QED
        BY <1>0, <1>1, <2>1
<1> QED
    BY <1>1, <1>2, <1>3

\* Two words are no farther apart than the longer of them is long.
LEMMA CellAtMostLength ==
    ASSUME NEW S, NEW v \in Seq(S), NEW w \in Seq(S), NEW kind \in Kinds, NEW f,
           IsTable(v, w, f, kind)
    PROVE  \A i \in 0..Len(v), j \in 0..Len(w) : f[<<i, j>>] <= i \/ f[<<i, j>>] <= j
<1> DEFINE rows == {n \in Nat : \A i \in 0..Len(v), j \in 0..Len(w) :
                        i = n => f[<<i, j>>] <= i \/ f[<<i, j>>] <= j}
<1>0. Len(v) \in Nat /\ Len(w) \in Nat
    OBVIOUS
<1>1. 0 \in rows
    BY BorderOfTable
<1>2. ASSUME NEW n \in rows PROVE n + 1 \in rows
    <2>1. ASSUME NEW i \in 0..Len(v), NEW j \in 0..Len(w), i = n + 1
          PROVE  f[<<i, j>>] <= i \/ f[<<i, j>>] <= j
        <3>1. CASE j = 0
            BY <1>0, <3>1, BorderOfTable
        <3>2. CASE j # 0
            <4>1. /\ n \in Nat /\ i \in 1..Len(v) /\ j \in 1..Len(w) /\ i - 1 = n
                  /\ i - 1 \in 0..Len(v) /\ j - 1 \in 0..Len(w)
                BY <1>0, <2>1, <3>2
            <4>2. f[<<i - 1, j - 1>>] <= i - 1 \/ f[<<i - 1, j - 1>>] <= j - 1
                BY <4>1
            <4>3. /\ f[<<i, j>>] \in Nat /\ f[<<i - 1, j - 1>>] \in Nat
                  /\ f[<<i, j>>] <= f[<<i - 1, j - 1>>] + Cost(v[i], w[j])
                BY <4>1, CellIsLeast
            <4>4. Cost(v[i], w[j]) \in 0..1
                BY CostType
            <4> HIDE DEF rows
            <4> QED
                BY <4>1, <4>2, <4>3, <4>4
        <3> QED
            BY <3>1, <3>2
    <2> QED
        BY <2>1
<1>3. \A n \in Nat : n \in rows
    <2> HIDE DEF rows
    <2> QED
        BY <1>1, <1>2, Inductive
<1>4. \A i \in 0..Len(v) : i \in Nat /\ i \in rows
    <2> HIDE DEF rows
    <2> QED
        BY <1>0, <1>3
<1> QED
    BY <1>4

\* Looking for transpositions, too, makes no cell greater.
LEMMA TransposingIsLess ==
    ASSUME NEW S, NEW v \in Seq(S), NEW w \in Seq(S), NEW f, NEW g,
           IsTable(v, w, f, "transposing"), IsTable(v, w, g, "plain")
    PROVE  \A i \in 0..Len(v), j \in 0..Len(w) : f[<<i, j>>] <= g[<<i, j>>]
<1> DEFINE below == {n \in Nat : \A i \in 0..Len(v), j \in 0..Len(w) :
                        i + j < n => f[<<i, j>>] <= g[<<i, j>>]}
<1>0. Len(v) \in Nat /\ Len(w) \in Nat /\ "transposing" \in Kinds /\ "plain" \in Kinds
    BY DEF Kinds
<1>a. LeastOfThree(v, w, g)
    BY PlainCellsAreLeastOfThree
<1>1. 0 \in below
    BY <1>0
<1>2. ASSUME NEW n \in below PROVE n + 1 \in below
    <2>0. n \in Nat
        OBVIOUS
    <2>1. ASSUME NEW i \in 0..Len(v), NEW j \in 0..Len(w), i + j < n + 1
          PROVE  f[<<i, j>>] <= g[<<i, j>>]
        <3>1. CASE i = 0 \/ j = 0
            BY <1>0, <3>1, BorderOfTable
        <3>2. CASE i # 0 /\ j # 0
            <4>1. /\ i \in 1..Len(v) /\ j \in 1..Len(w)
                  /\ i - 1 \in 0..Len(v) /\ j - 1 \in 0..Len(w)
                  /\ (i - 1) + j < n /\ i + (j - 1) < n /\ (i - 1) + (j - 1) < n
                BY <1>0, <2>0, <2>1, <3>2
            <4>2. /\ f[<<i - 1, j>>] <= g[<<i - 1, j>>] /\ f[<<i, j - 1>>] <= g[<<i, j - 1>>]
                  /\ f[<<i - 1, j - 1>>] <= g[<<i - 1, j - 1>>]
                BY <4>1
            <4>3. /\ f[<<i, j>>] \in Nat /\ f[<<i - 1, j>>] \in Nat /\ f[<<i, j - 1>>] \in Nat
                  /\ f[<<i - 1, j - 1>>] \in Nat
                  /\ f[<<i, j>>] <= f[<<i - 1, j>>] + 1 /\ f[<<i, j>>] <= f[<<i, j - 1>>] + 1
                  /\ f[<<i, j>>] <= f[<<i - 1, j - 1>>] + Cost(v[i], w[j])
                <5> HIDE DEF below
                <5> QED
                    BY <1>0, <4>1, CellIsLeast
            <4>4. /\ g[<<i, j>>] \in Nat /\ g[<<i - 1, j>>] \in Nat /\ g[<<i, j - 1>>] \in Nat
                  /\ g[<<i - 1, j - 1>>] \in Nat /\ Cost(v[i], w[j]) \in 0..1
                  /\ \/ g[<<i, j>>] = g[<<i - 1, j>>] + 1
                     \/ g[<<i, j>>] = g[<<i, j - 1>>] + 1
                     \/ g[<<i, j>>] = g[<<i - 1, j - 1>>] + Cost(v[i], w[j])
                BY <1>a, <4>1 DEF LeastOfThree
            <4> HIDE DEF below
            <4>5. CASE g[<<i, j>>] = g[<<i - 1, j>>] + 1
                <5> DEFINE a == f[<<i, j>>]
                           b == f[<<i - 1, j>>]
                           c == g[<<i - 1, j>>]
                           x == g[<<i, j>>]
                <5>1. a \in Nat /\ b \in Nat /\ c \in Nat /\ x \in Nat
                    BY <4>3, <4>4
                <5>2. a <= b + 1 /\ b <= c /\ x = c + 1
                    BY <4>2, <4>3, <4>5
                <5> HIDE DEF a, b, c, x
                <5>3. a <= x
                    BY <5>1, <5>2
                <5> QED
                    BY <5>3 DEF a, x
            <4>6. CASE g[<<i, j>>] = g[<<i, j - 1>>] + 1
                <5> DEFINE a == f[<<i, j>>]
                           b == f[<<i, j - 1>>]
                           c == g[<<i, j - 1>>]
                           x == g[<<i, j>>]
                <5>1. a \in Nat /\ b \in Nat /\ c \in Nat /\ x \in Nat
                    BY <4>3, <4>4
                <5>2. a <= b + 1 /\ b <= c /\ x = c + 1
                    BY <4>2, <4>3, <4>6
                <5> HIDE DEF a, b, c, x
                <5>3. a <= x
                    BY <5>1, <5>2
                <5> QED
                    BY <5>3 DEF a, x
            <4>7. CASE g[<<i, j>>] = g[<<i - 1, j - 1>>] + Cost(v[i], w[j])
                <5> DEFINE a == f[<<i, j>>]
                           b == f[<<i - 1, j - 1>>]
                           c == g[<<i - 1, j - 1>>]
                           x == g[<<i, j>>]
                           s == Cost(v[i], w[j])
                <5>1. a \in Nat /\ b \in Nat /\ c \in Nat /\ x \in Nat
                    BY <4>3, <4>4
                <5>2. s \in 0..1
                    BY CostType
                <5>3. a <= b + s /\ b <= c /\ x = c + s
                    BY <4>2, <4>3, <4>7
                <5> HIDE DEF a, b, c, x, s
                <5>4. a <= x
                    BY <5>1, <5>2, <5>3
                <5> QED
                    BY <5>4 DEF a, x
            <4> QED
                BY <4>4, <4>5, <4>6, <4>7
        <3> QED
            BY <3>1, <3>2
    <2> QED
        BY <2>1
<1>3. \A n \in Nat : n \in below
    <2> HIDE DEF below
    <2> QED
        BY <1>1, <1>2, Inductive
<1>4. ASSUME NEW i \in 0..Len(v), NEW j \in 0..Len(w) PROVE f[<<i, j>>] <= g[<<i, j>>]
    <2>1. i + j + 1 \in Nat /\ i + j < i + j + 1
        BY <1>0
    <2>2. i + j + 1 \in below
        BY <1>3, <2>1
    <2> QED
        BY <2>1, <2>2
<1> QED
    BY <1>4

\* The matrix of two words, in the other order, is the other way round.
LEMMA TableMirrored ==
    ASSUME NEW S, NEW v \in Seq(S), NEW w \in Seq(S), NEW f, NEW g,
           IsTable(v, w, f, "transposing"), IsTable(w, v, g, "transposing")
    PROVE  \A i \in 0..Len(v), j \in 0..Len(w) : f[<<i, j>>] = g[<<j, i>>]
<1> DEFINE agree == {n \in Nat : \A i \in 0..Len(v), j \in 0..Len(w) :
                        i + j < n => f[<<i, j>>] = g[<<j, i>>]}
<1>0. Len(v) \in Nat /\ Len(w) \in Nat /\ "transposing" \in Kinds
    BY DEF Kinds
<1>1. 0 \in agree
    BY <1>0
<1>2. ASSUME NEW n \in agree PROVE n + 1 \in agree
    <2>0. n \in Nat
        OBVIOUS
    <2>1. ASSUME NEW i \in 0..Len(v), NEW j \in 0..Len(w), i + j < n + 1
          PROVE  f[<<i, j>>] = g[<<j, i>>]
        <3>1. CASE i = 0 \/ j = 0
            BY <1>0, <3>1, BorderOfTable
        <3>2. CASE i # 0 /\ j # 0
            <4>1. /\ i \in 1..Len(v) /\ j \in 1..Len(w)
                  /\ i - 1 \in 0..Len(v) /\ j - 1 \in 0..Len(w)
                  /\ i > 2 => i - 2 \in 0..Len(v)
                  /\ j > 2 => j - 2 \in 0..Len(w)
                  /\ (i - 1) + j < n /\ i + (j - 1) < n /\ (i - 1) + (j - 1) < n
                  /\ (i - 2) + (j - 2) < n
                <5> HIDE DEF agree
                <5> QED
                    BY <1>0, <2>0, <2>1, <3>2
            <4>2. /\ f[<<i - 1, j>>] = g[<<j, i - 1>>] /\ f[<<i, j - 1>>] = g[<<j - 1, i>>]
                  /\ f[<<i - 1, j - 1>>] = g[<<j - 1, i - 1>>]
                  /\ i > 2 /\ j > 2 => f[<<i - 2, j - 2>>] = g[<<j - 2, i - 2>>]
                BY <4>1
            <4>3. /\ Cost(v[i], w[j]) = Cost(w[j], v[i])
                  /\ Cost(v[i - 1], w[j]) = Cost(w[j], v[i - 1])
                  /\ Cost(v[i], w[j - 1]) = Cost(w[j - 1], v[i])
                BY DEF Cost
            <4>4. ASSUME i > 2, j > 2, f[<<i - 2, j - 2>>] \in Nat
                  PROVE  Transposed(v, w, i, j, f[<<i - 2, j - 2>>]) =
                            Transposed(w, v, j, i, g[<<j - 2, i - 2>>])
                <5> DEFINE before == f[<<i - 2, j - 2>>]
                           a == Cost(v[i - 1], w[j])
                           b == Cost(v[i], w[j - 1])
                <5>1. a \in Nat /\ b \in Nat /\ before \in Nat
                    <6>1. a \in 0..1 /\ b \in 0..1
                        BY CostType
                    <6>2. before \in Nat
                        BY <4>4
                    <6> HIDE DEF before, a, b
                    <6> QED
                        BY <6>1, <6>2
                <5>2. Transposed(v, w, i, j, before) = before + 1 + a + b
                    BY DEF Transposed
                <5>3. Transposed(w, v, j, i, g[<<j - 2, i - 2>>]) = before + 1 + b + a
                    BY <4>2, <4>3, <4>4 DEF Transposed
                <5> HIDE DEF before, a, b
                <5>4. before + 1 + a + b = before + 1 + b + a
                    BY <5>1
                <5> QED
                    BY <5>2, <5>3, <5>4 DEF before
            <4>5. Options(v, w, f, i, j, "transposing") = Options(w, v, g, j, i, "transposing")
                <5>1. i > 2 /\ j > 2 => f[<<i - 2, j - 2>>] \in Nat
                    BY <1>0, <4>1, CellIsLeast
                <5> HIDE DEF agree
                <5> QED
                    BY <4>2, <4>3, <4>4, <5>1 DEF Options
            <4>6. <<i, j>> \in Cells(v, w) /\ <<j, i>> \in Cells(w, v)
                BY InCells
            <4> QED
                BY <3>2, <4>5, <4>6 DEF IsTable, TableCell
        <3> QED
            BY <3>1, <3>2
    <2> QED
        BY <2>1
<1>3. \A n \in Nat : n \in agree
    <2> HIDE DEF agree
    <2> QED
        BY <1>1, <1>2, Inductive
<1>4. ASSUME NEW i \in 0..Len(v), NEW j \in 0..Len(w) PROVE f[<<i, j>>] = g[<<j, i>>]
    <2>1. i + j + 1 \in Nat /\ i + j < i + j + 1
        BY <1>0
    <2>2. i + j + 1 \in agree
        BY <1>3, <2>1
    <2> QED
        BY <2>1, <2>2
<1> QED
    BY <1>4

\* DamerauLevenshteinDistance() does not depend on the order of its arguments.
THEOREM DistanceIsSymmetric ==
    ASSUME NEW S, NEW v \in Seq(S), NEW w \in Seq(S)
    PROVE  DamerauLevenshteinDistance(v, w) = DamerauLevenshteinDistance(w, v)
<1>1. PICK f : /\ IsTable(v, w, f, "transposing")
               /\ DamerauLevenshteinDistance(v, w) = f[<<Len(v), Len(w)>>]
    BY DistanceIsLastCell
<1>2. PICK g : /\ IsTable(w, v, g, "transposing")
               /\ DamerauLevenshteinDistance(w, v) = g[<<Len(w), Len(v)>>]
    BY DistanceIsLastCell
<1>3. Len(v) \in 0..Len(v) /\ Len(w) \in 0..Len(w)
    OBVIOUS
<1> QED
    BY <1>1, <1>2, <1>3, TableMirrored
-----------------------------------------------------------------------------
(***************************************************************************)
(* Without transpositions, an edit of one word changes a cell by one at    *)
(* most.                                                                   *)
(***************************************************************************)
\* Neighbours in a row differ by one at most.
LEMMA PlainNeighbours ==
    ASSUME NEW S, NEW v \in Seq(S), NEW w \in Seq(S), NEW f, IsTable(v, w, f, "plain")
    PROVE  \A i \in 0..Len(v), j \in 1..Len(w) :
                /\ f[<<i, j - 1>>] <= f[<<i, j>>] + 1
                /\ f[<<i, j>>] <= f[<<i, j - 1>>] + 1
<1> DEFINE rows == {n \in Nat : \A i \in 0..Len(v), j \in 1..Len(w) :
                        i = n => /\ f[<<i, j - 1>>] <= f[<<i, j>>] + 1
                                 /\ f[<<i, j>>] <= f[<<i, j - 1>>] + 1}
<1>0. Len(v) \in Nat /\ Len(w) \in Nat /\ "plain" \in Kinds
    BY DEF Kinds
<1>1. 0 \in rows
    <2>1. ASSUME NEW j \in 1..Len(w)
          PROVE  /\ f[<<0, j - 1>>] <= f[<<0, j>>] + 1
                 /\ f[<<0, j>>] <= f[<<0, j - 1>>] + 1
        <3>1. j \in 0..Len(w) /\ j - 1 \in 0..Len(w)
            BY <1>0
        <3>2. f[<<0, j>>] = j /\ f[<<0, j - 1>>] = j - 1
            BY <1>0, <3>1, BorderOfTable
        <3> QED
            BY <1>0, <3>2
    <2> QED
        BY <2>1
<1>2. ASSUME NEW n \in rows PROVE n + 1 \in rows
    <2>0. n \in Nat
        OBVIOUS
    <2>1. ASSUME NEW i \in 0..Len(v), NEW j \in 1..Len(w), i = n + 1
          PROVE  /\ f[<<i, j - 1>>] <= f[<<i, j>>] + 1
                 /\ f[<<i, j>>] <= f[<<i, j - 1>>] + 1
        <3>1. i \in 1..Len(v) /\ i - 1 = n /\ i - 1 \in 0..Len(v) /\ j - 1 \in 0..Len(w)
            BY <1>0, <2>0, <2>1
        <3>2. /\ f[<<i - 1, j - 1>>] <= f[<<i - 1, j>>] + 1
              /\ f[<<i - 1, j>>] <= f[<<i - 1, j - 1>>] + 1
            BY <3>1
        <3>3. f[<<i, j - 1>>] <= f[<<i - 1, j - 1>>] + 1
            <4>1. CASE j = 1
                <5>1. f[<<i, 0>>] = i /\ f[<<i - 1, 0>>] = i - 1
                    BY <1>0, <3>1, BorderOfTable
                <5> QED
                    BY <1>0, <4>1, <5>1
            <4>2. CASE j # 1
                <5>1. j - 1 \in 1..Len(w)
                    BY <1>0, <4>2
                <5> QED
                    BY <3>1, <5>1, PlainCellIsLeast
            <4> QED
                BY <4>1, <4>2
        <3>4. f[<<i, j - 1>>] \in Nat /\ f[<<i - 1, j>>] \in Nat /\ f[<<i - 1, j - 1>>] \in Nat
            BY <3>1, PlainCellIsLeast
        <3>5. /\ f[<<i, j>>] \in Nat /\ Cost(v[i], w[j]) \in 0..1
              /\ f[<<i, j>>] <= f[<<i, j - 1>>] + 1
              /\ \/ f[<<i, j>>] = f[<<i - 1, j>>] + 1
                 \/ f[<<i, j>>] = f[<<i, j - 1>>] + 1
                 \/ f[<<i, j>>] = f[<<i - 1, j - 1>>] + Cost(v[i], w[j])
            BY <3>1, PlainCellIsLeast
        <3> HIDE DEF rows
        <3>6. CASE f[<<i, j>>] = f[<<i - 1, j>>] + 1
            <4> DEFINE a == f[<<i, j - 1>>]
                       b == f[<<i - 1, j - 1>>]
                       c == f[<<i - 1, j>>]
                       x == f[<<i, j>>]
            <4>1. a \in Nat /\ b \in Nat /\ c \in Nat /\ x \in Nat
                BY <3>4, <3>5
            <4>2. a <= b + 1 /\ b <= c + 1 /\ x = c + 1 /\ x <= a + 1
                BY <3>2, <3>3, <3>5, <3>6
            <4> HIDE DEF a, b, c, x
            <4>3. a <= x + 1 /\ x <= a + 1
                BY <4>1, <4>2
            <4> QED
                BY <4>3 DEF a, x
        <3>7. CASE f[<<i, j>>] = f[<<i, j - 1>>] + 1
            BY <3>4, <3>5, <3>7
        <3>8. CASE f[<<i, j>>] = f[<<i - 1, j - 1>>] + Cost(v[i], w[j])
            BY <3>3, <3>4, <3>5, <3>8
        <3> QED
            BY <3>5, <3>6, <3>7, <3>8
    <2> QED
        BY <2>1
<1>3. \A n \in Nat : n \in rows
    <2> HIDE DEF rows
    <2> QED
        BY <1>1, <1>2, Inductive
<1>4. \A i \in 0..Len(v) : i \in Nat /\ i \in rows
    <2> HIDE DEF rows
    <2> QED
        BY <1>0, <1>3
<1> QED
    BY <1>4

\* The q-th to the r-th character of one word are those d farther on in the other.
Alike(u, w, q, r, d) == \A j \in (q + 1)..r : u[j] = w[j + d]

\* A column of one matrix exceeds one of the other by e at most.
Near(f, g, n, j, k, e) == \A i \in 0..n : g[<<i, j>>] <= f[<<i, k>>] + e

\* Where two words go on alike, d characters apart, from the q-th to the r-th
\* character of the one, cells that differ by e at most go on to do so.
LEMMA AlikeColumns ==
    ASSUME NEW S, NEW v \in Seq(S), NEW w \in Seq(S), NEW u \in Seq(S), NEW f, NEW g,
           IsTable(v, w, f, "plain"), IsTable(v, u, g, "plain"),
           NEW d \in -1..1, NEW e \in 0..1, d + e >= 0,
           NEW q \in 0..Len(u), NEW r \in q..Len(u), q + d >= 0, r + d <= Len(w),
           Alike(u, w, q, r, d), Near(f, g, Len(v), q, q + d, e)
    PROVE  \A j \in q..r : Near(f, g, Len(v), j, j + d, e)
<1> DEFINE near == {n \in Nat : \A i \in 0..Len(v), j \in q..r :
                        i + j < n => g[<<i, j>>] <= f[<<i, j + d>>] + e}
<1>0. /\ Len(v) \in Nat /\ Len(w) \in Nat /\ Len(u) \in Nat /\ "plain" \in Kinds
      /\ q \in Nat /\ r \in Nat /\ r <= Len(u) /\ d \in Int /\ e \in Nat
    BY DEF Kinds
<1>a. LeastOfThree(v, w, f)
    BY PlainCellsAreLeastOfThree
<1>1. 0 \in near
    BY <1>0
<1>2. ASSUME NEW n \in near PROVE n + 1 \in near
    <2>0. n \in Nat
        OBVIOUS
    <2>1. ASSUME NEW i \in 0..Len(v), NEW j \in q..r, i + j < n + 1
          PROVE  g[<<i, j>>] <= f[<<i, j + d>>] + e
        <3>1. CASE j = q
            BY <3>1 DEF Near
        <3>2. CASE i = 0
            <4>1. j \in 0..Len(u) /\ j + d \in 0..Len(w)
                <5> HIDE DEF near
                <5>1. j \in Nat /\ j >= q /\ j <= r
                    BY <1>0
                <5> QED
                    BY <1>0, <5>1
            <4>2. g[<<0, j>>] = j /\ f[<<0, j + d>>] = j + d
                BY <1>0, <4>1, BorderOfTable
            <4> QED
                BY <1>0, <3>2, <4>2
        <3>3. CASE j # q /\ i # 0
            <4>1. /\ i \in 1..Len(v) /\ j \in 1..Len(u) /\ j + d \in 1..Len(w)
                  /\ i - 1 \in 0..Len(v) /\ j - 1 \in q..r
                  /\ (i - 1) + j < n /\ i + (j - 1) < n /\ (i - 1) + (j - 1) < n
                  /\ (j - 1) + d = (j + d) - 1
                  /\ j \in (q + 1)..r
                <5> HIDE DEF near
                <5>1. i \in Nat /\ i >= 1 /\ i <= Len(v) /\ j \in Nat /\ j >= q + 1 /\ j <= r
                    BY <1>0, <3>3
                <5>2. i \in 1..Len(v) /\ j \in 1..Len(u) /\ i - 1 \in 0..Len(v)
                    BY <1>0, <5>1
                <5>3. j + d \in 1..Len(w) /\ j - 1 \in q..r /\ j \in (q + 1)..r
                    BY <1>0, <5>1
                <5>4. (i - 1) + j < n /\ i + (j - 1) < n /\ (i - 1) + (j - 1) < n
                    BY <2>0, <2>1, <5>1
                <5>5. (j - 1) + d = (j + d) - 1
                    BY <1>0, <5>1
                <5> QED
                    BY <5>2, <5>3, <5>4, <5>5
            <4>2. /\ g[<<i - 1, j>>] <= f[<<i - 1, j + d>>] + e
                  /\ g[<<i, j - 1>>] <= f[<<i, (j + d) - 1>>] + e
                  /\ g[<<i - 1, j - 1>>] <= f[<<i - 1, (j + d) - 1>>] + e
                BY <4>1
            <4>3. /\ g[<<i, j>>] \in Nat /\ g[<<i - 1, j>>] \in Nat /\ g[<<i, j - 1>>] \in Nat
                  /\ g[<<i - 1, j - 1>>] \in Nat
                  /\ g[<<i, j>>] <= g[<<i - 1, j>>] + 1 /\ g[<<i, j>>] <= g[<<i, j - 1>>] + 1
                  /\ g[<<i, j>>] <= g[<<i - 1, j - 1>>] + Cost(v[i], u[j])
                BY <4>1, PlainCellIsLeast
            <4> DEFINE k == j + d
            <4>k. k \in 1..Len(w)
                BY <4>1
            <4> HIDE DEF k
            <4>4. /\ f[<<i, k>>] \in Nat /\ f[<<i - 1, k>>] \in Nat /\ f[<<i, k - 1>>] \in Nat
                  /\ f[<<i - 1, k - 1>>] \in Nat /\ Cost(v[i], w[k]) \in 0..1
                  /\ \/ f[<<i, k>>] = f[<<i - 1, k>>] + 1
                     \/ f[<<i, k>>] = f[<<i, k - 1>>] + 1
                     \/ f[<<i, k>>] = f[<<i - 1, k - 1>>] + Cost(v[i], w[k])
                BY <4>1, <4>k, <1>a DEF LeastOfThree
            <4>5. Cost(v[i], u[j]) = Cost(v[i], w[k])
                BY <4>1 DEF k, Alike
            <4>6. /\ g[<<i - 1, j>>] <= f[<<i - 1, k>>] + e
                  /\ g[<<i, j - 1>>] <= f[<<i, k - 1>>] + e
                  /\ g[<<i - 1, j - 1>>] <= f[<<i - 1, k - 1>>] + e
                BY <4>2 DEF k
            <4> HIDE DEF near
            <4>7. ASSUME f[<<i, k>>] = f[<<i - 1, k>>] + 1
                  PROVE  g[<<i, j>>] <= f[<<i, k>>] + e
                <5> DEFINE a == g[<<i, j>>]
                           b == g[<<i - 1, j>>]
                           c == f[<<i - 1, k>>]
                           x == f[<<i, k>>]
                           s == 1
                <5>1. a \in Nat /\ b \in Nat /\ c \in Nat /\ x \in Nat /\ s \in Nat
                    BY <4>3, <4>4
                <5>2. a <= b + s /\ b <= c + e /\ x = c + s
                    BY <4>3, <4>6, <4>7
                <5> HIDE DEF a, b, c, x, s
                <5>3. a <= x + e
                    BY <1>0, <5>1, <5>2
                <5> QED
                    BY <5>3 DEF a, x
            <4>8. ASSUME f[<<i, k>>] = f[<<i, k - 1>>] + 1
                  PROVE  g[<<i, j>>] <= f[<<i, k>>] + e
                <5> DEFINE a == g[<<i, j>>]
                           b == g[<<i, j - 1>>]
                           c == f[<<i, k - 1>>]
                           x == f[<<i, k>>]
                           s == 1
                <5>1. a \in Nat /\ b \in Nat /\ c \in Nat /\ x \in Nat /\ s \in Nat
                    BY <4>3, <4>4
                <5>2. a <= b + s /\ b <= c + e /\ x = c + s
                    BY <4>3, <4>6, <4>8
                <5> HIDE DEF a, b, c, x, s
                <5>3. a <= x + e
                    BY <1>0, <5>1, <5>2
                <5> QED
                    BY <5>3 DEF a, x
            <4>9. ASSUME f[<<i, k>>] = f[<<i - 1, k - 1>>] + Cost(v[i], w[k])
                  PROVE  g[<<i, j>>] <= f[<<i, k>>] + e
                <5> DEFINE a == g[<<i, j>>]
                           b == g[<<i - 1, j - 1>>]
                           c == f[<<i - 1, k - 1>>]
                           x == f[<<i, k>>]
                           s == Cost(v[i], w[k])
                <5>1. a \in Nat /\ b \in Nat /\ c \in Nat /\ x \in Nat /\ s \in Nat
                    <6>1. s \in 0..1
                        BY CostType
                    <6>2. a \in Nat /\ b \in Nat /\ c \in Nat /\ x \in Nat
                        BY <4>3, <4>4
                    <6> HIDE DEF a, b, c, x, s
                    <6> QED
                        BY <6>1, <6>2
                <5>2. a <= b + s /\ b <= c + e /\ x = c + s
                    BY <4>3, <4>5, <4>6, <4>9
                <5> HIDE DEF a, b, c, x, s
                <5>3. a <= x + e
                    BY <1>0, <5>1, <5>2
                <5> QED
                    BY <5>3 DEF a, x
            <4> QED
                BY <4>4, <4>7, <4>8, <4>9 DEF k
        <3> QED
            BY <3>1, <3>2, <3>3
    <2> QED
        BY <2>1
<1>3. \A n \in Nat : n \in near
    <2> HIDE DEF near
    <2> QED
        BY <1>1, <1>2, Inductive
<1>4. ASSUME NEW i \in 0..Len(v), NEW j \in q..r PROVE g[<<i, j>>] <= f[<<i, j + d>>] + e
    <2>1. i + j + 1 \in Nat /\ i + j < i + j + 1
        BY <1>0
    <2>2. i + j + 1 \in near
        BY <1>3, <2>1
    <2> QED
        BY <2>1, <2>2
<1> QED
    BY <1>4 DEF Near
-----------------------------------------------------------------------------
(***************************************************************************)
(* What one edit of a word changes in the last column.                     *)
(***************************************************************************)

\* What RemoveAt() of the library removes.
LEMMA RemovedWord ==
    ASSUME NEW S, NEW w \in Seq(S), NEW p \in 1..Len(w)
    PROVE  /\ RemoveAt(w, p) \in Seq(S)
           /\ Len(RemoveAt(w, p)) = Len(w) - 1
           /\ \A j \in 1..(p - 1) : RemoveAt(w, p)[j] = w[j]
           /\ \A j \in p..(Len(w) - 1) : RemoveAt(w, p)[j] = w[j + 1]
<1> DEFINE s == SubSeq(w, 1, p - 1)
           t == SubSeq(w, p + 1, Len(w))
<1>0. Len(w) \in Nat /\ p \in Nat /\ p >= 1 /\ p <= Len(w)
    OBVIOUS
<1>1. /\ s \in Seq(S) /\ Len(s) = p - 1
      /\ \A j \in 1..(p - 1) : s[j] = w[j]
    <2>1. \A j \in 1..(p - 1) : w[j] \in S
        BY <1>0, ElementOfSeq
    <2>2. /\ s \in Seq(S) /\ Len(s) = IF 1 <= p - 1 THEN p - 1 - 1 + 1 ELSE 0
          /\ \A j \in 1..(p - 1 - 1 + 1) : s[j] = w[1 + j - 1]
        BY <1>0, <2>1, SubSeqProperties
    <2> HIDE DEF s
    <2>3. Len(s) = p - 1
        BY <1>0, <2>2
    <2>4. p - 1 - 1 + 1 = p - 1 /\ \A j \in 1..(p - 1) : 1 + j - 1 = j
        BY <1>0
    <2> QED
        BY <2>2, <2>3, <2>4
<1>2. /\ t \in Seq(S) /\ Len(t) = Len(w) - p
      /\ \A j \in 1..(Len(w) - p) : t[j] = w[p + j]
    <2>1. \A j \in (p + 1)..Len(w) : w[j] \in S
        BY <1>0, ElementOfSeq
    <2>2. /\ t \in Seq(S) /\ Len(t) = IF p + 1 <= Len(w) THEN Len(w) - (p + 1) + 1 ELSE 0
          /\ \A j \in 1..(Len(w) - (p + 1) + 1) : t[j] = w[p + 1 + j - 1]
        BY <1>0, <2>1, SubSeqProperties
    <2> HIDE DEF t
    <2>3. Len(t) = Len(w) - p
        BY <1>0, <2>2
    <2>4. /\ Len(w) - (p + 1) + 1 = Len(w) - p
          /\ \A j \in 1..(Len(w) - p) : p + 1 + j - 1 = p + j
        BY <1>0
    <2> QED
        BY <2>2, <2>3, <2>4
<1>3. RemoveAt(w, p) = s \o t
    BY DEF RemoveAt
<1> HIDE DEF s, t
<1>4. /\ s \o t \in Seq(S) /\ Len(s \o t) = Len(s) + Len(t)
      /\ \A j \in 1..(Len(s) + Len(t)) :
            (s \o t)[j] = IF j <= Len(s) THEN s[j] ELSE t[j - Len(s)]
    BY <1>1, <1>2, ConcatProperties
<1>5. Len(s \o t) = Len(w) - 1
    BY <1>0, <1>1, <1>2, <1>4
<1>6. ASSUME NEW j \in 1..(p - 1) PROVE (s \o t)[j] = w[j]
    <2>1. j \in 1..(Len(s) + Len(t)) /\ j <= Len(s)
        BY <1>0, <1>1, <1>2
    <2> QED
        BY <1>1, <1>4, <2>1
<1>7. ASSUME NEW j \in p..(Len(w) - 1) PROVE (s \o t)[j] = w[j + 1]
    <2>1. /\ j \in 1..(Len(s) + Len(t)) /\ ~(j <= Len(s))
          /\ j - Len(s) \in 1..(Len(w) - p) /\ p + (j - Len(s)) = j + 1
        BY <1>0, <1>1, <1>2
    <2> QED
        BY <1>2, <1>4, <2>1
<1> QED
    BY <1>3, <1>4, <1>5, <1>6, <1>7

\* Two matrices without transpositions begin with the same column.
LEMMA FirstColumns ==
    ASSUME NEW S, NEW v \in Seq(S), NEW w \in Seq(S), NEW u \in Seq(S), NEW f, NEW g,
           IsTable(v, w, f, "plain"), IsTable(v, u, g, "plain")
    PROVE  Near(f, g, Len(v), 0, 0, 0)
<1>1. "plain" \in Kinds
    BY DEF Kinds
<1>2. /\ \A i \in 0..Len(v) : f[<<i, 0>>] = i
      /\ \A j \in 0..Len(w) : f[<<0, j>>] = j
    BY <1>1, BorderOfTable
<1>3. /\ \A i \in 0..Len(v) : g[<<i, 0>>] = i
      /\ \A j \in 0..Len(u) : g[<<0, j>>] = j
    BY <1>1, BorderOfTable
<1>4. ASSUME NEW i \in 0..Len(v) PROVE g[<<i, 0>>] <= f[<<i, 0>>] + 0
    <2>1. i \in Nat /\ i <= i + 0
        OBVIOUS
    <2> QED
        BY <1>2, <1>3, <2>1
<1> QED
    BY <1>4 DEF Near

\* Columns are as near where words begin alike.
LEMMA AlikeFromTheStart ==
    ASSUME NEW S, NEW v \in Seq(S), NEW w \in Seq(S), NEW u \in Seq(S), NEW f, NEW g,
           IsTable(v, w, f, "plain"), IsTable(v, u, g, "plain"),
           NEW r \in Nat, r <= Len(u), r <= Len(w), \A j \in 1..r : u[j] = w[j]
    PROVE  Near(f, g, Len(v), r, r, 0)
<1>1. Near(f, g, Len(v), 0, 0 + 0, 0)
    BY FirstColumns
<1>2. Alike(u, w, 0, r, 0)
    <2>1. \A j \in (0 + 1)..r : j + 0 = j /\ j \in 1..r
        OBVIOUS
    <2> QED
        BY <2>1 DEF Alike
<1>3. /\ 0 \in -1..1 /\ 0 \in 0..1 /\ 0 \in 0..Len(u) /\ r \in 0..Len(u)
      /\ r + 0 <= Len(w) /\ 0 + 0 >= 0 /\ r \in 0..r /\ r + 0 = r
    OBVIOUS
<1>4. \A j \in 0..r : Near(f, g, Len(v), j, j + 0, 0)
    BY <1>1, <1>2, <1>3, AlikeColumns
<1> QED
    BY <1>3, <1>4

\* Deleting a character of one word.
LEMMA DeletedFromOne ==
    ASSUME NEW S, NEW v \in Seq(S), NEW w \in Seq(S), NEW p \in 1..Len(w), NEW f, NEW g,
           IsTable(v, w, f, "plain"), IsTable(v, RemoveAt(w, p), g, "plain")
    PROVE  /\ Near(f, g, Len(v), Len(w) - 1, Len(w), 1)
           /\ Near(g, f, Len(v), Len(w), Len(w) - 1, 1)
<1> DEFINE u == RemoveAt(w, p)
<1>0. Len(w) \in Nat /\ p \in Nat /\ p >= 1 /\ p <= Len(w) /\ "plain" \in Kinds
    BY DEF Kinds
<1>1. /\ u \in Seq(S) /\ Len(u) = Len(w) - 1
      /\ \A j \in 1..(p - 1) : u[j] = w[j]
      /\ \A j \in p..(Len(w) - 1) : u[j] = w[j + 1]
    BY RemovedWord
<1>2. IsTable(v, u, g, "plain")
    OBVIOUS
<1> HIDE DEF u
<1>3. p - 1 \in Nat /\ p - 1 <= Len(u) /\ p - 1 <= Len(w)
    BY <1>0, <1>1
<1>4. Near(f, g, Len(v), p - 1, p - 1, 0)
    BY <1>1, <1>2, <1>3, AlikeFromTheStart
<1>5. Near(g, f, Len(v), p - 1, p - 1, 0)
    BY <1>1, <1>2, <1>3, AlikeFromTheStart
<1>6. \A i \in 0..Len(v) : /\ f[<<i, p - 1>>] <= f[<<i, p>>] + 1
                           /\ f[<<i, p>>] <= f[<<i, p - 1>>] + 1
    BY PlainNeighbours
<1>7. \A i \in 0..Len(v) : /\ f[<<i, p - 1>>] \in Nat /\ f[<<i, p>>] \in Nat
                           /\ g[<<i, p - 1>>] \in Nat
    <2>1. p \in 0..Len(w) /\ p - 1 \in 0..Len(w) /\ p - 1 \in 0..Len(u)
        BY <1>0, <1>1
    <2> QED
        BY <1>0, <1>1, <1>2, <2>1, BorderOfTable
<1>8. Near(f, g, Len(v), p - 1, (p - 1) + 1, 1)
    <2>1. (p - 1) + 1 = p
        BY <1>0
    <2>2. ASSUME NEW i \in 0..Len(v) PROVE g[<<i, p - 1>>] <= f[<<i, p>>] + 1
        <3>1. g[<<i, p - 1>>] <= f[<<i, p - 1>>] + 0
            BY <1>4 DEF Near
        <3> QED
            BY <1>6, <1>7, <3>1
    <2> QED
        BY <2>1, <2>2 DEF Near
<1>9. Near(g, f, Len(v), p, p + (-1), 1)
    <2>1. p + (-1) = p - 1
        BY <1>0
    <2>2. ASSUME NEW i \in 0..Len(v) PROVE f[<<i, p>>] <= g[<<i, p - 1>>] + 1
        <3>1. f[<<i, p - 1>>] <= g[<<i, p - 1>>] + 0
            BY <1>5 DEF Near
        <3> QED
            BY <1>6, <1>7, <3>1
    <2> QED
        BY <2>1, <2>2 DEF Near
<1>10. Near(f, g, Len(v), Len(w) - 1, Len(w), 1)
    <2>1. Alike(u, w, p - 1, Len(u), 1)
        <3>1. \A j \in ((p - 1) + 1)..Len(u) : j \in p..(Len(w) - 1)
            BY <1>0, <1>1
        <3> QED
            BY <1>1, <3>1 DEF Alike
    <2>2. /\ 1 \in -1..1 /\ 1 \in 0..1 /\ 1 + 1 >= 0 /\ p - 1 \in 0..Len(u)
          /\ Len(u) \in (p - 1)..Len(u) /\ (p - 1) + 1 >= 0 /\ Len(u) + 1 <= Len(w)
          /\ Len(u) + 1 = Len(w)
        BY <1>0, <1>1
    <2>3. \A j \in (p - 1)..Len(u) : Near(f, g, Len(v), j, j + 1, 1)
        BY <1>1, <1>2, <1>8, <2>1, <2>2, AlikeColumns
    <2>4. Near(f, g, Len(v), Len(u), Len(u) + 1, 1)
        BY <2>2, <2>3
    <2> QED
        BY <1>1, <2>2, <2>4
<1>11. Near(g, f, Len(v), Len(w), Len(w) - 1, 1)
    <2>1. Alike(w, u, p, Len(w), -1)
        <3>1. ASSUME NEW j \in (p + 1)..Len(w) PROVE w[j] = u[j + (-1)]
            <4>1. j + (-1) \in p..(Len(w) - 1) /\ (j + (-1)) + 1 = j
                BY <1>0
            <4> QED
                BY <1>1, <4>1
        <3> QED
            BY <3>1 DEF Alike
    <2>2. /\ -1 \in -1..1 /\ 1 \in 0..1 /\ -1 + 1 >= 0 /\ p \in 0..Len(w)
          /\ Len(w) \in p..Len(w) /\ p + (-1) >= 0 /\ Len(w) + (-1) <= Len(u)
          /\ Len(w) + (-1) = Len(w) - 1
        BY <1>0, <1>1
    <2>3. \A j \in p..Len(w) : Near(g, f, Len(v), j, j + (-1), 1)
        BY <1>1, <1>2, <1>9, <2>1, <2>2, AlikeColumns
    <2>4. Near(g, f, Len(v), Len(w), Len(w) + (-1), 1)
        BY <2>2, <2>3
    <2> QED
        BY <2>2, <2>4
<1> QED
    BY <1>10, <1>11

\* Two words that differ in the p-th character at most.
DifferAt(w, u, p) == Len(u) = Len(w) /\ \A j \in (1..Len(w)) \ {p} : u[j] = w[j]

\* Substituting a character of one word.
LEMMA SubstitutedInOne ==
    ASSUME NEW S, NEW v \in Seq(S), NEW w \in Seq(S), NEW u \in Seq(S),
           NEW p \in 1..Len(w), DifferAt(w, u, p), NEW f, NEW g,
           IsTable(v, w, f, "plain"), IsTable(v, u, g, "plain")
    PROVE  Near(f, g, Len(v), Len(u), Len(w), 1)
<1>0. /\ Len(v) \in Nat /\ Len(w) \in Nat /\ p \in Nat /\ p >= 1 /\ p <= Len(w)
      /\ "plain" \in Kinds /\ Len(u) = Len(w)
    BY DEF Kinds, DifferAt
<1>1. Near(f, g, Len(v), p - 1, p - 1, 0)
    <2>1. p - 1 \in Nat /\ p - 1 <= Len(u) /\ p - 1 <= Len(w)
        BY <1>0
    <2>2. \A j \in 1..(p - 1) : j \in (1..Len(w)) \ {p}
        BY <1>0
    <2>3. \A j \in 1..(p - 1) : u[j] = w[j]
        BY <2>2 DEF DifferAt
    <2> QED
        BY <2>1, <2>3, AlikeFromTheStart
<1>a. LeastOfThree(v, w, f)
    BY PlainCellsAreLeastOfThree
<1> DEFINE rows == {n \in Nat : \A i \in 0..Len(v) : i = n => g[<<i, p>>] <= f[<<i, p>>] + 1}
<1>2. 0 \in rows
    <2>1. p \in 0..Len(w) /\ p \in 0..Len(u)
        BY <1>0
    <2>2. f[<<0, p>>] = p
        BY <1>0, <2>1, BorderOfTable
    <2>3. g[<<0, p>>] = p
        BY <1>0, <2>1, BorderOfTable
    <2> QED
        BY <1>0, <2>2, <2>3
<1>3. ASSUME NEW n \in rows PROVE n + 1 \in rows
    <2>0. n \in Nat
        OBVIOUS
    <2>1. ASSUME NEW i \in 0..Len(v), i = n + 1 PROVE g[<<i, p>>] <= f[<<i, p>>] + 1
        <3>1. /\ i \in 1..Len(v) /\ i - 1 = n /\ i - 1 \in 0..Len(v)
              /\ p \in 1..Len(w) /\ p \in 1..Len(u)
            BY <1>0, <2>0, <2>1
        <3>2. g[<<i - 1, p>>] <= f[<<i - 1, p>>] + 1
            BY <3>1
        <3> HIDE DEF rows
        <3>3. /\ g[<<i, p - 1>>] <= f[<<i, p - 1>>] + 0
              /\ g[<<i - 1, p - 1>>] <= f[<<i - 1, p - 1>>] + 0
            BY <1>1, <3>1 DEF Near
        <3>4. /\ g[<<i, p>>] \in Nat /\ g[<<i - 1, p>>] \in Nat /\ g[<<i, p - 1>>] \in Nat
              /\ g[<<i - 1, p - 1>>] \in Nat /\ Cost(v[i], u[p]) \in 0..1
              /\ g[<<i, p>>] <= g[<<i - 1, p>>] + 1 /\ g[<<i, p>>] <= g[<<i, p - 1>>] + 1
              /\ g[<<i, p>>] <= g[<<i - 1, p - 1>>] + Cost(v[i], u[p])
            BY <3>1, PlainCellIsLeast
        <3>5. /\ f[<<i, p>>] \in Nat /\ f[<<i - 1, p>>] \in Nat /\ f[<<i, p - 1>>] \in Nat
              /\ f[<<i - 1, p - 1>>] \in Nat
              /\ Cost(v[i], w[p]) \in 0..1
              /\ \/ f[<<i, p>>] = f[<<i - 1, p>>] + 1
                 \/ f[<<i, p>>] = f[<<i, p - 1>>] + 1
                 \/ f[<<i, p>>] = f[<<i - 1, p - 1>>] + Cost(v[i], w[p])
            BY <3>1, <1>a DEF LeastOfThree
        <3>6. CASE f[<<i, p>>] = f[<<i - 1, p>>] + 1
            <4> DEFINE x == f[<<i, p>>]
                       y == g[<<i, p>>]
                       x0 == f[<<i - 1, p>>]
                       y0 == g[<<i - 1, p>>]
            <4>1. x \in Nat /\ y \in Nat /\ x0 \in Nat /\ y0 \in Nat
                BY <3>4, <3>5
            <4>2. y <= y0 + 1 /\ y0 <= x0 + 1 /\ x = x0 + 1
                BY <3>2, <3>4, <3>6
            <4> HIDE DEF x, y, x0, y0
            <4>3. y <= x + 1
                BY <4>1, <4>2
            <4> QED
                BY <4>3 DEF x, y
        <3>7. CASE f[<<i, p>>] = f[<<i, p - 1>>] + 1
            <4> DEFINE x == f[<<i, p>>]
                       y == g[<<i, p>>]
                       x0 == f[<<i, p - 1>>]
                       y0 == g[<<i, p - 1>>]
            <4>1. x \in Nat /\ y \in Nat /\ x0 \in Nat /\ y0 \in Nat
                BY <3>4, <3>5
            <4>2. y <= y0 + 1 /\ y0 <= x0 + 0 /\ x = x0 + 1
                BY <3>3, <3>4, <3>7
            <4> HIDE DEF x, y, x0, y0
            <4>3. y <= x + 1
                BY <4>1, <4>2
            <4> QED
                BY <4>3 DEF x, y
        <3>8. CASE f[<<i, p>>] = f[<<i - 1, p - 1>>] + Cost(v[i], w[p])
            <4> DEFINE a == Cost(v[i], w[p])
                       b == Cost(v[i], u[p])
                       x == f[<<i, p>>]
                       y == g[<<i, p>>]
                       x0 == f[<<i - 1, p - 1>>]
                       y0 == g[<<i - 1, p - 1>>]
            <4>1. a \in 0..1 /\ b \in 0..1
                BY CostType
            <4>2. x \in Nat /\ y \in Nat /\ x0 \in Nat /\ y0 \in Nat
                BY <3>4, <3>5
            <4>3. y <= y0 + b /\ y0 <= x0 + 0 /\ x = x0 + a
                BY <3>3, <3>4, <3>8
            <4> HIDE DEF a, b, x, y, x0, y0
            <4>4. y <= x + 1
                BY <4>1, <4>2, <4>3
            <4> QED
                BY <4>4 DEF x, y
        <3> QED
            BY <3>5, <3>6, <3>7, <3>8
    <2> QED
        BY <2>1
<1>4. \A n \in Nat : n \in rows
    <2> HIDE DEF rows
    <2> QED
        BY <1>2, <1>3, Inductive
<1>5. Near(f, g, Len(v), p, p + 0, 1)
    <2>1. p + 0 = p
        BY <1>0
    <2>2. \A i \in 0..Len(v) : i \in Nat /\ i \in rows
        <3> HIDE DEF rows
        <3> QED
            BY <1>0, <1>4
    <2>3. \A i \in 0..Len(v) : g[<<i, p>>] <= f[<<i, p>>] + 1
        BY <2>2
    <2> QED
        BY <2>1, <2>3 DEF Near
<1> HIDE DEF rows
<1>6. Alike(u, w, p, Len(u), 0)
    <2>1. ASSUME NEW j \in (p + 1)..Len(u) PROVE u[j] = w[j + 0]
        <3>1. j \in (1..Len(w)) \ {p} /\ j + 0 = j
            BY <1>0
        <3> QED
            BY <3>1 DEF DifferAt
    <2> QED
        BY <2>1 DEF Alike
<1>7. /\ 0 \in -1..1 /\ 1 \in 0..1 /\ 0 + 1 >= 0 /\ p \in 0..Len(u) /\ Len(u) \in p..Len(u)
      /\ p + 0 >= 0 /\ Len(u) + 0 <= Len(w) /\ Len(u) + 0 = Len(w)
    BY <1>0
<1>8. \A j \in p..Len(u) : Near(f, g, Len(v), j, j + 0, 1)
    BY <1>5, <1>6, <1>7, AlikeColumns
<1>9. Near(f, g, Len(v), Len(u), Len(u) + 0, 1)
    BY <1>7, <1>8
<1> QED
    BY <1>7, <1>9

\* One edit other than a transposition, of either word, changes the last cell by one
\* at most.
LEMMA OneEditNearer ==
    ASSUME NEW S, NEW v \in Seq(S), NEW w \in Seq(S), NEW u \in Seq(S), NEW f, NEW g,
           IsTable(v, w, f, "plain"), IsTable(v, u, g, "plain"),
           Substitutes(w, u) \/ Deletes(w, u) \/ Deletes(u, w)
    PROVE  g[<<Len(v), Len(u)>>] <= f[<<Len(v), Len(w)>>] + 1
<1>0. /\ Len(v) \in Nat /\ Len(v) \in 0..Len(v) /\ Len(w) \in Nat /\ Len(u) \in Nat
      /\ DOMAIN w = 1..Len(w) /\ DOMAIN u = 1..Len(u)
    OBVIOUS
<1>1. CASE Substitutes(w, u)
    <2> DEFINE differ == {i \in DOMAIN w : w[i] # u[i]}
    <2>1. Len(w) = Len(u) /\ Cardinality(differ) = 1
        BY <1>1 DEF Substitutes
    <2>2. IsFiniteSet(differ)
        <3>1. IsFiniteSet(1..Len(w)) /\ differ \subseteq 1..Len(w)
            BY <1>0, FS_Interval
        <3> QED
            BY <3>1, FS_Subset
    <2>3. PICK p : differ = {p}
        BY <2>1, <2>2, FS_Singleton
    <2>4. p \in 1..Len(w) /\ DifferAt(w, u, p)
        BY <1>0, <2>1, <2>3 DEF DifferAt
    <2>5. Near(f, g, Len(v), Len(u), Len(w), 1)
        BY <2>4, SubstitutedInOne
    <2> QED
        BY <1>0, <2>5 DEF Near
<1>2. CASE Deletes(w, u)
    <2>1. PICK p \in 1..Len(w) : u = RemoveAt(w, p)
        BY <1>0, <1>2 DEF Deletes
    <2>2. Len(u) = Len(w) - 1
        BY <2>1, RemovedWord
    <2>3. Near(f, g, Len(v), Len(w) - 1, Len(w), 1)
        BY <2>1, DeletedFromOne
    <2> QED
        BY <1>0, <2>2, <2>3 DEF Near
<1>3. CASE Deletes(u, w)
    <2>1. PICK p \in 1..Len(u) : w = RemoveAt(u, p)
        BY <1>0, <1>3 DEF Deletes
    <2>2. Len(w) = Len(u) - 1
        BY <2>1, RemovedWord
    <2>3. Near(f, g, Len(v), Len(u), Len(u) - 1, 1)
        BY <2>1, DeletedFromOne
    <2> QED
        BY <1>0, <2>2, <2>3 DEF Near
<1> QED
    BY <1>1, <1>2, <1>3

\* A word is not away from itself.
LEMMA NoDistanceToItself ==
    ASSUME NEW S, NEW v \in Seq(S), NEW f, IsTable(v, v, f, "plain")
    PROVE  f[<<Len(v), Len(v)>>] = 0
<1> DEFINE diagonal == {n \in Nat : n <= Len(v) => f[<<n, n>>] = 0}
<1>0. Len(v) \in Nat /\ "plain" \in Kinds
    BY DEF Kinds
<1>1. 0 \in diagonal
    <2>1. 0 \in 0..Len(v)
        BY <1>0
    <2>2. f[<<0, 0>>] = 0
        BY <1>0, <2>1, BorderOfTable
    <2> QED
        BY <2>2
<1>2. ASSUME NEW n \in diagonal PROVE n + 1 \in diagonal
    <2>0. n \in Nat
        OBVIOUS
    <2>1. ASSUME n + 1 <= Len(v) PROVE f[<<n + 1, n + 1>>] = 0
        <3>1. n <= Len(v) /\ n + 1 \in 1..Len(v) /\ (n + 1) - 1 = n
            BY <1>0, <2>0, <2>1
        <3>2. f[<<n, n>>] = 0
            BY <3>1
        <3>3. /\ f[<<n + 1, n + 1>>] \in Nat
              /\ f[<<n + 1, n + 1>>] <= f[<<(n + 1) - 1, (n + 1) - 1>>] +
                                            Cost(v[n + 1], v[n + 1])
            BY <3>1, PlainCellIsLeast
        <3>4. Cost(v[n + 1], v[n + 1]) = 0
            BY DEF Cost
        <3> HIDE DEF diagonal
        <3> QED
            BY <3>1, <3>2, <3>3, <3>4
    <2> QED
        BY <2>0, <2>1
<1>3. \A n \in Nat : n \in diagonal
    <2> HIDE DEF diagonal
    <2> QED
        BY <1>1, <1>2, Inductive
<1>4. Len(v) \in diagonal
    BY <1>0, <1>3
<1> QED
    BY <1>0, <1>4
-----------------------------------------------------------------------------
(***************************************************************************)
(* Within(): what is within a number of edits.                             *)
(***************************************************************************)

\* The edits among the words, with transpositions or without.
EditsOf(words, kind) ==
    {p \in words \X words : \/ NoTransposition(p[1], p[2])
                            \/ kind = "transposing" /\ Transposes(p[1], p[2])}

\* The pairs that are one edit more apart than those that are close already.
Farther(words, edits, closer) ==
    closer \cup {p \in words \X words :
                    \E w \in words : <<p[1], w>> \in closer /\ <<w, p[2]>> \in edits}

\* What the recursion of Within() makes.
IsWithin(r, words, n, edits) ==
    /\ r[0] = {<<w, w>> : w \in words}
    /\ \A k \in 1..n : r[k] = Farther(words, edits, r[k - 1])

\* The recursion of Within() has such a function.
LEMMA WithinUnfolds ==
    ASSUME NEW words, NEW n \in Nat, NEW edits
    PROVE  IsWithin(Within(words, n, edits), words, n, edits)
<1> DEFINE step(r, k) == IF k = 0 THEN {<<w, w>> : w \in words}
                         ELSE LET closer == r[k - 1] IN Farther(words, edits, closer)
           within == CHOOSE r : r = [k \in 0..n |-> step(r, k)]
           rightTo == {m \in Nat : \E r : /\ r = [k \in 0..n |-> r[k]]
                                          /\ \A k \in 0..n : k <= m => r[k] = step(r, k)}
<1>1. \A r, s : \A k \in 0..n : (k > 0 => r[k - 1] = s[k - 1]) => step(r, k) = step(s, k)
    OBVIOUS
<1>2. Within(words, n, edits) = within
    BY DEF Within, Farther
<1> HIDE DEF step
<1>3. 0 \in rightTo
    <2> DEFINE r == [k \in 0..n |-> step(<<>>, k)]
    <2>1. \A k \in 0..n : r[k] = step(<<>>, k)
        OBVIOUS
    <2>2. r = [k \in 0..n |-> r[k]]
        OBVIOUS
    <2> HIDE DEF r
    <2>3. \A k \in 0..n : k <= 0 => ~(k > 0)
        OBVIOUS
    <2>4. \A k \in 0..n : k <= 0 => r[k] = step(r, k)
        BY <1>1, <2>1, <2>3
    <2> QED
        BY <2>2, <2>4
<1>4. ASSUME NEW m \in rightTo PROVE m + 1 \in rightTo
    <2>0. m \in Nat
        OBVIOUS
    <2>1. PICK r : \A k \in 0..n : k <= m => r[k] = step(r, k)
        OBVIOUS
    <2> DEFINE s == [k \in 0..n |-> step(r, k)]
    <2>2. \A k \in 0..n : s[k] = step(r, k)
        OBVIOUS
    <2>3. s = [k \in 0..n |-> s[k]]
        OBVIOUS
    <2> HIDE DEF s
    <2>4. ASSUME NEW k \in 0..n, k <= m + 1 PROVE s[k] = step(s, k)
        <3>1. ASSUME k > 0 PROVE r[k - 1] = s[k - 1]
            <4>1. k - 1 \in 0..n /\ k - 1 <= m
                BY <2>0, <2>4, <3>1
            <4> QED
                BY <2>1, <2>2, <4>1
        <3>2. step(r, k) = step(s, k)
            BY <1>1, <3>1
        <3> QED
            BY <2>2, <3>2
    <2> QED
        BY <2>0, <2>3, <2>4
<1>5. \A m \in Nat : m \in rightTo
    <2> HIDE DEF rightTo
    <2> QED
        BY <1>3, <1>4, Inductive
<1>6. PICK r : /\ r = [k \in 0..n |-> r[k]]
               /\ \A k \in 0..n : k <= n => r[k] = step(r, k)
    <2>1. n \in rightTo
        BY <1>5
    <2> QED
        BY <2>1
<1>7. \A k \in 0..n : r[k] = step(r, k)
    BY <1>6
<1>8. r = [k \in 0..n |-> step(r, k)]
    BY <1>6, <1>7
<1>9. within = [k \in 0..n |-> step(within, k)]
    BY <1>8
<1> HIDE DEF within
<1>10. \A k \in 0..n : within[k] = step(within, k)
    BY <1>9
<1>11. within[0] = {<<w, w>> : w \in words}
    <2>1. 0 \in 0..n
        OBVIOUS
    <2> QED
        BY <1>10, <2>1 DEF step
<1>12. \A k \in 1..n : within[k] = Farther(words, edits, within[k - 1])
    <2>1. \A k \in 1..n : k \in 0..n /\ k # 0
        OBVIOUS
    <2> QED
        BY <1>10, <2>1 DEF step
<1> QED
    BY <1>2, <1>11, <1>12 DEF IsWithin

\* Two words that some number of edits is between are that far apart at most.
LEMMA EditDistanceIsLeast ==
    ASSUME NEW words, NEW n \in Nat, NEW edits, NEW p \in words \X words, NEW k \in 0..n,
           p \in Within(words, n, edits)[k]
    PROVE  LET distance == EditDistances(words, n, edits)[p]
           IN  distance \in 0..k /\ p \in Within(words, n, edits)[distance]
<1> DEFINE counts == {m \in 0..n : p \in Within(words, n, edits)[m]}
<1>1. EditDistances(words, n, edits)[p] = Min(counts)
    <2> DEFINE within == Within(words, n, edits)
               upTo == [m \in 0..n |-> within[m]]
    <2>1. EditDistances(words, n, edits)[p] = Min({m \in 0..n : p \in upTo[m]})
        BY DEF EditDistances
    <2>2. {m \in 0..n : p \in upTo[m]} = counts
        OBVIOUS
    <2> QED
        BY <2>1, <2>2
<1>2. counts \in SUBSET Nat /\ k \in counts
    OBVIOUS
<1>3. Min(counts) \in counts /\ Min(counts) <= k
    BY <1>2, LeastNatural
<1>4. k \in Nat /\ \A m \in counts : m \in Nat
    OBVIOUS
<1>5. \A m \in counts : m <= k => m \in 0..k
    OBVIOUS
<1> QED
    BY <1>1, <1>3, <1>5

\* Words that no edit, or one, is between.
NextWord(c, d, edits, e) == (e = 0 /\ c = d) \/ (e = 1 /\ <<c, d>> \in edits)

\* One more step on the way from one word to another.
LEMMA OneEditMore ==
    ASSUME NEW r, NEW words, NEW n \in Nat, NEW edits, IsWithin(r, words, n, edits),
           NEW a \in words, NEW c \in words, NEW d \in words, NEW k \in Nat, NEW e \in 0..1,
           k + e <= n, <<a, c>> \in r[k], NextWord(c, d, edits, e)
    PROVE  <<a, d>> \in r[k + e]
<1>1. CASE e = 0 /\ c = d
    <2>1. k + e = k
        BY <1>1
    <2> QED
        BY <1>1, <2>1
<1>2. CASE e = 1 /\ <<c, d>> \in edits
    <2>1. k + e \in 1..n /\ (k + e) - 1 = k
        BY <1>2
    <2>2. r[k + e] = Farther(words, edits, r[k])
        BY <2>1 DEF IsWithin
    <2>3. <<a, d>> \in {p \in words \X words :
                            \E w \in words : <<p[1], w>> \in r[k] /\ <<w, p[2]>> \in edits}
        BY <1>2
    <2> QED
        BY <2>2, <2>3 DEF Farther
<1> QED
    BY <1>1, <1>2 DEF NextWord

\* And at the start of the way.
LEMMA OneEditBefore ==
    ASSUME NEW r, NEW words, NEW n \in Nat, NEW edits, edits \subseteq words \X words,
           IsWithin(r, words, n, edits)
    PROVE  \A k \in Nat : k < n =>
                \A a, c, d : <<a, c>> \in edits /\ <<c, d>> \in r[k] => <<a, d>> \in r[k + 1]
<1> DEFINE shown == {k \in Nat : k < n =>
                \A a, c, d : <<a, c>> \in edits /\ <<c, d>> \in r[k] => <<a, d>> \in r[k + 1]}
<1>1. \A k \in Nat : k < n => r[k + 1] = Farther(words, edits, r[k])
    <2>1. \A k \in Nat : k < n => k + 1 \in 1..n /\ (k + 1) - 1 = k
        OBVIOUS
    <2> QED
        BY <2>1 DEF IsWithin
<1>2. 0 \in shown
    <2>1. ASSUME 0 < n, NEW a, NEW c, NEW d, <<a, c>> \in edits, <<c, d>> \in r[0]
          PROVE  <<a, d>> \in r[0 + 1]
        <3>1. c = d /\ a \in words /\ c \in words
            BY <2>1 DEF IsWithin
        <3>2. <<a, a>> \in r[0]
            BY <3>1 DEF IsWithin
        <3>3. <<a, d>> \in Farther(words, edits, r[0])
            BY <2>1, <3>1, <3>2 DEF Farther
        <3> QED
            BY <1>1, <2>1, <3>3
    <2> QED
        BY <2>1
<1>3. ASSUME NEW k \in shown PROVE k + 1 \in shown
    <2>0. k \in Nat
        OBVIOUS
    <2>1. ASSUME k + 1 < n, NEW a, NEW c, NEW d, <<a, c>> \in edits, <<c, d>> \in r[k + 1]
          PROVE  <<a, d>> \in r[(k + 1) + 1]
        <3>1. /\ k < n /\ k + 1 \in Nat
            BY <2>0, <2>1
        <3>2. /\ r[k + 1] = Farther(words, edits, r[k])
              /\ r[(k + 1) + 1] = Farther(words, edits, r[k + 1])
            BY <1>1, <2>0, <2>1, <3>1
        <3>3. CASE <<c, d>> \in r[k]
            <4>1. <<a, d>> \in r[k + 1]
                BY <2>1, <3>1, <3>3
            <4> QED
                BY <3>2, <4>1 DEF Farther
        <3>4. ASSUME NEW w \in words, <<c, w>> \in r[k], <<w, d>> \in edits
              PROVE  <<a, d>> \in r[(k + 1) + 1]
            <4>1. <<a, w>> \in r[k + 1]
                BY <2>1, <3>1, <3>4
            <4>2. <<a, d>> \in words \X words
                BY <2>1, <3>4
            <4> HIDE DEF shown
            <4> QED
                BY <3>2, <3>4, <4>1, <4>2 DEF Farther
        <3>5. \/ <<c, d>> \in r[k]
              \/ \E w \in words : <<c, w>> \in r[k] /\ <<w, d>> \in edits
            <4> HIDE DEF shown
            <4> QED
                BY <2>1, <3>2 DEF Farther
        <3> QED
            BY <3>3, <3>4, <3>5
    <2> QED
        BY <2>0, <2>1
<1>4. \A k \in Nat : k \in shown
    <2> HIDE DEF shown
    <2> QED
        BY <1>2, <1>3, Inductive
<1> QED
    BY <1>4

\* A way goes through the same edits when every word on it gets one character more.
LEMMA WithOneCharacterMore ==
    ASSUME NEW r, NEW words, NEW n \in Nat, NEW edits, IsWithin(r, words, n, edits),
           NEW s, NEW longer, NEW moreEdits, IsWithin(s, longer, n, moreEdits), NEW x,
           \A w \in words : Append(w, x) \in longer,
           \A v, w \in words : <<v, w>> \in edits => <<Append(v, x), Append(w, x)>> \in moreEdits
    PROVE  \A k \in Nat : k <= n =>
                \A v, w \in words : <<v, w>> \in r[k] => <<Append(v, x), Append(w, x)>> \in s[k]
<1> DEFINE shown == {k \in Nat : k <= n =>
                \A v, w \in words : <<v, w>> \in r[k] => <<Append(v, x), Append(w, x)>> \in s[k]}
<1>2. 0 \in shown
    <2>1. ASSUME NEW v \in words, NEW w \in words, <<v, w>> \in r[0]
          PROVE  <<Append(v, x), Append(w, x)>> \in s[0]
        <3>1. v = w
            BY <2>1 DEF IsWithin
        <3>2. <<Append(v, x), Append(v, x)>> \in {<<u, u>> : u \in longer}
            OBVIOUS
        <3> QED
            BY <3>1, <3>2 DEF IsWithin
    <2> QED
        BY <2>1
<1>3. ASSUME NEW k \in shown PROVE k + 1 \in shown
    <2>0. k \in Nat
        OBVIOUS
    <2>1. ASSUME k + 1 <= n, NEW v \in words, NEW w \in words, <<v, w>> \in r[k + 1]
          PROVE  <<Append(v, x), Append(w, x)>> \in s[k + 1]
        <3>1. k <= n /\ k + 1 \in 1..n /\ (k + 1) - 1 = k
            BY <2>0, <2>1
        <3>2. /\ r[k + 1] = Farther(words, edits, r[k])
              /\ s[k + 1] = Farther(longer, moreEdits, s[k])
            BY <3>1 DEF IsWithin
        <3>3. CASE <<v, w>> \in r[k]
            <4>1. <<Append(v, x), Append(w, x)>> \in s[k]
                BY <3>1, <3>3
            <4> QED
                BY <3>2, <4>1 DEF Farther
        <3>4. ASSUME NEW u \in words, <<v, u>> \in r[k], <<u, w>> \in edits
              PROVE  <<Append(v, x), Append(w, x)>> \in s[k + 1]
            <4>1. <<Append(v, x), Append(u, x)>> \in s[k]
                BY <3>1, <3>4
            <4>2. <<Append(u, x), Append(w, x)>> \in moreEdits
                BY <3>4
            <4> HIDE DEF shown
            <4>3. /\ <<Append(v, x), Append(w, x)>> \in longer \X longer
                  /\ Append(u, x) \in longer
                OBVIOUS
            <4> QED
                BY <3>2, <4>1, <4>2, <4>3 DEF Farther
        <3>5. \/ <<v, w>> \in r[k]
              \/ \E u \in words : <<v, u>> \in r[k] /\ <<u, w>> \in edits
            <4> HIDE DEF shown
            <4> QED
                BY <2>1, <3>2 DEF Farther
        <3> QED
            BY <3>3, <3>4, <3>5
    <2> QED
        BY <2>0, <2>1
<1>4. \A k \in Nat : k \in shown
    <2> HIDE DEF shown
    <2> QED
        BY <1>2, <1>3, Inductive
<1> QED
    BY <1>4
-----------------------------------------------------------------------------
\* Words that k edits without transpositions are between are no farther apart, by
\* a matrix that does not look for transpositions.
LEMMA WithinIsNear ==
    ASSUME NEW S, NEW words \in SUBSET Seq(S), NEW n \in Nat, NEW r,
           IsWithin(r, words, n, EditsOf(words, "plain"))
    PROVE  \A k \in Nat : k <= n =>
                \A f : \A v, w \in words : <<v, w>> \in r[k] /\ IsTable(v, w, f, "plain") =>
                    f[<<Len(v), Len(w)>>] <= k
<1> DEFINE shown == {k \in Nat : k <= n =>
                \A f : \A v, w \in words : <<v, w>> \in r[k] /\ IsTable(v, w, f, "plain") =>
                    f[<<Len(v), Len(w)>>] <= k}
<1>1. 0 \in shown
    <2>1. ASSUME NEW v \in words, NEW w \in words, NEW f, <<v, w>> \in r[0],
                 IsTable(v, w, f, "plain")
          PROVE  f[<<Len(v), Len(w)>>] <= 0
        <3>1. v = w
            BY <2>1 DEF IsWithin
        <3>2. v \in Seq(S) /\ IsTable(v, v, f, "plain")
            BY <2>1, <3>1
        <3>3. f[<<Len(v), Len(v)>>] = 0
            BY <3>2, NoDistanceToItself
        <3> QED
            BY <3>1, <3>3
    <2> QED
        BY <2>1
<1>2. ASSUME NEW k \in shown PROVE k + 1 \in shown
    <2>0. k \in Nat
        OBVIOUS
    <2>1. ASSUME k + 1 <= n, NEW v \in words, NEW w \in words, NEW f, <<v, w>> \in r[k + 1],
                 IsTable(v, w, f, "plain")
          PROVE  f[<<Len(v), Len(w)>>] <= k + 1
        <3>1. k <= n /\ k + 1 \in 1..n /\ (k + 1) - 1 = k
            BY <2>0, <2>1
        <3>2. r[k + 1] = Farther(words, EditsOf(words, "plain"), r[k])
            BY <3>1 DEF IsWithin
        <3>3. v \in Seq(S) /\ w \in Seq(S) /\ "plain" \in Kinds
            BY DEF Kinds
        <3>4. Len(v) \in 0..Len(v) /\ Len(w) \in 0..Len(w)
            BY <3>3
        <3>5. f[<<Len(v), Len(w)>>] \in Nat
            BY <2>1, <3>3, <3>4, BorderOfTable
        <3>6. CASE <<v, w>> \in r[k]
            <4>1. f[<<Len(v), Len(w)>>] <= k
                BY <2>1, <3>1, <3>6
            <4> HIDE DEF shown
            <4> QED
                BY <2>0, <3>5, <4>1
        <3>7. ASSUME NEW u \in words, <<v, u>> \in r[k], <<u, w>> \in EditsOf(words, "plain")
              PROVE  f[<<Len(v), Len(w)>>] <= k + 1
            <4>1. u \in Seq(S) /\ Len(u) \in 0..Len(u)
                OBVIOUS
            <4>2. PICK g : IsTable(v, u, g, "plain")
                BY <3>3, <4>1, TableExists
            <4>3. g[<<Len(v), Len(u)>>] <= k
                BY <3>1, <3>7, <4>2
            <4> HIDE DEF shown
            <4>4. Substitutes(u, w) \/ Deletes(u, w) \/ Deletes(w, u)
                BY <3>7 DEF EditsOf, NoTransposition
            <4>5. f[<<Len(v), Len(w)>>] <= g[<<Len(v), Len(u)>>] + 1
                BY <2>1, <3>3, <4>1, <4>2, <4>4, OneEditNearer
            <4>6. g[<<Len(v), Len(u)>>] \in Nat
                BY <3>3, <3>4, <4>1, <4>2, BorderOfTable
            <4> QED
                BY <2>0, <3>5, <4>3, <4>5, <4>6
        <3>8. \/ <<v, w>> \in r[k]
              \/ \E u \in words : <<v, u>> \in r[k] /\ <<u, w>> \in EditsOf(words, "plain")
            <4> HIDE DEF shown
            <4> QED
                BY <2>1, <3>2 DEF Farther
        <3> QED
            BY <3>6, <3>7, <3>8
    <2> QED
        BY <2>0, <2>1
<1>3. \A k \in Nat : k \in shown
    <2> HIDE DEF shown
    <2> QED
        BY <1>1, <1>2, Inductive
<1> QED
    BY <1>3
-----------------------------------------------------------------------------
(***************************************************************************)
(* Edits and characters appended to words.                                 *)
(***************************************************************************)

\* Removing the character that was appended.
LEMMA LastRemoved ==
    ASSUME NEW S, NEW w \in Seq(S), NEW x \in S
    PROVE  Deletes(Append(w, x), w)
<1> DEFINE v == Append(w, x)
<1>1. /\ v \in Seq(S) /\ Len(v) = Len(w) + 1 /\ DOMAIN v = 1..Len(v)
      /\ \A j \in 1..Len(w) : v[j] = w[j]
    BY AppendProperties, LenProperties
<1> HIDE DEF v
<1>2. Len(v) \in 1..Len(v) /\ Len(v) - 1 = Len(w) /\ Len(w) \in Nat
    BY <1>1
<1>3. /\ RemoveAt(v, Len(v)) \in Seq(S) /\ Len(RemoveAt(v, Len(v))) = Len(w)
      /\ \A j \in 1..Len(w) : RemoveAt(v, Len(v))[j] = v[j]
    BY <1>1, <1>2, RemovedWord
<1>4. w = RemoveAt(v, Len(v))
    BY <1>1, <1>3, SeqEqual
<1> QED
    BY <1>1, <1>2, <1>4 DEF Deletes, v

\* An edit is one with a character more at the end, too.
LEMMA EditsAppended ==
    ASSUME NEW S, NEW v \in Seq(S), NEW w \in Seq(S), NEW x \in S
    PROVE  /\ Substitutes(v, w) => Substitutes(Append(v, x), Append(w, x))
           /\ Deletes(v, w) => Deletes(Append(v, x), Append(w, x))
           /\ Transposes(v, w) => Transposes(Append(v, x), Append(w, x))
<1> DEFINE vx == Append(v, x)
           wx == Append(w, x)
<1>1. /\ Len(v) \in Nat /\ Len(w) \in Nat /\ DOMAIN v = 1..Len(v) /\ DOMAIN w = 1..Len(w)
      /\ vx \in Seq(S) /\ Len(vx) = Len(v) + 1 /\ DOMAIN vx = 1..Len(vx)
      /\ wx \in Seq(S) /\ Len(wx) = Len(w) + 1
      /\ \A j \in 1..Len(v) : vx[j] = v[j]
      /\ \A j \in 1..Len(w) : wx[j] = w[j]
      /\ vx[Len(v) + 1] = x /\ wx[Len(w) + 1] = x
    BY AppendProperties, LenProperties
<1> HIDE DEF vx, wx
<1>2. ASSUME Substitutes(v, w) PROVE Substitutes(vx, wx)
    <2>1. Len(v) = Len(w) /\ Cardinality({i \in 1..Len(v) : v[i] # w[i]}) = 1
        BY <1>1, <1>2 DEF Substitutes
    <2>2. {i \in 1..Len(vx) : vx[i] # wx[i]} = {i \in 1..Len(v) : v[i] # w[i]}
        <3>1. ASSUME NEW i \in 1..Len(vx), vx[i] # wx[i] PROVE i \in 1..Len(v) /\ v[i] # w[i]
            <4>1. i # Len(v) + 1
                BY <1>1, <2>1, <3>1
            <4>2. i \in 1..Len(v)
                BY <1>1, <4>1
            <4> QED
                BY <1>1, <2>1, <3>1, <4>2
        <3>2. ASSUME NEW i \in 1..Len(v), v[i] # w[i] PROVE i \in 1..Len(vx) /\ vx[i] # wx[i]
            BY <1>1, <2>1, <3>2
        <3> QED
            BY <3>1, <3>2
    <2> QED
        BY <1>1, <2>1, <2>2 DEF Substitutes
<1>3. ASSUME Deletes(v, w) PROVE Deletes(vx, wx)
    <2>1. PICK p \in 1..Len(v) : w = RemoveAt(v, p)
        BY <1>1, <1>3 DEF Deletes
    <2>2. /\ Len(w) = Len(v) - 1
          /\ \A j \in 1..(p - 1) : w[j] = v[j]
          /\ \A j \in p..(Len(v) - 1) : w[j] = v[j + 1]
        BY <2>1, RemovedWord
    <2>3. p \in 1..Len(vx)
        BY <1>1
    <2> DEFINE u == RemoveAt(vx, p)
    <2>4. /\ u \in Seq(S) /\ Len(u) = Len(vx) - 1
          /\ \A j \in 1..(p - 1) : u[j] = vx[j]
          /\ \A j \in p..(Len(vx) - 1) : u[j] = vx[j + 1]
        BY <1>1, <2>3, RemovedWord
    <2> HIDE DEF u
    <2>5. Len(u) = Len(wx) /\ Len(wx) = Len(v) /\ Len(w) + 1 = Len(v) /\ Len(vx) - 1 = Len(v)
        BY <1>1, <2>2, <2>4
    <2>6a. /\ p \in Nat /\ p >= 1 /\ Len(v) \in Nat /\ Len(wx) = Len(v)
           /\ Len(w) = Len(v) - 1 /\ Len(vx) - 1 = Len(v)
        BY <1>1, <2>2, <2>5
    <2>6. ASSUME NEW j \in 1..Len(wx) PROVE wx[j] = u[j]
        <3>1. CASE j < p
            <4>1. j \in 1..(p - 1) /\ j \in 1..Len(v) /\ j \in 1..Len(w)
                BY <1>1, <2>5, <3>1
            <4> QED
                BY <1>1, <2>2, <2>4, <4>1
        <3>2. CASE ~(j < p) /\ j # Len(v)
            <4>1. /\ j \in p..(Len(v) - 1) /\ j \in p..(Len(vx) - 1) /\ j \in 1..Len(w)
                  /\ j + 1 \in 1..Len(v)
                BY <2>6a, <3>2
            <4> QED
                BY <1>1, <2>2, <2>4, <4>1
        <3>3. CASE ~(j < p) /\ j = Len(v)
            <4>1. j \in p..(Len(vx) - 1) /\ j = Len(w) + 1
                BY <2>6a, <3>3
            <4>2. u[j] = vx[Len(v) + 1]
                BY <2>4, <3>3, <4>1
            <4> QED
                BY <1>1, <4>1, <4>2
        <3> QED
            BY <3>1, <3>2, <3>3
    <2>7. wx = u
        BY <1>1, <2>4, <2>5, <2>6, SeqEqual
    <2> QED
        BY <1>1, <2>3, <2>7 DEF Deletes, u
<1>4. ASSUME Transposes(v, w) PROVE Transposes(vx, wx)
    <2>1. PICK p \in 1..(Len(v) - 1) : w = [v EXCEPT ![p] = v[p + 1], ![p + 1] = v[p]]
        BY <1>4 DEF Transposes
    <2>2. p \in 1..Len(v) /\ p + 1 \in 1..Len(v) /\ p # p + 1
        BY <1>1
    <2>3. v[p] \in S /\ v[p + 1] \in S
        BY <2>2, ElementOfSeq
    <2>4. /\ Len(w) = Len(v)
          /\ \A j \in 1..Len(v) :
                w[j] = IF j = p + 1 THEN v[p] ELSE IF j = p THEN v[p + 1] ELSE v[j]
        BY <1>1, <2>1, <2>2, <2>3
    <2>5. p \in 1..Len(vx) /\ p + 1 \in 1..Len(vx) /\ p \in 1..(Len(vx) - 1)
        BY <1>1, <2>2
    <2> DEFINE u == [vx EXCEPT ![p] = vx[p + 1], ![p + 1] = vx[p]]
    <2>6. vx[p] = v[p] /\ vx[p + 1] = v[p + 1]
        BY <1>1, <2>2
    <2>7. /\ u \in Seq(S) /\ Len(u) = Len(vx)
          /\ \A j \in 1..Len(vx) :
                u[j] = IF j = p + 1 THEN vx[p] ELSE IF j = p THEN vx[p + 1] ELSE vx[j]
        BY <1>1, <2>3, <2>5, <2>6
    <2> HIDE DEF u
    <2>8. ASSUME NEW j \in 1..Len(vx) PROVE wx[j] = u[j]
        <3>1. CASE j = Len(v) + 1
            <4>1. j # p /\ j # p + 1
                BY <1>1, <2>2, <3>1
            <4> QED
                BY <1>1, <2>4, <2>7, <3>1, <4>1
        <3>2. CASE j # Len(v) + 1
            <4>1. j \in 1..Len(v) /\ j \in 1..Len(w)
                BY <1>1, <2>4, <3>2
            <4>2. wx[j] = w[j] /\ vx[j] = v[j]
                BY <1>1, <4>1
            <4> QED
                BY <2>4, <2>6, <2>7, <4>1, <4>2
        <3> QED
            BY <3>1, <3>2
    <2>9. Len(u) = Len(wx) /\ \A j \in 1..Len(wx) : wx[j] = u[j]
        BY <1>1, <2>4, <2>7, <2>8
    <2>10. wx = u
        BY <1>1, <2>7, <2>9, SeqEqual
    <2> QED
        BY <2>5, <2>10 DEF Transposes, u
<1> QED
    BY <1>2, <1>3, <1>4 DEF vx, wx
-----------------------------------------------------------------------------
(***************************************************************************)
(* A cell of the matrix is a number of edits that suffice.                 *)
(***************************************************************************)

\* The words of at most n characters are the sequences of that length.
LEMMA WordsAreSequences ==
    ASSUME NEW chars, NEW n \in Nat, NEW w
    PROVE  w \in WordsUpTo(chars, n) <=> w \in Seq(chars) /\ Len(w) <= n
<1>1. ASSUME w \in WordsUpTo(chars, n) PROVE w \in Seq(chars) /\ Len(w) <= n
    <2>1. PICK k \in 0..n : w \in [1..k -> chars]
        BY <1>1 DEF WordsUpTo
    <2>2. w \in Seq(chars)
        BY <2>1, SeqDef
    <2>3. Len(w) = k
        BY <2>1, <2>2
    <2> QED
        BY <2>2, <2>3
<1>2. ASSUME w \in Seq(chars), Len(w) <= n PROVE w \in WordsUpTo(chars, n)
    <2>1. w \in [1..Len(w) -> chars] /\ Len(w) \in 0..n
        BY <1>2
    <2> QED
        BY <2>1 DEF WordsUpTo
<1> QED
    BY <1>1, <1>2

\* The ways through words of at most b characters, by edits of a kind.
Ways(chars, b, n, kind) ==
    Within(WordsUpTo(chars, b), n, EditsOf(WordsUpTo(chars, b), kind))

\* They are made by that recursion.
LEMMA WaysUnfold ==
    ASSUME NEW chars, NEW b, NEW n \in Nat, NEW kind
    PROVE  IsWithin(Ways(chars, b, n, kind), WordsUpTo(chars, b), n,
                    EditsOf(WordsUpTo(chars, b), kind))
BY WithinUnfolds DEF Ways

\* A character more in the word a way starts from is one edit more.
LEMMA LongerFirst ==
    ASSUME NEW chars, NEW n \in Nat, NEW b \in 0..n, NEW kind, NEW k \in Nat, k + 1 <= n,
           NEW s \in Seq(chars), NEW x \in chars, Len(s) + 1 <= b, NEW c,
           <<s, c>> \in Ways(chars, b, n, kind)[k]
    PROVE  <<Append(s, x), c>> \in Ways(chars, b, n, kind)[k + 1]
<1> DEFINE words == WordsUpTo(chars, b)
           edits == EditsOf(words, kind)
           r == Ways(chars, b, n, kind)
<1>1. b \in Nat /\ Len(s) \in Nat /\ Len(s) <= b /\ k < n
    OBVIOUS
<1>2. Append(s, x) \in Seq(chars) /\ Len(Append(s, x)) <= b
    BY AppendProperties
<1>3. s \in words /\ Append(s, x) \in words
    BY <1>1, <1>2, WordsAreSequences
<1>4. <<Append(s, x), s>> \in edits
    BY <1>3, LastRemoved DEF EditsOf, NoTransposition
<1>5. edits \subseteq words \X words
    BY DEF EditsOf
<1>6. IsWithin(r, words, n, edits)
    BY WaysUnfold
<1> HIDE DEF words, edits, r
<1>7. \A a, d, e : <<a, d>> \in edits /\ <<d, e>> \in r[k] => <<a, e>> \in r[k + 1]
    BY <1>1, <1>5, <1>6, OneEditBefore
<1>8. <<s, c>> \in r[k]
    BY DEF r
<1> QED
    BY <1>4, <1>7, <1>8 DEF r

\* And in the word it leads to.
LEMMA LongerSecond ==
    ASSUME NEW chars, NEW n \in Nat, NEW b \in 0..n, NEW kind, NEW k \in Nat, k + 1 <= n,
           NEW s \in Seq(chars), NEW x \in chars, Len(s) + 1 <= b,
           NEW a \in WordsUpTo(chars, b), <<a, s>> \in Ways(chars, b, n, kind)[k]
    PROVE  <<a, Append(s, x)>> \in Ways(chars, b, n, kind)[k + 1]
<1> DEFINE words == WordsUpTo(chars, b)
           edits == EditsOf(words, kind)
           r == Ways(chars, b, n, kind)
<1>1. b \in Nat /\ Len(s) \in Nat /\ Len(s) <= b /\ 1 \in 0..1
    OBVIOUS
<1>2. Append(s, x) \in Seq(chars) /\ Len(Append(s, x)) <= b
    BY AppendProperties
<1>3. s \in words /\ Append(s, x) \in words
    BY <1>1, <1>2, WordsAreSequences
<1>4. NextWord(s, Append(s, x), edits, 1)
    BY <1>3, LastRemoved DEF EditsOf, NoTransposition, NextWord
<1>6. IsWithin(r, words, n, edits)
    BY WaysUnfold
<1>8. <<a, s>> \in r[k] /\ a \in words
    OBVIOUS
<1> HIDE DEF words, edits, r
<1>9. <<a, Append(s, x)>> \in r[k + 1]
    BY <1>1, <1>3, <1>4, <1>6, <1>8, OneEditMore
<1> QED
    BY <1>9 DEF r

\* The same character more in both is no edit more.
LEMMA LongerBoth ==
    ASSUME NEW chars, NEW n \in Nat, NEW b \in 1..n, NEW kind, NEW k \in Nat, k <= n,
           NEW a \in WordsUpTo(chars, b - 1), NEW c \in WordsUpTo(chars, b - 1),
           NEW x \in chars, <<a, c>> \in Ways(chars, b - 1, n, kind)[k]
    PROVE  <<Append(a, x), Append(c, x)>> \in Ways(chars, b, n, kind)[k]
<1> DEFINE words == WordsUpTo(chars, b - 1)
           edits == EditsOf(words, kind)
           r == Ways(chars, b - 1, n, kind)
           longer == WordsUpTo(chars, b)
           moreEdits == EditsOf(longer, kind)
           s == Ways(chars, b, n, kind)
<1>0. b \in Nat /\ b - 1 \in Nat
    OBVIOUS
<1>1. IsWithin(r, words, n, edits) /\ IsWithin(s, longer, n, moreEdits)
    BY WaysUnfold
<1>2. ASSUME NEW w \in words PROVE w \in Seq(chars) /\ Append(w, x) \in longer
    <2>1. w \in Seq(chars) /\ Len(w) <= b - 1
        BY <1>0, WordsAreSequences
    <2>2. Append(w, x) \in Seq(chars) /\ Len(Append(w, x)) <= b
        BY <1>0, <2>1, AppendProperties
    <2> QED
        BY <1>0, <2>1, <2>2, WordsAreSequences
<1>3. ASSUME NEW v \in words, NEW w \in words, <<v, w>> \in edits
      PROVE  <<Append(v, x), Append(w, x)>> \in moreEdits
    <2>1. v \in Seq(chars) /\ w \in Seq(chars) /\ Append(v, x) \in longer /\ Append(w, x) \in longer
        BY <1>2
    <2>2. \/ Substitutes(v, w) \/ Deletes(v, w) \/ Deletes(w, v)
          \/ kind = "transposing" /\ Transposes(v, w)
        BY <1>3 DEF EditsOf, NoTransposition
    <2>3. \/ NoTransposition(Append(v, x), Append(w, x))
          \/ kind = "transposing" /\ Transposes(Append(v, x), Append(w, x))
        <3> HIDE DEF words, longer, edits
        <3> QED
            BY <2>1, <2>2, EditsAppended DEF NoTransposition
    <2> QED
        BY <2>1, <2>3 DEF EditsOf
<1>4. <<a, c>> \in r[k] /\ a \in words /\ c \in words
    OBVIOUS
<1>5. \A w \in words : Append(w, x) \in longer
    BY <1>2
<1>6. \A v, w \in words : <<v, w>> \in edits => <<Append(v, x), Append(w, x)>> \in moreEdits
    BY <1>3
<1> HIDE DEF words, edits, r, longer, moreEdits, s
<1>7. \A v, w \in words : <<v, w>> \in r[k] => <<Append(v, x), Append(w, x)>> \in s[k]
    BY <1>1, <1>5, <1>6, WithOneCharacterMore
<1> QED
    BY <1>4, <1>7 DEF s

\* The last characters differ, or are the same.
LEMMA LastSubstituted ==
    ASSUME NEW chars, NEW w \in Seq(chars), NEW x \in chars, NEW y \in chars, x # y
    PROVE  Substitutes(Append(w, x), Append(w, y))
<1> DEFINE v == Append(w, x)
           u == Append(w, y)
           differ == {i \in DOMAIN v : v[i] # u[i]}
<1>1. /\ Len(w) \in Nat /\ Len(v) = Len(w) + 1 /\ Len(u) = Len(w) + 1 /\ DOMAIN v = 1..(Len(w) + 1)
      /\ \A i \in 1..Len(w) : v[i] = w[i] /\ u[i] = w[i]
      /\ v[Len(w) + 1] = x /\ u[Len(w) + 1] = y
    BY AppendProperties, LenProperties
<1> HIDE DEF v, u
<1>2. differ = {Len(w) + 1}
    <2>1. \A i \in 1..(Len(w) + 1) : i = Len(w) + 1 \/ i \in 1..Len(w)
        BY <1>1
    <2>2. Len(w) + 1 \in 1..(Len(w) + 1)
        BY <1>1
    <2> QED
        BY <1>1, <2>1, <2>2
<1>3. Cardinality(differ) = 1
    BY <1>2, FS_Singleton
<1> QED
    BY <1>1, <1>3 DEF Substitutes, v, u

\* A substitution on a way, where it is needed.
LEMMA SubstitutedOnWay ==
    ASSUME NEW chars, NEW n \in Nat, NEW b \in 0..n, NEW kind, NEW k \in Nat,
           NEW a \in WordsUpTo(chars, b), NEW c \in WordsUpTo(chars, b),
           NEW d \in WordsUpTo(chars, b), NEW x, NEW y, k + Cost(x, y) <= n,
           IF x = y THEN c = d ELSE Substitutes(c, d),
           <<a, c>> \in Ways(chars, b, n, kind)[k]
    PROVE  <<a, d>> \in Ways(chars, b, n, kind)[k + Cost(x, y)]
<1> DEFINE words == WordsUpTo(chars, b)
           edits == EditsOf(words, kind)
           r == Ways(chars, b, n, kind)
           e == Cost(x, y)
<1>1. e \in 0..1
    BY CostType
<1>2. NextWord(c, d, edits, e)
    BY DEF NextWord, Cost, EditsOf, NoTransposition
<1>3. IsWithin(r, words, n, edits)
    BY WaysUnfold
<1>4. a \in words /\ c \in words /\ d \in words /\ <<a, c>> \in r[k] /\ k + e <= n
    OBVIOUS
<1> HIDE DEF words, edits, r, e
<1>5. <<a, d>> \in r[k + e]
    BY <1>1, <1>2, <1>3, <1>4, OneEditMore
<1> QED
    BY <1>5 DEF r, e
-----------------------------------------------------------------------------
\* The last two characters in the other order.
LEMMA LastTwoTransposed ==
    ASSUME NEW chars, NEW w \in Seq(chars), NEW x \in chars, NEW y \in chars
    PROVE  Transposes(Append(Append(w, x), y), Append(Append(w, y), x))
<1> DEFINE wx == Append(w, x)
           wy == Append(w, y)
           v == Append(wx, y)
           u == Append(wy, x)
           p == Len(w) + 1
<1>1. /\ Len(w) \in Nat /\ wx \in Seq(chars) /\ Len(wx) = p
      /\ wy \in Seq(chars) /\ Len(wy) = p
      /\ \A i \in 1..Len(w) : wx[i] = w[i] /\ wy[i] = w[i]
      /\ wx[p] = x /\ wy[p] = y
    BY AppendProperties
<1> HIDE DEF wx, wy
<1>2. /\ v \in Seq(chars) /\ Len(v) = p + 1 /\ v[p + 1] = y
      /\ \A i \in 1..p : v[i] = wx[i]
    BY <1>1, AppendProperties
<1>3. /\ u \in Seq(chars) /\ Len(u) = p + 1 /\ u[p + 1] = x
      /\ \A i \in 1..p : u[i] = wy[i]
    BY <1>1, AppendProperties
<1> HIDE DEF v, u
<1>4. /\ p \in 1..p /\ p \in 1..(Len(v) - 1) /\ p \in 1..Len(v) /\ p + 1 \in 1..Len(v)
      /\ p # p + 1
    BY <1>1, <1>2
<1>5. v[p] = x /\ u[p] = y
    BY <1>1, <1>2, <1>3, <1>4
<1> DEFINE t == [v EXCEPT ![p] = v[p + 1], ![p + 1] = v[p]]
<1>6. /\ t \in Seq(chars) /\ Len(t) = Len(v)
      /\ \A j \in 1..Len(v) : t[j] = IF j = p + 1 THEN x ELSE IF j = p THEN y ELSE v[j]
    BY <1>2, <1>4, <1>5
<1> HIDE DEF t
<1>7. ASSUME NEW j \in 1..Len(u) PROVE u[j] = t[j]
    <2>1. j \in 1..Len(v) /\ (j = p + 1 \/ j = p \/ j \in 1..Len(w))
        BY <1>1, <1>2, <1>3
    <2>2. CASE j = p + 1
        BY <1>3, <1>6, <2>1, <2>2
    <2>3. CASE j = p
        BY <1>4, <1>5, <1>6, <2>1, <2>3
    <2>4. CASE j \in 1..Len(w)
        <3>1. j # p /\ j # p + 1 /\ j \in 1..p
            BY <1>1, <2>4
        <3> QED
            BY <1>1, <1>2, <1>3, <1>6, <2>1, <2>4, <3>1
    <2> QED
        BY <2>1, <2>2, <2>3, <2>4
<1>8. u = t
    BY <1>2, <1>3, <1>6, <1>7, SeqEqual
<1> QED
    BY <1>4, <1>8 DEF Transposes, t, u, v, wx, wy

\* The first i characters of a word, one after the other.
Start(w, i) == SubSeq(w, 1, i)

\* They are sequences that grow by one character.
LEMMA StartsOfWord ==
    ASSUME NEW chars, NEW w \in Seq(chars)
    PROVE  /\ Start(w, 0) = <<>> /\ Start(w, Len(w)) = w
           /\ \A i \in 0..Len(w) : Start(w, i) \in Seq(chars) /\ Len(Start(w, i)) = i
           /\ \A i \in 1..Len(w) : /\ w[i] \in chars
                                  /\ Start(w, i) = Append(Start(w, i - 1), w[i])
<1>0. Len(w) \in Nat
    OBVIOUS
<1>1. Start(w, 0) = <<>> /\ Start(w, Len(w)) = w
    BY SubSeqEmpty, SubSeqFull DEF Start
<1>2. ASSUME NEW i \in 0..Len(w)
      PROVE  /\ Start(w, i) \in Seq(chars) /\ Len(Start(w, i)) = i
             /\ \A j \in 1..i : Start(w, i)[j] = w[j]
    <2>1. \A j \in 1..i : w[j] \in chars
        BY <1>0, ElementOfSeq
    <2>2. /\ SubSeq(w, 1, i) \in Seq(chars)
          /\ Len(SubSeq(w, 1, i)) = IF 1 <= i THEN i - 1 + 1 ELSE 0
          /\ \A j \in 1..(i - 1 + 1) : SubSeq(w, 1, i)[j] = w[1 + j - 1]
        BY <1>0, <2>1, SubSeqProperties
    <2>3. (IF 1 <= i THEN i - 1 + 1 ELSE 0) = i
        BY <1>0
    <2>4. \A j \in 1..i : j \in 1..(i - 1 + 1) /\ 1 + j - 1 = j
        BY <1>0
    <2> QED
        BY <2>2, <2>3, <2>4 DEF Start
<1>3. ASSUME NEW i \in 1..Len(w) PROVE w[i] \in chars /\ Start(w, i) = Append(Start(w, i - 1), w[i])
    <2>1. w[i] \in chars
        BY ElementOfSeq
    <2>2. i - 1 \in 0..Len(w) /\ i \in 0..Len(w) /\ (i - 1) + 1 = i
        BY <1>0
    <2> DEFINE s == Start(w, i - 1)
               t == Start(w, i)
               sx == Append(s, w[i])
    <2>3. s \in Seq(chars) /\ Len(s) = i - 1 /\ \A j \in 1..(i - 1) : s[j] = w[j]
        BY <1>2, <2>2
    <2>4. t \in Seq(chars) /\ Len(t) = i /\ \A j \in 1..i : t[j] = w[j]
        BY <1>2, <2>2
    <2> HIDE DEF s, t
    <2>5. /\ sx \in Seq(chars) /\ Len(sx) = i
          /\ \A j \in 1..(i - 1) : sx[j] = s[j]
          /\ sx[i] = w[i]
        BY <2>1, <2>2, <2>3, AppendProperties
    <2> HIDE DEF sx
    <2>6. ASSUME NEW j \in 1..i PROVE t[j] = sx[j]
        <3>1. j = i \/ j \in 1..(i - 1)
            BY <1>0
        <3> QED
            BY <2>3, <2>4, <2>5, <3>1
    <2>7. t = sx
        BY <2>4, <2>5, <2>6, SeqEqual
    <2> QED
        BY <2>1, <2>7 DEF s, t, sx
<1> QED
    BY <1>1, <1>2, <1>3

\* A transposition of the last characters, and substitutions, are as many edits as
\* Transposed() counts.
LEMMA TransposedOnWay ==
    ASSUME NEW chars, NEW n \in Nat, NEW b \in 2..n, NEW k \in Nat,
           NEW a \in WordsUpTo(chars, b - 2), NEW c \in WordsUpTo(chars, b - 2),
           NEW v1 \in chars, NEW v2 \in chars, NEW w1 \in chars, NEW w2 \in chars,
           NEW s \in 0..1, s = Cost(v2, w1), NEW t \in 0..1, t = Cost(v1, w2), k + 1 + s + t <= n,
           <<a, c>> \in Ways(chars, b - 2, n, "transposing")[k]
    PROVE  <<Append(Append(a, v1), v2), Append(Append(c, w1), w2)>> \in
                Ways(chars, b, n, "transposing")[k + 1 + s + t]
<1>0. /\ b \in 0..n /\ b \in 1..n /\ b - 1 \in 1..n /\ (b - 1) - 1 = b - 2 /\ b \in Nat
      /\ b - 1 \in Nat /\ b - 2 \in Nat /\ k <= n
    OBVIOUS
<1>1. \A w \in WordsUpTo(chars, b - 2), x \in chars :
            w \in Seq(chars) /\ Append(w, x) \in WordsUpTo(chars, b - 1)
    <2> TAKE w \in WordsUpTo(chars, b - 2), x \in chars
    <2>1. w \in Seq(chars) /\ Len(w) <= b - 2
        BY <1>0, WordsAreSequences
    <2>2. Append(w, x) \in Seq(chars) /\ Len(Append(w, x)) <= b - 1
        BY <1>0, <2>1, AppendProperties
    <2> QED
        BY <1>0, <2>1, <2>2, WordsAreSequences
<1>2. \A w \in WordsUpTo(chars, b - 1), x \in chars :
            w \in Seq(chars) /\ Append(w, x) \in WordsUpTo(chars, b)
    <2> TAKE w \in WordsUpTo(chars, b - 1), x \in chars
    <2>1. w \in Seq(chars) /\ Len(w) <= b - 1
        BY <1>0, WordsAreSequences
    <2>2. Append(w, x) \in Seq(chars) /\ Len(Append(w, x)) <= b
        BY <1>0, <2>1, AppendProperties
    <2> QED
        BY <1>0, <2>1, <2>2, WordsAreSequences
<1> DEFINE from == Append(Append(a, v1), v2)
           to(x, y) == Append(Append(c, x), y)
           words == WordsUpTo(chars, b)
           r == Ways(chars, b, n, "transposing")
<1>3. from \in words /\ \A x, y \in chars : to(x, y) \in words
    BY <1>1, <1>2
<1>4. <<from, to(v1, v2)>> \in r[k]
    <2>1. <<Append(a, v1), Append(c, v1)>> \in Ways(chars, b - 1, n, "transposing")[k]
        BY <1>0, LongerBoth
    <2>2. Append(a, v1) \in WordsUpTo(chars, b - 1) /\ Append(c, v1) \in WordsUpTo(chars, b - 1)
        BY <1>1
    <2> QED
        BY <1>0, <2>1, <2>2, LongerBoth
<1>5. <<from, to(v2, v1)>> \in r[k + 1]
    <2>1. Transposes(to(v1, v2), to(v2, v1))
        BY <1>1, LastTwoTransposed
    <2>2. NextWord(to(v1, v2), to(v2, v1), EditsOf(words, "transposing"), 1)
        BY <1>3, <2>1 DEF NextWord, EditsOf
    <2>3. IsWithin(r, words, n, EditsOf(words, "transposing"))
        BY WaysUnfold
    <2>4. 1 \in 0..1 /\ k + 1 <= n
        OBVIOUS
    <2>5. to(v1, v2) \in words /\ to(v2, v1) \in words
        BY <1>3
    <2> HIDE DEF from, to, words, r
    <2> QED
        BY <1>3, <1>4, <2>2, <2>3, <2>4, <2>5, OneEditMore
<1>6. <<from, to(w1, v1)>> \in r[k + 1 + s]
    <2>1. IF v2 = w1 THEN to(v2, v1) = to(w1, v1) ELSE Substitutes(to(v2, v1), to(w1, v1))
        <3>1. CASE v2 = w1
            BY <3>1
        <3>2. CASE v2 # w1
            <4>1. Substitutes(Append(c, v2), Append(c, w1))
                BY <1>1, <3>2, LastSubstituted
            <4>2. Append(c, v2) \in Seq(chars) /\ Append(c, w1) \in Seq(chars)
                BY <1>1, AppendProperties
            <4> QED
                BY <3>2, <4>1, <4>2, EditsAppended
        <3> QED
            BY <3>1, <3>2
    <2>2. k + 1 \in Nat /\ (k + 1) + Cost(v2, w1) <= n
        OBVIOUS
    <2>3. from \in words /\ to(v2, v1) \in words /\ to(w1, v1) \in words
        BY <1>3
    <2> HIDE DEF from, to
    <2>4. <<from, to(w1, v1)>> \in r[(k + 1) + Cost(v2, w1)]
        BY <1>0, <1>5, <2>1, <2>2, <2>3, SubstitutedOnWay
    <2> QED
        BY <2>4
<1>7. <<from, to(w1, w2)>> \in r[k + 1 + s + t]
    <2>1. IF v1 = w2 THEN to(w1, v1) = to(w1, w2) ELSE Substitutes(to(w1, v1), to(w1, w2))
        <3>1. CASE v1 = w2
            BY <3>1
        <3>2. CASE v1 # w2
            <4>1. Append(c, w1) \in Seq(chars)
                BY <1>1, AppendProperties
            <4> QED
                BY <3>2, <4>1, LastSubstituted
        <3> QED
            BY <3>1, <3>2
    <2>2. k + 1 + s \in Nat /\ (k + 1 + s) + Cost(v1, w2) <= n
        OBVIOUS
    <2>3. from \in words /\ to(w1, v1) \in words /\ to(w1, w2) \in words
        BY <1>3
    <2> HIDE DEF from, to
    <2>4. <<from, to(w1, w2)>> \in r[(k + 1 + s) + Cost(v1, w2)]
        BY <1>0, <1>6, <2>1, <2>2, <2>3, SubstitutedOnWay
    <2> QED
        BY <2>4
<1> QED
    BY <1>7
-----------------------------------------------------------------------------
\* A cell is a number of edits that lead from the start of the one word to that of
\* the other, through words no longer than these.
LEMMA CellIsReached ==
    ASSUME NEW chars, NEW n \in Nat, NEW v \in Seq(chars), NEW w \in Seq(chars),
           NEW kind \in Kinds, NEW f, IsTable(v, w, f, kind)
    PROVE  \A i \in 0..Len(v), j \in 0..Len(w), b \in 0..n : i <= b /\ j <= b =>
                <<Start(v, i), Start(w, j)>> \in Ways(chars, b, n, kind)[f[<<i, j>>]]
<1> DEFINE Reached(i, j) == \A b \in 0..n : i <= b /\ j <= b =>
                <<Start(v, i), Start(w, j)>> \in Ways(chars, b, n, kind)[f[<<i, j>>]]
           shown == {m \in Nat : \A i \in 0..Len(v), j \in 0..Len(w) : i + j < m => Reached(i, j)}
<1>0. Len(v) \in Nat /\ Len(w) \in Nat
    OBVIOUS
<1>1. /\ \A i \in 0..Len(v) : f[<<i, 0>>] = i
      /\ \A j \in 0..Len(w) : f[<<0, j>>] = j
      /\ \A i \in 0..Len(v), j \in 0..Len(w) : f[<<i, j>>] \in Nat
    BY BorderOfTable
<1>2. \A i \in 0..Len(v), j \in 0..Len(w), b \in 0..n : i <= b /\ j <= b => f[<<i, j>>] <= n
    <2> TAKE i \in 0..Len(v), j \in 0..Len(w), b \in 0..n
    <2> HAVE i <= b /\ j <= b
    <2>1. f[<<i, j>>] <= i \/ f[<<i, j>>] <= j
        BY CellAtMostLength
    <2>2. f[<<i, j>>] \in Nat
        BY <1>1
    <2> QED
        BY <1>0, <2>1, <2>2
<1>3. ASSUME NEW b \in 0..n
      PROVE  /\ \A i \in 0..Len(v) : i <= b => Start(v, i) \in WordsUpTo(chars, b)
             /\ \A j \in 0..Len(w) : j <= b => Start(w, j) \in WordsUpTo(chars, b)
    <2>1. b \in Nat
        OBVIOUS
    <2>2. \A i \in 0..Len(v) : Start(v, i) \in Seq(chars) /\ Len(Start(v, i)) = i
        BY StartsOfWord
    <2>3. \A j \in 0..Len(w) : Start(w, j) \in Seq(chars) /\ Len(Start(w, j)) = j
        BY StartsOfWord
    <2> QED
        BY <2>1, <2>2, <2>3, WordsAreSequences
<1>4. \A i \in 1..Len(v) : /\ v[i] \in chars /\ Start(v, i - 1) \in Seq(chars)
                           /\ Len(Start(v, i - 1)) = i - 1
                           /\ Start(v, i) = Append(Start(v, i - 1), v[i])
    <2>1. \A i \in 1..Len(v) : i - 1 \in 0..Len(v)
        BY <1>0
    <2> QED
        BY <2>1, StartsOfWord
<1>5. \A j \in 1..Len(w) : /\ w[j] \in chars /\ Start(w, j - 1) \in Seq(chars)
                           /\ Len(Start(w, j - 1)) = j - 1
                           /\ Start(w, j) = Append(Start(w, j - 1), w[j])
    <2>1. \A j \in 1..Len(w) : j - 1 \in 0..Len(w)
        BY <1>0
    <2> QED
        BY <2>1, StartsOfWord
\* A deletion.
<1>6. ASSUME NEW i \in 1..Len(v), NEW j \in 0..Len(w), Reached(i - 1, j),
             f[<<i, j>>] = f[<<i - 1, j>>] + 1
      PROVE  Reached(i, j)
    <2> SUFFICES ASSUME NEW b \in 0..n, i <= b, j <= b
                 PROVE  <<Start(v, i), Start(w, j)>> \in Ways(chars, b, n, kind)[f[<<i, j>>]]
        OBVIOUS
    <2>1. i - 1 \in 0..Len(v) /\ i \in 0..Len(v) /\ i - 1 <= b /\ (i - 1) + 1 = i
        BY <1>0
    <2>2. <<Start(v, i - 1), Start(w, j)>> \in Ways(chars, b, n, kind)[f[<<i - 1, j>>]]
        BY <1>6, <2>1
    <2>3. f[<<i - 1, j>>] \in Nat /\ f[<<i - 1, j>>] + 1 <= n
        BY <1>1, <1>2, <1>6, <2>1
    <2> DEFINE s == Start(v, i - 1)
               k == f[<<i - 1, j>>]
    <2>4. s \in Seq(chars) /\ v[i] \in chars /\ Len(s) + 1 <= b /\ Start(v, i) = Append(s, v[i])
        BY <1>4, <2>1
    <2> HIDE DEF s, k
    <2>5. <<Append(s, v[i]), Start(w, j)>> \in Ways(chars, b, n, kind)[k + 1]
        BY <2>2, <2>3, <2>4, LongerFirst DEF s, k
    <2> QED
        BY <1>6, <2>4, <2>5 DEF k
\* An insertion.
<1>7. ASSUME NEW i \in 0..Len(v), NEW j \in 1..Len(w), Reached(i, j - 1),
             f[<<i, j>>] = f[<<i, j - 1>>] + 1
      PROVE  Reached(i, j)
    <2> SUFFICES ASSUME NEW b \in 0..n, i <= b, j <= b
                 PROVE  <<Start(v, i), Start(w, j)>> \in Ways(chars, b, n, kind)[f[<<i, j>>]]
        OBVIOUS
    <2>1. j - 1 \in 0..Len(w) /\ j \in 0..Len(w) /\ j - 1 <= b /\ (j - 1) + 1 = j
        BY <1>0
    <2>2. <<Start(v, i), Start(w, j - 1)>> \in Ways(chars, b, n, kind)[f[<<i, j - 1>>]]
        BY <1>7, <2>1
    <2>3. f[<<i, j - 1>>] \in Nat /\ f[<<i, j - 1>>] + 1 <= n
        BY <1>1, <1>2, <1>7, <2>1
    <2> DEFINE s == Start(w, j - 1)
               k == f[<<i, j - 1>>]
    <2>4. s \in Seq(chars) /\ w[j] \in chars /\ Len(s) + 1 <= b /\ Start(w, j) = Append(s, w[j])
        BY <1>5, <2>1
    <2>5. Start(v, i) \in WordsUpTo(chars, b)
        BY <1>3
    <2> HIDE DEF s, k
    <2>6. <<Start(v, i), Append(s, w[j])>> \in Ways(chars, b, n, kind)[k + 1]
        BY <2>2, <2>3, <2>4, <2>5, LongerSecond DEF s, k
    <2> QED
        BY <1>7, <2>4, <2>6 DEF k
\* A substitution, or the same character.
<1>8. ASSUME NEW i \in 1..Len(v), NEW j \in 1..Len(w), Reached(i - 1, j - 1),
             f[<<i, j>>] = f[<<i - 1, j - 1>>] + Cost(v[i], w[j])
      PROVE  Reached(i, j)
    <2> SUFFICES ASSUME NEW b \in 0..n, i <= b, j <= b
                 PROVE  <<Start(v, i), Start(w, j)>> \in Ways(chars, b, n, kind)[f[<<i, j>>]]
        OBVIOUS
    <2>1. /\ i - 1 \in 0..Len(v) /\ j - 1 \in 0..Len(w) /\ b \in 1..n /\ b - 1 \in 0..n
          /\ i - 1 <= b - 1 /\ j - 1 <= b - 1 /\ i \in 0..Len(v) /\ j \in 0..Len(w)
        BY <1>0
    <2> DEFINE s == Start(v, i - 1)
               t == Start(w, j - 1)
               k == f[<<i - 1, j - 1>>]
               x == v[i]
               y == w[j]
    <2>2. <<s, t>> \in Ways(chars, b - 1, n, kind)[k]
        BY <1>8, <2>1
    <2>3. k \in Nat /\ k <= n /\ k + Cost(x, y) <= n
        <3>1. k \in Nat /\ k <= n
            BY <1>1, <1>2, <2>1
        <3>2. k + Cost(x, y) <= n
            BY <1>2, <1>8, <2>1
        <3> QED
            BY <3>1, <3>2
    <2>4. s \in WordsUpTo(chars, b - 1) /\ t \in WordsUpTo(chars, b - 1) /\ t \in Seq(chars)
        BY <1>3, <1>5, <2>1
    <2>5. x \in chars /\ y \in chars /\ Start(v, i) = Append(s, x) /\ Start(w, j) = Append(t, y)
        BY <1>4, <1>5
    <2>6. Start(v, i) \in WordsUpTo(chars, b) /\ Start(w, j) \in WordsUpTo(chars, b)
        BY <1>3, <2>1
    <2>7. f[<<i, j>>] = k + Cost(x, y)
        BY <1>8
    <2> HIDE DEF s, t, k, x, y
    <2>8. <<Append(s, x), Append(t, x)>> \in Ways(chars, b, n, kind)[k]
        BY <2>1, <2>2, <2>3, <2>4, <2>5, LongerBoth
    <2>9. Append(t, x) \in WordsUpTo(chars, b)
        <3>1. Len(t) <= b - 1 /\ b \in Nat /\ b - 1 \in Nat
            BY <2>1, <2>4, WordsAreSequences
        <3>2. Append(t, x) \in Seq(chars) /\ Len(Append(t, x)) <= b
            BY <2>4, <2>5, <3>1, AppendProperties
        <3> QED
            BY <3>1, <3>2, WordsAreSequences
    <2>10. IF x = y THEN Append(t, x) = Append(t, y) ELSE Substitutes(Append(t, x), Append(t, y))
        BY <2>4, <2>5, LastSubstituted
    <2>11. <<Append(s, x), Append(t, y)>> \in Ways(chars, b, n, kind)[k + Cost(x, y)]
        BY <2>3, <2>5, <2>6, <2>8, <2>9, <2>10, SubstitutedOnWay
    <2> QED
        BY <2>5, <2>7, <2>11
\* A transposition.
<1>9. ASSUME NEW i \in 3..Len(v), NEW j \in 3..Len(w), kind = "transposing", Reached(i - 2, j - 2),
             f[<<i, j>>] = Transposed(v, w, i, j, f[<<i - 2, j - 2>>])
      PROVE  Reached(i, j)
    <2> SUFFICES ASSUME NEW b \in 0..n, i <= b, j <= b
                 PROVE  <<Start(v, i), Start(w, j)>> \in Ways(chars, b, n, kind)[f[<<i, j>>]]
        OBVIOUS
    <2>1. /\ i - 2 \in 0..Len(v) /\ j - 2 \in 0..Len(w) /\ b \in 2..n /\ b - 2 \in 0..n
          /\ i - 2 <= b - 2 /\ j - 2 <= b - 2 /\ i \in 0..Len(v) /\ j \in 0..Len(w)
          /\ i \in 1..Len(v) /\ j \in 1..Len(w) /\ i - 1 \in 1..Len(v) /\ j - 1 \in 1..Len(w)
          /\ (i - 1) - 1 = i - 2 /\ (j - 1) - 1 = j - 2
        BY <1>0
    <2> DEFINE a == Start(v, i - 2)
               c == Start(w, j - 2)
               k == f[<<i - 2, j - 2>>]
               v1 == v[i - 1]
               v2 == v[i]
               w1 == w[j - 1]
               w2 == w[j]
               s == Cost(v2, w1)
               t == Cost(v1, w2)
    <2>2. <<a, c>> \in Ways(chars, b - 2, n, "transposing")[k]
        BY <1>9, <2>1
    <2>3. a \in WordsUpTo(chars, b - 2) /\ c \in WordsUpTo(chars, b - 2)
        BY <1>3, <2>1
    <2>4. /\ v1 \in chars /\ v2 \in chars /\ w1 \in chars /\ w2 \in chars
          /\ Start(v, i) = Append(Append(a, v1), v2) /\ Start(w, j) = Append(Append(c, w1), w2)
        BY <1>4, <1>5, <2>1
    <2>5. k \in Nat /\ f[<<i, j>>] \in Nat /\ f[<<i, j>>] <= n
        BY <1>1, <1>2, <2>1
    <2>6. s \in 0..1 /\ t \in 0..1
        BY CostType
    <2>7. f[<<i, j>>] = k + 1 + t + s
        BY <1>9 DEF Transposed
    <2>8. s = Cost(v2, w1) /\ t = Cost(v1, w2)
        OBVIOUS
    <2> HIDE DEF a, c, k, v1, v2, w1, w2, s, t
    <2>9. f[<<i, j>>] = k + 1 + s + t /\ k + 1 + s + t <= n
        BY <2>5, <2>6, <2>7
    <2>10. <<Append(Append(a, v1), v2), Append(Append(c, w1), w2)>> \in
                Ways(chars, b, n, "transposing")[k + 1 + s + t]
        BY <2>1, <2>2, <2>3, <2>4, <2>5, <2>6, <2>8, <2>9, TransposedOnWay
    <2> QED
        BY <1>9, <2>4, <2>9, <2>10
\* Neither word has begun.
<1>10. Reached(0, 0)
    <2>1. 0 \in 0..Len(v) /\ 0 \in 0..Len(w)
        BY <1>0
    <2>2. ASSUME NEW b \in 0..n
          PROVE  <<Start(v, 0), Start(w, 0)>> \in Ways(chars, b, n, kind)[f[<<0, 0>>]]
        <3>1. f[<<0, 0>>] = 0 /\ Start(v, 0) = <<>> /\ Start(w, 0) = <<>>
            BY <1>1, <2>1, StartsOfWord
        <3>2. <<>> \in WordsUpTo(chars, b)
            BY <1>3, <2>1, <3>1
        <3>3. IsWithin(Ways(chars, b, n, kind), WordsUpTo(chars, b), n,
                       EditsOf(WordsUpTo(chars, b), kind))
            BY WaysUnfold
        <3> QED
            BY <3>1, <3>2, <3>3 DEF IsWithin
    <2> QED
        BY <2>2
<1> HIDE DEF Reached
<1>11. 0 \in shown
    BY <1>0
<1>12. ASSUME NEW m \in shown PROVE m + 1 \in shown
    <2>0. m \in Nat
        OBVIOUS
    <2>1. ASSUME NEW i \in 0..Len(v), NEW j \in 0..Len(w), i + j < m + 1
          PROVE  Reached(i, j)
        <3>1. CASE i = 0 /\ j = 0
            BY <1>10, <3>1
        <3>2. CASE i = 0 /\ j # 0
            <4>1. j \in 1..Len(w) /\ j - 1 \in 0..Len(w) /\ i + (j - 1) < m
                BY <1>0, <2>0, <2>1, <3>2
            <4>2. f[<<0, j>>] = j /\ f[<<0, j - 1>>] = j - 1 /\ (j - 1) + 1 = j
                BY <1>0, <1>1, <4>1
            <4> QED
                BY <1>7, <3>2, <4>1, <4>2
        <3>3. CASE i # 0 /\ j = 0
            <4>1. i \in 1..Len(v) /\ i - 1 \in 0..Len(v) /\ (i - 1) + j < m
                BY <1>0, <2>0, <2>1, <3>3
            <4>2. f[<<i, 0>>] = i /\ f[<<i - 1, 0>>] = i - 1 /\ (i - 1) + 1 = i
                BY <1>0, <1>1, <4>1
            <4> QED
                BY <1>6, <3>3, <4>1, <4>2
        <3>4. CASE i # 0 /\ j # 0
            <4>1. /\ i \in 1..Len(v) /\ i - 1 \in 0..Len(v) /\ j \in 1..Len(w) /\ j - 1 \in 0..Len(w)
                  /\ i > 2 => i \in 3..Len(v) /\ i - 2 \in 0..Len(v)
                  /\ j > 2 => j \in 3..Len(w) /\ j - 2 \in 0..Len(w)
                <5> HIDE DEF shown
                <5> QED
                    BY <1>0, <3>4
            <4>2. /\ (i - 1) + j < m /\ i + (j - 1) < m /\ (i - 1) + (j - 1) < m
                  /\ (i - 2) + (j - 2) < m
                <5> HIDE DEF shown
                <5> QED
                    BY <1>0, <2>0, <2>1, <4>1
            <4>3. /\ Reached(i - 1, j) /\ Reached(i, j - 1) /\ Reached(i - 1, j - 1)
                  /\ i > 2 /\ j > 2 => Reached(i - 2, j - 2)
                BY <4>1, <4>2
            <4> HIDE DEF shown
            <4>4. \/ f[<<i, j>>] = f[<<i - 1, j>>] + 1
                  \/ f[<<i, j>>] = f[<<i, j - 1>>] + 1
                  \/ f[<<i, j>>] = f[<<i - 1, j - 1>>] + Cost(v[i], w[j])
                  \/ /\ kind = "transposing" /\ i > 2 /\ j > 2
                     /\ f[<<i, j>>] = Transposed(v, w, i, j, f[<<i - 2, j - 2>>])
                <5>1. f[<<i, j>>] \in Options(v, w, f, i, j, kind)
                    BY <4>1, CellIsOption
                <5> QED
                    BY <5>1 DEF Options
            <4>5. CASE f[<<i, j>>] = f[<<i - 1, j>>] + 1
                BY <1>6, <4>1, <4>3, <4>5
            <4>6. CASE f[<<i, j>>] = f[<<i, j - 1>>] + 1
                BY <1>7, <4>1, <4>3, <4>6
            <4>7. CASE f[<<i, j>>] = f[<<i - 1, j - 1>>] + Cost(v[i], w[j])
                BY <1>8, <4>1, <4>3, <4>7
            <4>8. CASE /\ kind = "transposing" /\ i > 2 /\ j > 2
                       /\ f[<<i, j>>] = Transposed(v, w, i, j, f[<<i - 2, j - 2>>])
                BY <1>9, <4>1, <4>3, <4>8
            <4> QED
                BY <4>4, <4>5, <4>6, <4>7, <4>8
        <3> QED
            BY <3>1, <3>2, <3>3, <3>4
    <2> QED
        BY <2>0, <2>1
<1>13. \A m \in Nat : m \in shown
    <2> HIDE DEF shown
    <2> QED
        BY <1>11, <1>12, Inductive
<1>14. ASSUME NEW i \in 0..Len(v), NEW j \in 0..Len(w) PROVE Reached(i, j)
    <2>1. i + j + 1 \in Nat /\ i + j < i + j + 1
        BY <1>0
    <2>2. i + j + 1 \in shown
        BY <1>13, <2>1
    <2> QED
        BY <2>1, <2>2
<1> QED
    BY <1>14 DEF Reached
-----------------------------------------------------------------------------
(***************************************************************************)
(* The distance is between the numbers of edits with transpositions and    *)
(* without.                                                                *)
(***************************************************************************)

\* DamerauLevenshteinDistance() is no less than the number of edits, transpositions
\* among them, that turn the one word into the other.
THEOREM DistanceIsAtLeastEdits ==
    ASSUME NEW chars, NEW n \in Nat, NEW v \in WordsUpTo(chars, n), NEW w \in WordsUpTo(chars, n)
    PROVE  LET words == WordsUpTo(chars, n)
               edits == EditDistances(words, n, EditsOf(words, "transposing"))
           IN  /\ edits[<<v, w>>] \in Nat /\ DamerauLevenshteinDistance(v, w) \in Nat
               /\ edits[<<v, w>>] <= DamerauLevenshteinDistance(v, w)
<1>1. v \in Seq(chars) /\ w \in Seq(chars) /\ Len(v) \in 0..n /\ Len(w) \in 0..n
    BY WordsAreSequences
<1>2. PICK f : /\ IsTable(v, w, f, "transposing")
               /\ DamerauLevenshteinDistance(v, w) = f[<<Len(v), Len(w)>>]
    BY <1>1, DistanceIsLastCell
<1> DEFINE k == f[<<Len(v), Len(w)>>]
           words == WordsUpTo(chars, n)
<1>3. /\ "transposing" \in Kinds /\ Len(v) \in 0..Len(v) /\ Len(w) \in 0..Len(w) /\ n \in 0..n
      /\ Len(v) <= n /\ Len(w) <= n
    BY <1>1 DEF Kinds
<1>4. k \in Nat /\ (k <= Len(v) \/ k <= Len(w))
    BY <1>1, <1>2, <1>3, BorderOfTable, CellAtMostLength
<1>5. <<Start(v, Len(v)), Start(w, Len(w))>> \in Ways(chars, n, n, "transposing")[k]
    BY <1>1, <1>2, <1>3, CellIsReached
<1>6. <<v, w>> \in Within(words, n, EditsOf(words, "transposing"))[k]
    BY <1>1, <1>5, StartsOfWord DEF Ways
<1>7. k \in 0..n
    BY <1>3, <1>4, <1>1
<1>8. <<v, w>> \in words \X words
    OBVIOUS
<1> HIDE DEF k, words
<1>9. EditDistances(words, n, EditsOf(words, "transposing"))[<<v, w>>] \in 0..k
    BY <1>6, <1>7, <1>8, EditDistanceIsLeast
<1> QED
    BY <1>2, <1>4, <1>9 DEF k, words

\* It is no more than the number of edits without transpositions.
THEOREM DistanceIsAtMostLevenshtein ==
    ASSUME NEW chars, NEW n \in Nat, NEW v \in WordsUpTo(chars, n), NEW w \in WordsUpTo(chars, n)
    PROVE  LET words == WordsUpTo(chars, n)
               edits == EditDistances(words, n, EditsOf(words, "plain"))
           IN  /\ edits[<<v, w>>] \in Nat /\ DamerauLevenshteinDistance(v, w) \in Nat
               /\ DamerauLevenshteinDistance(v, w) <= edits[<<v, w>>]
<1>1. v \in Seq(chars) /\ w \in Seq(chars) /\ Len(v) \in 0..n /\ Len(w) \in 0..n
    BY WordsAreSequences
<1>2. PICK f : /\ IsTable(v, w, f, "transposing")
               /\ DamerauLevenshteinDistance(v, w) = f[<<Len(v), Len(w)>>]
    BY <1>1, DistanceIsLastCell
<1>3. /\ "transposing" \in Kinds /\ "plain" \in Kinds
      /\ Len(v) \in 0..Len(v) /\ Len(w) \in 0..Len(w) /\ n \in 0..n
      /\ Len(v) <= n /\ Len(w) <= n
    BY <1>1 DEF Kinds
<1>4. PICK g : IsTable(v, w, g, "plain")
    BY <1>1, <1>3, TableExists
<1> DEFINE k == g[<<Len(v), Len(w)>>]
           d == f[<<Len(v), Len(w)>>]
           words == WordsUpTo(chars, n)
           edits == EditsOf(words, "plain")
<1>5. k \in Nat /\ (k <= Len(v) \/ k <= Len(w))
    BY <1>1, <1>3, <1>4, BorderOfTable, CellAtMostLength
<1>6. d \in Nat /\ d <= k
    BY <1>1, <1>2, <1>3, <1>4, BorderOfTable, TransposingIsLess
<1>7. <<Start(v, Len(v)), Start(w, Len(w))>> \in Ways(chars, n, n, "plain")[k]
    BY <1>1, <1>3, <1>4, CellIsReached
<1>8. <<v, w>> \in Within(words, n, edits)[k]
    BY <1>1, <1>7, StartsOfWord DEF Ways
<1>9. k \in 0..n
    BY <1>1, <1>3, <1>5
<1>10. <<v, w>> \in words \X words /\ words \in SUBSET Seq(chars)
    BY WordsAreSequences
<1>11. IsWithin(Within(words, n, edits), words, n, edits)
    BY WithinUnfolds
<1> DEFINE least == EditDistances(words, n, edits)[<<v, w>>]
<1> HIDE DEF k, words, d
<1>12. least \in 0..k /\ <<v, w>> \in Within(words, n, edits)[least]
    BY <1>8, <1>9, <1>10, EditDistanceIsLeast
<1> HIDE DEF least
<1>13. least \in Nat /\ least <= n
    BY <1>9, <1>12
<1>14. k <= least
    BY <1>4, <1>10, <1>11, <1>12, <1>13, WithinIsNear DEF k
<1>15. d <= least
    BY <1>5, <1>6, <1>13, <1>14
<1> QED
    BY <1>2, <1>6, <1>13, <1>15 DEF least, d, words
-----------------------------------------------------------------------------
\* All texts are among the words the distances are between.
LEMMA TextsAreWords == MaxWordLen \in Nat /\ Words \subseteq AllWords
<1> DEFINE lengths == {Len(w) : w \in Words}
<1>1. \A w \in Words : Len(w) \in Nat /\ Len(w) <= QLineEditMaxLength
    BY WordsAssumption
<1>2. lengths \in SUBSET Nat /\ lengths # {} /\ \A m \in lengths : m <= QLineEditMaxLength
    BY <1>1, WordsAssumption
<1>3. QLineEditMaxLength \in Nat
    BY MaxLengthAssumption
<1>4. Max(lengths) \in lengths /\ \A m \in lengths : m <= Max(lengths)
    BY <1>2, <1>3, LargestNatural
<1>5. MaxWordLen = Max(lengths)
    BY DEF MaxWordLen
<1>6. MaxWordLen \in Nat /\ \A w \in Words : Len(w) <= MaxWordLen
    BY <1>2, <1>4, <1>5
<1>7. ASSUME NEW w \in Words PROVE w \in AllWords
    <2>1. w \in Seq(ToSet(w)) /\ ToSet(w) \subseteq Chars
        BY WordsAssumption DEF Chars
    <2>2. w \in Seq(Chars)
        BY <2>1, SeqMonotonic
    <2> QED
        BY <1>6, <2>2, WordsAreSequences DEF AllWords
<1> QED
    BY <1>6, <1>7

\* The distance of any two texts, and the numbers of edits between them.
LEMMA TextsAreBetweenBounds ==
    ASSUME NEW v \in Words, NEW w \in Words
    PROVE  /\ DamerauLevenshteinDistance(v, w) \in Nat
           /\ EditDistance[<<v, w>>] \in Nat /\ Levenshtein[<<v, w>>] \in Nat
           /\ EditDistance[<<v, w>>] <= DamerauLevenshteinDistance(v, w)
           /\ DamerauLevenshteinDistance(v, w) <= Levenshtein[<<v, w>>]
           /\ DamerauLevenshteinDistance(v, w) = DamerauLevenshteinDistance(w, v)
<1>1. /\ MaxWordLen \in Nat
      /\ v \in WordsUpTo(Chars, MaxWordLen) /\ w \in WordsUpTo(Chars, MaxWordLen)
    BY TextsAreWords DEF AllWords
<1>2. EditsOf(AllWords, "transposing") = {p \in Pairs : AnyEdit(p[1], p[2])}
    BY DEF EditsOf, AnyEdit, NoTransposition, Pairs
<1>3. EditsOf(AllWords, "plain") = {p \in Pairs : NoTransposition(p[1], p[2])}
    BY DEF EditsOf, Pairs
<1>4. /\ EditDistance[<<v, w>>] \in Nat /\ DamerauLevenshteinDistance(v, w) \in Nat
      /\ EditDistance[<<v, w>>] <= DamerauLevenshteinDistance(v, w)
    BY <1>1, <1>2, DistanceIsAtLeastEdits DEF EditDistance, AllWords
<1>5. /\ Levenshtein[<<v, w>>] \in Nat
      /\ DamerauLevenshteinDistance(v, w) <= Levenshtein[<<v, w>>]
    BY <1>1, <1>3, DistanceIsAtMostLevenshtein DEF Levenshtein, AllWords
<1>6. v \in Seq(Chars) /\ w \in Seq(Chars)
    BY <1>1, WordsAreSequences
<1>7. DamerauLevenshteinDistance(v, w) = DamerauLevenshteinDistance(w, v)
    BY <1>6, DistanceIsSymmetric
<1> QED
    BY <1>4, <1>5, <1>7
-----------------------------------------------------------------------------
(***************************************************************************)
(* What the widget accepts.                                                *)
(***************************************************************************)

\* The distance and the numbers of edits keep their order for all texts typed.
THEOREM DistanceAlwaysBounded == Spec => []DistanceBounded
<1>1. OneVerdict => DistanceBounded
    <2> SUFFICES ASSUME OneVerdict PROVE DistanceBounded
        OBVIOUS
    <2>1. text["new"] \in Words /\ text["hint"] \in Words
        BY DEF OneVerdict, TypeOK, Fields
    <2> QED
        BY <2>1, TextsAreBetweenBounds DEF DistanceBounded
<1> QED
    BY <1>1, WidgetTellsOneVerdict, PTL

\* The characters of a class in a text are counted.
LEMMA CountIsNatural ==
    ASSUME NEW w \in Words, NEW class
    PROVE  Count(w, class) \in Nat /\ Len(w) \in Nat
<1>1. w \in Seq(ToSet(w))
    BY WordsAssumption
<1>2. Len(w) \in Nat /\ DOMAIN w = 1..Len(w)
    BY <1>1
<1>3. IsFiniteSet(1..Len(w)) /\ {i \in DOMAIN w : w[i] \in class} \subseteq 1..Len(w)
    BY <1>2, FS_Interval
<1> QED
    BY <1>2, <1>3, FS_Subset, FS_CardinalityType DEF Count

\* What DoValidateOldPassword() and DoValidateNewPassword() accept has what is asked.
LEMMA AcceptableHasWhatIsAsked ==
    ASSUME NEW r \in RequirementsType, NEW w \in Words, PasswordVerdict(r, w) = "acceptable"
    PROVE  HasWhatIsAsked(w, r) /\ (~r.unicode => Count(w, NonAscii) = 0)
<1>1. \A class : Count(w, class) \in Nat /\ Len(w) \in Nat
    BY CountIsNatural
<1>2. /\ AsciiAndShort(r, w, r.pwdMaxLen) /\ ~(Len(w) < r.pwdMinLen)
      /\ Count(w, Letters) >= r.pwdMinLetters
      /\ Count(w, Upper) >= r.pwdMinUpper /\ Count(w, Lower) >= r.pwdMinLower
      /\ Count(w, Digits) >= r.pwdMinDigits /\ Count(w, Symbols) >= r.pwdMinSymbols
    BY DEF PasswordVerdict
<1>3. {r.pwdMaxLen, r.pwdMinLen, r.pwdMinLetters, r.pwdMinUpper, r.pwdMinLower, r.pwdMinDigits,
       r.pwdMinSymbols} \subseteq Int
    BY DEF RequirementsType
<1>4. MaxLen(r.pwdMaxLen) \in Int
    BY <1>3, MaxLengthAssumption DEF MaxLen
<1>5. Len(w) \in r.pwdMinLen..MaxLen(r.pwdMaxLen)
    BY <1>1, <1>2, <1>3, <1>4 DEF AsciiAndShort
<1>6. /\ r.pwdMinLetters <= Count(w, Letters)
      /\ r.pwdMinUpper <= Count(w, Upper) /\ r.pwdMinLower <= Count(w, Lower)
      /\ r.pwdMinDigits <= Count(w, Digits) /\ r.pwdMinSymbols <= Count(w, Symbols)
    BY <1>1, <1>2, <1>3
<1> QED
    BY <1>2, <1>5, <1>6 DEF HasWhatIsAsked, AsciiAndShort

\* A validation that returns true found every text acceptable that counts.
LEMMA ValidMeansAllAcceptable ==
    ASSUME NEW m, NEW r, NEW t, NEW oldMark, Marks(m, r, t, oldMark).valid
    PROVE  /\ m = "change" => /\ PasswordVerdict(r, t["old"]) = "acceptable"
                             /\ NewOldVerdict(m, r, t) = "acceptable"
           /\ PasswordVerdict(r, t["new"]) = "acceptable"
           /\ ConfirmedVerdict(t) = "acceptable"
           /\ HintVerdict(r, t["hint"]) = "acceptable"
           /\ HintNewVerdict(r, t) = "acceptable"
BY DEF Marks, InTurn

\* Texts that differ as is asked are as many edits apart, at least.
LEMMA DifferentEnough ==
    ASSUME NEW v \in Words, NEW w \in Words, NEW notEqual, NEW minSimilarity \in Int,
           Differs(v, w, notEqual, minSimilarity)
    PROVE  (notEqual => v # w) /\ minSimilarity <= Levenshtein[<<v, w>>]
<1>1. /\ DamerauLevenshteinDistance(v, w) \in Nat /\ Levenshtein[<<v, w>>] \in Nat
      /\ DamerauLevenshteinDistance(v, w) <= Levenshtein[<<v, w>>]
    BY TextsAreBetweenBounds
<1> DEFINE d == DamerauLevenshteinDistance(v, w)
           least == Levenshtein[<<v, w>>]
<1>2. minSimilarity > 0 => d >= minSimilarity
    BY DEF Differs
<1> HIDE DEF d, least
<1>3. d \in Nat /\ least \in Nat /\ d <= least
    BY <1>1 DEF d, least
<1>4. minSimilarity <= least
    BY <1>2, <1>3
<1> QED
    BY <1>4 DEF Differs, least

\* What isValid_ says was found for the texts, mode and requirements as they are.
Validated ==
    \E oldMark \in Marked \cup {"none"} : isValid = Marks(mode, req, text, oldMark).valid

\* What was found valid meets the requirements.
LEMMA ValidatedMeetsRequirements ==
    ASSUME OneVerdict, Validated PROVE AcceptedMeetsRequirements
<1> SUFFICES ASSUME isValid PROVE AcceptedMeetsRequirements
    BY DEF AcceptedMeetsRequirements
<1>1. PICK oldMark : Marks(mode, req, text, oldMark).valid
    BY DEF Validated
<1>2. /\ mode = "change" => /\ PasswordVerdict(req, text["old"]) = "acceptable"
                            /\ NewOldVerdict(mode, req, text) = "acceptable"
      /\ PasswordVerdict(req, text["new"]) = "acceptable"
      /\ ConfirmedVerdict(text) = "acceptable"
      /\ HintVerdict(req, text["hint"]) = "acceptable"
      /\ HintNewVerdict(req, text) = "acceptable"
    BY <1>1, ValidMeansAllAcceptable
<1>3. /\ req \in RequirementsType /\ mode \in {"set", "change"}
      /\ text["old"] \in Words /\ text["new"] \in Words /\ text["confirm"] \in Words
      /\ text["hint"] \in Words
    BY DEF OneVerdict, TypeOK, Fields
<1>4. HasWhatIsAsked(text["new"], req) /\ (~req.unicode => Count(text["new"], NonAscii) = 0)
    BY <1>2, <1>3, AcceptableHasWhatIsAsked
<1>5. mode = "change" => /\ HasWhatIsAsked(text["old"], req)
                         /\ ~req.unicode => Count(text["old"], NonAscii) = 0
    BY <1>2, <1>3, AcceptableHasWhatIsAsked
<1>6. text["confirm"] = text["new"]
    BY <1>2 DEF ConfirmedVerdict
<1>7. /\ Len(text["hint"]) \in req.hintMinLen..MaxLen(req.hintMaxLen)
      /\ ~req.unicode => Count(text["hint"], NonAscii) = 0
    <2>1. AsciiAndShort(req, text["hint"], req.hintMaxLen) /\ ~(Len(text["hint"]) < req.hintMinLen)
        BY <1>2 DEF HintVerdict
    <2>2. req.hintMaxLen \in Int /\ req.hintMinLen \in Int
        BY <1>3 DEF RequirementsType
    <2>3. MaxLen(req.hintMaxLen) \in Int
        BY <2>2, MaxLengthAssumption DEF MaxLen
    <2>4. Len(text["hint"]) \in Nat
        BY <1>3, CountIsNatural
    <2> QED
        BY <2>1, <2>2, <2>3, <2>4 DEF AsciiAndShort
<1>8. /\ req.hintNotEqual => text["hint"] # text["new"]
      /\ req.hintMinSimilarity <= Levenshtein[<<text["hint"], text["new"]>>]
    <2>1. Differs(text["hint"], text["new"], req.hintNotEqual, req.hintMinSimilarity)
        BY <1>2 DEF HintNewVerdict
    <2>2. req.hintMinSimilarity \in Int
        BY <1>3 DEF RequirementsType
    <2> QED
        BY <1>3, <2>1, <2>2, DifferentEnough
<1>9. mode = "change" =>
        /\ req.newOldNotEqual => text["new"] # text["old"]
        /\ req.newOldMinSimilarity <= Levenshtein[<<text["new"], text["old"]>>]
    <2> SUFFICES ASSUME mode = "change"
                 PROVE  /\ req.newOldNotEqual => text["new"] # text["old"]
                        /\ req.newOldMinSimilarity <= Levenshtein[<<text["new"], text["old"]>>]
        OBVIOUS
    <2>1. Differs(text["new"], text["old"], req.newOldNotEqual, req.newOldMinSimilarity)
        BY <1>2 DEF NewOldVerdict
    <2>2. req.newOldMinSimilarity \in Int
        BY <1>3 DEF RequirementsType
    <2> QED
        BY <1>3, <2>1, <2>2, DifferentEnough
<1>10. ~req.unicode => \A f \in Visible : Count(text[f], NonAscii) = 0
    BY <1>3, <1>4, <1>5, <1>6, <1>7 DEF Visible, Fields
<1> QED
    BY <1>4, <1>5, <1>6, <1>7, <1>8, <1>9, <1>10 DEF AcceptedMeetsRequirements

\* Every handler ends with a validation of what it leaves.
LEMMA AlwaysValidated == Spec => [](OneVerdict /\ Validated)
<1>1. Init => Validated
    BY DEF Init, Validated
<1>2. OneVerdict /\ Validated /\ [Next]_vars => Validated'
    <2> SUFFICES ASSUME OneVerdict, Validated, [Next]_vars PROVE Validated'
        OBVIOUS
    <2>1. ASSUME ValidateAll PROVE Validated'
        <3>1. mark["old"] \in Marked
            BY DEF OneVerdict, TypeOK, Fields
        <3>2. isValid' = Marks(mode', req', text', mark["old"]).valid
            BY <2>1 DEF ValidateAll
        <3> QED
            BY <3>1, <3>2 DEF Validated
    <2>2. CASE UNCHANGED vars
        BY <2>2 DEF vars, Validated
    <2>3. CASE Next
        BY <2>1, <2>3 DEF Next, Edit, SetMode, SetRequirements, Clear
    <2> QED
        BY <2>2, <2>3
<1> QED
    BY <1>1, <1>2, WidgetTellsOneVerdict, PTL DEF Spec

\* A password that is accepted meets the requirements in force, in every history.
THEOREM AcceptedPasswordMeetsRequirements == Spec => []AcceptedMeetsRequirements
<1>1. OneVerdict /\ Validated => AcceptedMeetsRequirements
    BY ValidatedMeetsRequirements
<1> QED
    BY <1>1, AlwaysValidated, PTL
=============================================================================
