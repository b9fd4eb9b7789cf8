----------------------------- MODULE PasswordWidget ----------------------------
(***************************************************************************)
(* PasswordWidget: the four line edits of a dialog that sets or changes a  *)
(* password are validated together, against PasswordRequirements, whenever *)
(* one is edited, and when the mode or the requirements change.  Who uses  *)
(* the widget follows ValidChanged().                                      *)
(***************************************************************************)
EXTENDS PasswordRequirements, DamerauLevenshtein

CONSTANTS
    Words,                                          \* what is typed, with its prefixes
    Letters, Upper, Lower, Digits, Symbols, NonAscii,       \* the classes of characters
    Requirements,                                   \* what clients try to set
    DefaultRequirements                             \* those of the default arguments

ASSUME WordsAssumption ==
    /\ <<>> \in Words
    /\ \A w \in Words : /\ w \in Seq(ToSet(w)) /\ Len(w) <= QLineEditMaxLength
                       /\ \A n \in 0..Len(w) : SubSeq(w, 1, n) \in Words

ASSUME RequirementsAssumption ==
    /\ Requirements \subseteq RequirementsType
    /\ DefaultRequirements \in RequirementsType /\ Validate(DefaultRequirements)

VARIABLES
    mode,       \* mode_
    req,        \* passwordRequirements_
    text,       \* of the line edits
    mark,       \* the colors of the line edits
    isValid,    \* isValid_
    told        \* what the last ValidChanged() said

vars == <<mode, req, text, mark, isValid, told>>

Fields == {"old", "new", "confirm", "hint"}

Count(w, class) == Cardinality({i \in DOMAIN w : w[i] \in class})
-----------------------------------------------------------------------------
AsciiAndShort(r, w, max) == (r.unicode \/ Count(w, NonAscii) = 0) /\ Len(w) <= MaxLen(max)

\* What DoValidateOldPassword() and DoValidateNewPassword() find in the password
\* itself.
PasswordVerdict(r, w) ==
    IF ~AsciiAndShort(r, w, r.pwdMaxLen) THEN "invalid"
    ELSE IF Len(w) < r.pwdMinLen THEN "intermediate"
    ELSE IF /\ Count(w, Letters) >= r.pwdMinLetters
            /\ Count(w, Upper) >= r.pwdMinUpper /\ Count(w, Lower) >= r.pwdMinLower
            /\ Count(w, Digits) >= r.pwdMinDigits /\ Count(w, Symbols) >= r.pwdMinSymbols
         THEN "acceptable" ELSE "invalid"

ConfirmVerdict(r, w) == IF r.pwdMinLen > 0 /\ w = <<>> THEN "intermediate" ELSE "acceptable"

HintVerdict(r, w) ==
    IF ~AsciiAndShort(r, w, r.hintMaxLen) THEN "invalid"
    ELSE IF Len(w) < r.hintMinLen THEN "intermediate" ELSE "acceptable"

\* Not equal, and at least so far away.
Differs(v, w, notEqual, minSimilarity) ==
    /\ notEqual => v # w
    /\ minSimilarity > 0 => DamerauLevenshteinDistance(v, w) >= minSimilarity

NewOldVerdict(m, r, t) ==
    IF m = "change" => Differs(t["new"], t["old"], r.newOldNotEqual, r.newOldMinSimilarity)
    THEN "acceptable" ELSE "invalid"

\* Mutant: any start of the password confirms it.
ConfirmedVerdict_Prefix(t) ==
    IF IsPrefix(t["confirm"], t["new"]) THEN "acceptable" ELSE "invalid"

ConfirmedVerdict(t) ==
    IF Len(t["confirm"]) < Len(t["new"])
    THEN IF IsPrefix(t["confirm"], t["new"]) THEN "intermediate" ELSE "invalid"
    ELSE IF t["confirm"] = t["new"] THEN "acceptable" ELSE "invalid"

HintNewVerdict(r, t) ==
    IF Differs(t["hint"], t["new"], r.hintNotEqual, r.hintMinSimilarity)
    THEN "acceptable" ELSE "invalid"

\* What a field depends on is looked at when all is well so far.
InTurn(own, wellSoFar, dependent) ==
    IF own # "acceptable" THEN own ELSE IF wellSoFar THEN dependent ELSE "intermediate"

\* DoValidate(): the marks of the fields, one after the other.  The old password
\* keeps its mark when it is not asked for.
Marks(m, r, t, oldMark) ==
    LET old == IF m = "change" THEN PasswordVerdict(r, t["old"]) ELSE oldMark
        oldOk == m = "change" => old = "acceptable"
        new == InTurn(PasswordVerdict(r, t["new"]), oldOk, NewOldVerdict(m, r, t))
        newOk == oldOk /\ new = "acceptable"
        confirm == InTurn(ConfirmVerdict(r, t["confirm"]), newOk, ConfirmedVerdict(t))
        confirmOk == newOk /\ confirm = "acceptable"
        hint == InTurn(HintVerdict(r, t["hint"]), confirmOk, HintNewVerdict(r, t))
    IN  [old |-> old, new |-> new, confirm |-> confirm, hint |-> hint,
         valid |-> confirmOk /\ hint = "acceptable"]

Shown(marks) == [f \in Fields |-> marks[f]]

\* Validate(), which emits ValidChanged().
ValidateAll ==
    LET marks == Marks(mode', req', text', mark["old"])
    IN  /\ mark' = Shown(marks)
        /\ isValid' = marks.valid
        /\ told' = IF isValid' # isValid THEN isValid' ELSE told
-----------------------------------------------------------------------------
\* PasswordWidget(): whoever created it reads IsValid() first.
Init ==
    /\ mode = "change"
    /\ req = DefaultRequirements
    /\ text = [f \in Fields |-> <<>>]
    /\ LET marks == Marks(mode, req, text, "none")
       IN  mark = Shown(marks) /\ isValid = marks.valid
    /\ told = isValid

FieldMax(r, f) == MaxLen(IF f = "hint" THEN r.hintMaxLen ELSE r.pwdMaxLen)

\* textEdited() of a visible line edit, which takes no more than its maximum.
Edit(f, w) ==
    /\ f = "old" => mode = "change"
    /\ Len(w) <= FieldMax(req, f)
    /\ text' = [text EXCEPT ![f] = w]
    /\ UNCHANGED <<mode, req>>
    /\ ValidateAll

\* Mutant: the fields are not validated.
SetMode_Unvalidated(m) ==
    /\ mode' = m
    /\ UNCHANGED <<req, text, mark, isValid, told>>

SetMode(m) ==
    /\ mode' = m
    /\ UNCHANGED <<req, text>>
    /\ ValidateAll

\* setMaxLength() shortens what is too long.
SetRequirements(r) ==
    /\ req' = r
    /\ text' = [f \in Fields |->
                    SubSeq(text[f], 1, Min({Len(text[f]), FieldMax(r, f)}))]
    /\ UNCHANGED mode
    /\ ValidateAll

Clear ==
    /\ text' = [f \in Fields |-> <<>>]
    /\ UNCHANGED <<mode, req>>
    /\ ValidateAll

Next ==
    \/ \E f \in Fields, w \in Words : Edit(f, w)
    \/ \E m \in {"set", "change"} : SetMode(m)
    \/ \E r \in Requirements :
        Validate(r) /\ \E s \in {r, ClearHint(r), ClearNew(r)} : SetRequirements(s)
    \/ Clear

Spec == Init /\ [][Next]_vars
-----------------------------------------------------------------------------
Chars == UNION {ToSet(w) : w \in Words}
MaxWordLen == Max({Len(w) : w \in Words})
AllWords == WordsUpTo(Chars, MaxWordLen)

AnyEdit(v, w) == Substitutes(v, w) \/ Deletes(v, w) \/ Deletes(w, v) \/ Transposes(v, w)
NoTransposition(v, w) == Substitutes(v, w) \/ Deletes(v, w) \/ Deletes(w, v)
Pairs == AllWords \X AllWords
EditDistance == EditDistances(AllWords, MaxWordLen, {p \in Pairs : AnyEdit(p[1], p[2])})
Levenshtein ==
    EditDistances(AllWords, MaxWordLen, {p \in Pairs : NoTransposition(p[1], p[2])})

Marked == {"acceptable", "intermediate", "invalid"}

TypeOK ==
    /\ mode \in {"set", "change"}
    /\ req \in RequirementsType
    /\ text \in [Fields -> Words]
    /\ mark \in [Fields -> Marked]
    /\ isValid \in BOOLEAN /\ told \in BOOLEAN

Visible == IF mode = "set" THEN Fields \ {"old"} ELSE Fields

\* Types apart: what the widget says of its validity, by IsValid(), ValidChanged()
\* and the colors, is one thing: it is valid exactly when every field that counts
\* in its mode is shown as acceptable, after any order of edits and changes.
OneVerdict ==
    /\ TypeOK
    /\ told = isValid
    /\ isValid <=> \A f \in Visible : mark[f] = "acceptable"

\* What is asked of a password alone, of classes that may overlap or leave
\* characters out.
HasWhatIsAsked(w, r) ==
    /\ Len(w) \in r.pwdMinLen..MaxLen(r.pwdMaxLen)
    /\ r.pwdMinLetters <= Count(w, Letters)
    /\ r.pwdMinUpper <= Count(w, Upper) /\ r.pwdMinLower <= Count(w, Lower)
    /\ r.pwdMinDigits <= Count(w, Digits) /\ r.pwdMinSymbols <= Count(w, Symbols)

\* A password the widget accepts meets the requirements set last, though texts
\* were typed under earlier ones or in the other mode, is confirmed, and is as far
\* from the old password and from the hint as is asked, by a distance that does
\* not know transpositions.
AcceptedMeetsRequirements == isValid =>
    /\ HasWhatIsAsked(text["new"], req)
    /\ text["confirm"] = text["new"]
    /\ Len(text["hint"]) \in req.hintMinLen..MaxLen(req.hintMaxLen)
    /\ req.hintNotEqual => text["hint"] # text["new"]
    /\ req.hintMinSimilarity <= Levenshtein[<<text["hint"], text["new"]>>]
    /\ ~req.unicode => \A f \in Visible : Count(text[f], NonAscii) = 0
    /\ mode = "change" =>
        /\ HasWhatIsAsked(text["old"], req)
        /\ req.newOldNotEqual => text["new"] # text["old"]
        /\ req.newOldMinSimilarity <= Levenshtein[<<text["new"], text["old"]>>]

\* DamerauLevenshteinDistance() of any two texts is never less than the number of
\* edits that turn one into the other, is never more than that without
\* transpositions, and does not depend on which of the two comes first.
DistanceBounded ==
    LET v == text["new"]
        w == text["hint"]
        distance == DamerauLevenshteinDistance(v, w)
    IN  /\ EditDistance[<<v, w>>] <= distance /\ distance <= Levenshtein[<<v, w>>]
        /\ distance = DamerauLevenshteinDistance(w, v)

\* There is a password that has what the requirements Validate() accepts ask of
\* it, unless a negative value is subtracted from their sum.
RequirementsCanBeMet == NoneNegative(req) => \E c \in Composition : Meets(c, req)
=============================================================================
