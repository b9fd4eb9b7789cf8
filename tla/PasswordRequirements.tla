-------------------------- MODULE PasswordRequirements -------------------------
(***************************************************************************)
(* What a PasswordRequirements object asks for, and Validate(), which      *)
(* Set() has as its precondition.  Values <= 0 mean no requirement.  How   *)
(* many characters of each class a password has is all that the            *)
(* requirements of the password itself look at.                            *)
(***************************************************************************)
EXTENDS Integers

CONSTANT QLineEditMaxLength     \* kQLineEditMaxLength_

ASSUME MaxLengthAssumption == QLineEditMaxLength \in Nat \ {0}

RequirementsType ==
    [unicode : BOOLEAN, pwdMaxLen : Int, pwdMinLen : Int, pwdMinLetters : Int,
     pwdMinUpper : Int, pwdMinLower : Int, pwdMinDigits : Int, pwdMinSymbols : Int,
     hintMaxLen : Int, hintMinLen : Int, hintNotEqual : BOOLEAN, hintMinSimilarity : Int,
     newOldNotEqual : BOOLEAN, newOldMinSimilarity : Int]

\* A maximum that is not positive is that of the line edit.
MaxLen(max) == IF max > 0 THEN max ELSE QLineEditMaxLength

\* What the letters, digits and symbols that are asked for have to fit into ...
LengthBound(r) == IF r.pwdMinLen > 0 THEN r.pwdMinLen ELSE MaxLen(r.pwdMaxLen)

\* ... and the upper and lower case letters.
LettersBound(r) == IF r.pwdMinLetters > 0 THEN r.pwdMinLetters ELSE LengthBound(r)

\* Mutant: the letters are left out of the sum.
ActualMinLen_NoLetters(r) == r.pwdMinDigits + r.pwdMinSymbols

\* actualMinLen: the sum is taken of what is there, negative values, too.
ActualMinLen(r) ==
    r.pwdMinDigits + r.pwdMinSymbols +
        IF r.pwdMinLetters > 0 THEN r.pwdMinLetters ELSE r.pwdMinUpper + r.pwdMinLower

\* PasswordRequirements::Validate().
Validate(r) ==
    /\ MaxLen(r.pwdMaxLen) <= QLineEditMaxLength
    /\ r.pwdMinLen <= MaxLen(r.pwdMaxLen)
    /\ r.pwdMinLetters <= LengthBound(r)
    /\ r.pwdMinUpper <= LettersBound(r) /\ r.pwdMinLower <= LettersBound(r)
    /\ r.pwdMinDigits <= LengthBound(r) /\ r.pwdMinSymbols <= LengthBound(r)
    /\ MaxLen(r.hintMaxLen) <= QLineEditMaxLength
    /\ r.hintMinLen <= MaxLen(r.hintMaxLen)
    /\ r.pwdMinUpper + r.pwdMinLower <= LettersBound(r)
    /\ ActualMinLen(r) <= LengthBound(r)

ClearHint(r) == [r EXCEPT !.hintMaxLen = 0, !.hintMinLen = 0,
                          !.hintNotEqual = FALSE, !.hintMinSimilarity = 0]

ClearNew(r) == [r EXCEPT !.newOldNotEqual = FALSE, !.newOldMinSimilarity = 0]
-----------------------------------------------------------------------------
\* How many characters of a class a password has.
Composition ==
    LET Counts == 0..QLineEditMaxLength
    IN  [upper : Counts, lower : Counts, digits : Counts, symbols : Counts]

Length(c) == c.upper + c.lower + c.digits + c.symbols

\* A password of that composition has what r asks of a password.
Meets(c, r) ==
    /\ r.pwdMinLen <= Length(c) /\ Length(c) <= MaxLen(r.pwdMaxLen)
    /\ r.pwdMinLetters <= c.upper + c.lower
    /\ r.pwdMinUpper <= c.upper /\ r.pwdMinLower <= c.lower
    /\ r.pwdMinDigits <= c.digits /\ r.pwdMinSymbols <= c.symbols

\* No value is subtracted from the sums of Validate().
NoneNegative(r) ==
    0 <= r.pwdMinUpper /\ 0 <= r.pwdMinLower /\ 0 <= r.pwdMinDigits /\ 0 <= r.pwdMinSymbols
=============================================================================
