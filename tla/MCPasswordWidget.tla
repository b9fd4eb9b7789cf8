---------------------------- MODULE MCPasswordWidget ---------------------------
(* Instances of PasswordWidget: words that are transpositions of each other *)
(* at their start and after it, and requirements that are met by some of    *)
(* them, by none, or that Validate() refuses.  The digit is not ASCII.       *)
EXTENDS PasswordWidget

MCWords == {<<>>, <<"a">>, <<"a", "A">>, <<"A">>, <<"A", "a">>,
            <<"A", "a", "1">>, <<"A", "1">>, <<"A", "1", "a">>}

Req(unicode, maxLen, minLen, letters, upper, lower, digits, symbols, hint, newOld) ==
    [unicode |-> unicode, pwdMaxLen |-> maxLen, pwdMinLen |-> minLen,
     pwdMinLetters |-> letters, pwdMinUpper |-> upper, pwdMinLower |-> lower,
     pwdMinDigits |-> digits, pwdMinSymbols |-> symbols,
     hintMaxLen |-> hint[1], hintMinLen |-> hint[2], hintNotEqual |-> hint[3] > 0,
     hintMinSimilarity |-> hint[3], newOldNotEqual |-> newOld > 0, newOldMinSimilarity |-> newOld]

MCDefault == Req(TRUE, 0, 2, 2, 1, 1, 0, 0, <<0, 1, 1>>, 2)

MCRequirements ==
    {MCDefault,
     Req(TRUE, 0, 0, 0, 0, 0, 0, 0, <<0, 0, 0>>, 0),
     Req(FALSE, 2, -1, 0, 1, 0, 0, 0, <<1, -1, 2>>, 1),
     Req(TRUE, 3, 3, 2, 1, 1, 1, 0, <<0, 0, 2>>, 2),
     Req(TRUE, 3, 3, 3, 1, 1, 1, 0, <<0, 0, 0>>, 0),
     Req(TRUE, 0, 0, 3, 0, 0, 1, 1, <<0, 0, 0>>, 0),
     Req(TRUE, 0, 0, 0, 3, 0, 3, -2, <<0, 0, 0>>, 0)}
=============================================================================
