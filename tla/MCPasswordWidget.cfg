SPECIFICATION Spec
CONSTANTS
    QLineEditMaxLength = 4
    Words <- MCWords
    Letters = {"A", "a"}
    Upper = {"A"}
    Lower = {"a"}
    Digits = {"1"}
    Symbols = {"+"}
    NonAscii = {"1"}
    Requirements <- MCRequirements
    DefaultRequirements <- MCDefault
INVARIANTS
    OneVerdict
    AcceptedMeetsRequirements
    DistanceBounded
    RequirementsCanBeMet
