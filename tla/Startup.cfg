SPECIFICATION StartupSpec
CONSTANTS
    Lines <- MCLines
    MaxLines = 9
    MaxItems = 2
    Answers <- MCAnswers
    KeyLines <- MCKeyLines
    MaxKeyLines = 6
    KeyNames = {"k1", "k2"}
INVARIANTS
    LoadedIsMeant
    LoadedIsUsable
    KeysLoadedAreMeant
    DialsAreChecked
