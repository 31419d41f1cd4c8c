\* Two keys, flags of both signs, and a cas value that gains a digit; and
\* every VALUE line of up to ten characters.
SPECIFICATION Spec
CONSTANTS
    Word = 256
    IntRange = 16
    ItemKeys = {20, 21}
    Flags <- MCFlags
    Expirations <- MCExpirations
    Sizes = {0, 2, 3}
    Limits = {2}
    DefaultSize = 6
    FirstCas = 8
    MaxStores = 3
    Leftover = 8
    AnyLines <- MCLines
    Numbers <- MCNumbers
    MaxLine = 10
INVARIANTS
    TypeOK
    FieldsKept
    StoresAreRight
    StopsAtEitherEnd
    ReadsWhatWasWritten
