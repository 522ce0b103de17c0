\* Every body within two changes of the examples.
SPECIFICATION Spec
CONSTANTS
    MaxEdits = 2
INVARIANTS
    TypeOK
    DocumentsRoundTrip
    NothingGrantedUnasked
    NoSettingDropped
    FaultsAreAnswered
