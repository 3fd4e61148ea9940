SPECIFICATION Spec
CONSTANTS
    Names <- SomeNames
    Crds <- SomeCrds
    Values <- SomeValues
    NoSchema = NoSchema
    None = None
INVARIANTS
    TypeOK
    StoredStaysValid
