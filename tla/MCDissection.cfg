CONSTANTS
    ProtoFields <- MCProtoFields
    Protos <- MCProtos
    Arguments <- MCArguments
    Options <- MCOptions
    KeepsHandles = TRUE
    MaxAdds = 4
    MaxMessages = 2
    None = None
SPECIFICATION Spec
INVARIANTS
    EkSelectsEveryLeaf
    NdjsonShowsEveryLeaf
    SiblingsInOrder
