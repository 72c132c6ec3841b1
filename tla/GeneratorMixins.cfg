SPECIFICATION Spec
CONSTANTS
    Aliases = {Any}
    Structures = {A, B, C}
    Kinds = {"base", "value", "mixin"}
CHECK_DEADLOCK FALSE
INVARIANT
    MixinsCopied
