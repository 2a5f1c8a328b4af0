SPECIFICATION Spec
CONSTANTS
    Nil = Nil
    Undefined = Undefined
    Names <- MCNames
    Texts <- MCTexts
    Reactions <- MCReactions
    Var = "v"
    Const = "k"
    ConstValues = {0, 2}
    Args = {2, 4}
    MaxStack = 1
    MaxVar = 2
INVARIANTS CallsAgree ReactionsAgree
\* Everything may be defined for good.
CHECK_DEADLOCK FALSE
