CONSTANTS
    Amounts = {1, 2, 3, 4, 5}
    Limits = {1, 1000, 1500, 2999, 3000}
    Word = 4096
SPECIFICATION Spec
INVARIANTS RefusedIsOutside
