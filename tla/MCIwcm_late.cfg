SPECIFICATION Spec
CONSTANTS
    i1 = i1
    i2 = i2
    None = None
    Ids = {i1, i2}
    Connects = {i1}
    Listens = {i2}
    Backlog = 2
PROPERTY NoEventAfterDestroy
