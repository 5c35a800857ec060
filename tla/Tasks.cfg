SPECIFICATION Spec
CONSTANTS
    x = x
    y = y
    s = s
    i = i
    c1 = c1
    c2 = c2
    Names = {x, y, s, i}
    Objs = {o1, o2, o3, o4, o5, o6}
    Cells = {c1, c2, c3, c4, c5}
    NoObj = NoObj
    Ints = {1, 2}
    Arguments <- MCArguments
    Initially <- MCInitially
    MaxTasks = 3
    MaxChanges = 1
INVARIANTS
    TypeOK
    CreatedTasksRun
    BoundAtCreation
    IndependentUnlessAssigned
CHECK_DEADLOCK FALSE
