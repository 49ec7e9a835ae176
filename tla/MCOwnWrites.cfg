SPECIFICATION OwnSpec
CONSTANTS
    a = a
    b = b
    pa = pa
    pb = pb
    ps = ps
    x = x
    y = y
    Null = Null
    Shared = Shared
    Client = {a, b}
    Path = {pa, pb, ps}
    Value = {x, y}
    Owner <- MCOwner
    Write <- MCWrite
    Batch <- MCBatch
    MaxPuts = 3
    MaxDrops = 1
    MaxKills = 1
INVARIANT OwnTypeOK ReadYourWrites ExecutedPrefix 
PROPERTY WritesArrive
CHECK_DEADLOCK FALSE
