SPECIFICATION Spec
CONSTANT Dir = 0
INVARIANTS
    OrderlyRunNeverJumps
    ShootThroughNeedsJump
    SameRotation
