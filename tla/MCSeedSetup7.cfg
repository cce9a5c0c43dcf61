CONSTANT Sizes = {7}
SPECIFICATION Spec
INVARIANT SeedPlaced
CHECK_DEADLOCK FALSE
