SPECIFICATION Spec
CONSTANT MAX_FILTER_DEPTH = 4
INVARIANT NestedGlobDecides
