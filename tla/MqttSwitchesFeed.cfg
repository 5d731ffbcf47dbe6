SPECIFICATION Spec
CONSTANT MAX_SWITCH = 1
INVARIANT StateTopicCarriesState
