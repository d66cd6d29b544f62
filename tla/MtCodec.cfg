SPECIFICATION Spec
CONSTANT FewCounts <- MCFewCounts
INVARIANT InputFits
INVARIANT SentAsEntered
INVARIANT ShownAsSent
