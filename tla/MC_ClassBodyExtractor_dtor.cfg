CONSTANT Texts <- MC_Texts
CONSTANT MaxFragments = 4
SPECIFICATION Spec
INVARIANT InlineDestructorRecorded
CHECK_DEADLOCK FALSE
