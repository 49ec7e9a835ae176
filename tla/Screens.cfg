SPECIFICATION Spec
CONSTANT Null = Null
INVARIANT EntriesSound NilNeedsSignOut JobsSound
 
CHECK_DEADLOCK FALSE
