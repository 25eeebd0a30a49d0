\* get_seglist_idx against the documented size classes.
CONSTANT SmallSizes = 300
INIT Init
NEXT Next
INVARIANT SizeClassCorrect
