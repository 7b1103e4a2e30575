SPECIFICATION SlabSpec
CONSTANT Objects = 40
INVARIANTS DestroyedEmpty NoDoubleFree
