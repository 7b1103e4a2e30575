SPECIFICATION Spec
CONSTANT Task = {t1, t2}
INVARIANT AllProbesSee
PROPERTIES CallsGoOn LifeSpec
