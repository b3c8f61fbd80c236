SPECIFICATION Spec
CONSTANT Skill = {s1, s2}
CHECK_DEADLOCK FALSE
PROPERTY UpdateIsLeftAlone
