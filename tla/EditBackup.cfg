SPECIFICATION Spec
CONSTANTS
    Texts = {t1, t2}
    Others = {"other"}
INVARIANTS OldVersionIsLeft
