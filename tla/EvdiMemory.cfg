CONSTANTS
    Objs = {o1, o2}
    Shared = {o1}
    Fbs = {f1, f2}
    None = None
    Kinds = {"own","amdgpu","import"}
    MaxPins = 1
SPECIFICATION Spec
SYMMETRY Sym
INVARIANTS  MemorySafe
CHECK_DEADLOCK FALSE
