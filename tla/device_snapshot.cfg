\* As device_programs, for what the documents say of omitted device_info.
CONSTANTS
    p1 = p1
    p2 = p2
    t1 = t1
    t2 = t2
    Programs = {p1, p2}
    Threads = {t1, t2}
    Layouts <- MCLayouts
    Networks <- MCNetworks
    Sdks = {"python", "go", "typescript"}
    None = None
SPECIFICATION Spec
INVARIANT CollectedWhenOmitted
