SPECIFICATION Spec
CONSTANTS
    Artifacts = {"x", "y"}
    Objects = {"o1", "o2", "o3"}
    Absent = Absent
    Faults = {"nvs"}
INVARIANT
    RestoreSafe
