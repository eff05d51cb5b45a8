SPECIFICATION Spec
CONSTANTS
    Loads = {0, 1, 720, 724, 1000, 1006}
    MaxLoad = 1006
    MaxErrors = 1
PROPERTIES
    HealthFailsFirst
    VerdictFollowsLoad
