SPECIFICATION Spec
CONSTANTS
    Words = {}
    MaxSteps = 4
    MaxCost = 2
    MaxNow = 2
    MaxCrashes = 1
    TokenCap = 3
    SecondCap = 1
    IterationCaps = {0, 3}
    Tags = {default}
    Providers = {cloud, mlx}
    Local = {mlx}
    LocalChoice = mlx
    Global = cloud
    None = None
INVARIANTS
    
    DriftStops
    
