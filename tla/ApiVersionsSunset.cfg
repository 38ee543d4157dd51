INIT Init
NEXT Next
CONSTANTS
    MaxVersion = 3
    Routes = {r1}
    None = None
INVARIANT SunsetIsGone
