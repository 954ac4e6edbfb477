SPECIFICATION Spec
CONSTANTS
    App = {nginx, xray}
    Other = {mysql}
    Container = {box}
INVARIANTS IntendedUnitsRun
