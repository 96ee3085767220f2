CONSTANTS
    t1 = t1
    t2 = t2
    Tasks = {t1, t2}
    Denied = {t1}
    SwapEnabled = FALSE
    Cpus = 4
    NumaNodes = 2
    Period = 1000
    Unit = 1000
    MaxEvents = 3
CONSTANT Subs <- MCSubs
CONSTANT Qos <- MCQos
CONSTANT RuleSets <- MCRuleSets
CONSTANT Limits <- MCLimits
SPECIFICATION Spec
INVARIANT TypeOK
INVARIANT TargetInEffect
PROPERTY NoFutileWrites
PROPERTY EventuallyInEffect
