SPECIFICATION Spec
CONSTANTS
    Nodes <- ThreePods
    Settings <- Deployed
    DeployConfig <- Sections
    EngineDefaults <- Fallbacks
INVARIANTS ListensWhereProxySends OneCluster FeaturesHonoured DevicesMatch
CHECK_DEADLOCK FALSE
