SPECIFICATION Spec
CONSTANTS
    Paths = {"explicit", "env", "default", "dev"}
    DefaultPath = "default"
    DevelopmentPath = "dev"
    ContextNames = {"x", "y", "z"}
    ClusterNames = {"k1", "k2"}
    GatewayNames = {"g1", "g2"}
    TargetNames = {"t", "u"}
    HostKeyNames = {"t", "u", "h"}
    KubeContexts = {"kc1", "kc2"}
    Namespaces = {"n1", "n2"}
    Services = {"s1", "s2"}
    Ports = {0, 22}
    Keys = {"key"}
    Programs = {"flag", "env", "conf", "rel", "beside", "path", "usual"}
    Absolute = {"flag", "env", "conf", "beside", "path", "usual"}
    SearchOrder <- SomeSearchOrder
    EnvValues = {"old", "older", "new"}
    Contents <- AllContents
    Situations <- AllSituations
    Edits <- SomeEdits
    EditBound = 2
    None = None
    Absent = Absent
    Bad = Bad
    Error = Error
INVARIANTS
    TypeOK
    TunnelAsPreflighted
    EnvironmentOverridden
    NamedKubectlPinned
    LocationIsLoaded
    FailureIsTheUsers
    ContextAsListed
CHECK_DEADLOCK FALSE
