SPECIFICATION NsSpec
CONSTANTS
    Nodes = {n1, n2, n3}
    Required = {n1, n3}
    FileNodes = {n1, n2}
    FileRequired = {n1}
    KubeNodes = {n1, n2}
    Kube = {k1, k2}
    KubeRequired = {k1}
    None = None
PROPERTY OptionalKubeTolerated
