\* Two tunnels to one server, a change of the uplink, every failure, the shutdown.
\* A manager that has stopped is done, hence no deadlock check.
SPECIFICATION FairSpec
CONSTANTS
    t1 = t1  t2 = t2  i1 = i1  wired = wired  backup = backup
    Tunnel = {t1, t2}
    Ip = {i1}
    Uplink = {wired, backup}
    Iface <- IfaceDef
    None = None  ViaTun = ViaTun
    MaxChanges = 1
    Faults = {"ip", "exec", "timeout"}
CHECK_DEADLOCK FALSE
INVARIANTS
    TypeOK
    RefCountExact
    RunningBypassed
    CredentialsWiped
PROPERTIES
    ShutdownReleases
    ShutdownEnds
