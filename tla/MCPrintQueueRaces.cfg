SPECIFICATION Spec
CONSTANTS
    d1 = d1
    a1 = a1
    a2 = a2
    k1 = k1
    k2 = k2
    k3 = k3
    k4 = k4
    k5 = k5
    k6 = k6
    k7 = k7
    None = None
    Devices = {d1}
    Agents = {a1, a2}
    DeviceOf <- OnePrinter
    Tokens = {k1, k2, k3, k4, k5, k6, k7}
    LeaseTime = 1
    MaxJobs = 2
    MaxRetries = 0
    StaffStatuses = {"queued"}
    Switchable = {}
    AgentStatuses = {"processing", "completed"}
    Overlap = TRUE
SYMMETRY Symmetric
INVARIANTS TypeOK LeaseIsHonoured OneAgentPerJob
