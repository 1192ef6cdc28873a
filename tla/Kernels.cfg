SPECIFICATION Spec
CONSTANTS
    Thread = {t1, t2}
    OpType = {"o1"}
    Path <- MCPath
    MaxGen = 2
    MaxReselect = 1
    MaxThrow = 1
    Runner = {"r1", "r2"}
    DeviceOf <- MCDeviceOf
    Launcher = {"l1", "l2", "l3", "l4"}
    BinOf <- MCBinOf
    KeyOf <- MCKeyOf
    Static = {"l2"}
    NoWorkspace = {"l3"}
    OwnWorkspace = {"l4"}
    Cleared = {"l1"}
    Repeatable = {"l1", "l4"}
    OutTypes <- MCOutTypes
    None = None
    MaxFail = 2
    Cast <- MCCast
    Caller = {c1, c2}
    MainStream = {m1}
    NoCaller = NoCaller
    AicNum = 2
    AivNum = 1
    Asked <- MCAsked
INVARIANTS SelectedUsable LaunchesOwn SplitOrdered
PROPERTY CallsReturn
CHECK_DEADLOCK FALSE
