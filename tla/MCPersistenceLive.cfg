SPECIFICATION FairSpec
CONSTANTS
    Data = {d0, d1}
    NoData = d0
    DupKeys = {FALSE}
    MaxFailures = 1
    MaxFaults = 1
    Absent = Absent
    Corrupt = Corrupt
PROPERTIES ChangesReachDisk
