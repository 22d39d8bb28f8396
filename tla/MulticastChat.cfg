CONSTANTS
    ann = ann
    bob = bob
    r1 = r1
    r2 = r2
    r3 = r3
    h1 = h1
    h2 = h2
    Runs = {r1, r2, r3}
    Names = {ann, bob}
    NameOf <- NameOfThree
    Hosts = {h1, h2}
    HostOf <- HostOfThree
    Surviving = {r1, r2}
    Deaf = {r1}
    Named = {r3}
    Talks <- BobTalks
    MaxEntries = 4
    QueueMax = 1
    Absent = Absent
    Nothing = Nothing
SPECIFICATION LiveSpec
INVARIANTS EntriesAreWhole PrivateGoesToTheName
PROPERTIES CrashesAreKnown ImplementsAddressBook MembersGetKnown
CHECK_DEADLOCK FALSE
