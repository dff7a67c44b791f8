SPECIFICATION ServicesSpec
CONSTANTS
    r1 = r1  s1 = s1  s2 = s2  x = x  y = y  v = v  c1 = c1  c2 = c2  a1 = a1
    d1 = d1  d2 = d2  w1 = w1  w2 = w2  w3 = w3
    Disks <- DiskList
    Capacity = 3
    ReadChunk = 2
    GuestWrites = 2
    CdpSession = {s1}
    Changes = 4
    ChannelSize = 2
    Loader = {s1, s2}
    Repository = {r1}
    Block = {x}
    KeysMade = 2
    Drive = {d1}
    Barcode = {x}
    Device = {v}
    TapeCall = {w1, w2, w3}
    FormatCall = {s1}
    TapeName = {"m", "n"}
    NameIn <- Names
    Nothing = Nothing
    IndexMax = 2
    MediaSize = 2
    CloudAccount = {a1}
    CloudCall = {w1, w2}
    Setting <- Settings
    M365Job = {r1}
    M365Caller = {"a", "grpc"}
    BckTenant = {"a", "b"}
    User = {s1, s2}
    Folder = {d1, d2}
    File = {x, y}
    Placed <- FirstPlace
    Registrations = 2
    Moves = 1
    MinChunk = 3
    AvgChunk = 4
    MaxChunk = 6
    HashWindow = 2
    HashModulus = 16
    ByteValue = {0, 1}
    FileSizes = {0, 2, 6, 10}
    ReadUnit = 4
    BlockId = {x, y}
    StoreCall = {w1, w2, w3}
    NoBytes = NoBytes
    RestoreCall = {c1, c2}
    Path = {x, y}
    BlocksOfFile <- FilesIn
    Encrypted = {"a"}
    Damage = 1
    WireConn = {c1, c2}
    DiskSizes = {0, 3}
    Sector = 2
    MaxRead = 2
    Sockets = 1
    AddressSpace = 8
    Lbas = {0, 1, 2, 4}
    WireCalls = 2
INVARIANTS
    ServicesTypeOK ImageReadable ChangesAccounted KeysSound
    TapeSound CloudAccounted M365Sound ChunkingSound RestoreSound WireSound
PROPERTY KeepsPromise
CHECK_DEADLOCK FALSE
