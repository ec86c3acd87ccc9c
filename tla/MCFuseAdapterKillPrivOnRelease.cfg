CONSTANTS
    root = root
    i2 = i2
    i3 = i3
    n1 = n1
    n2 = n2
    unset = unset
    noAttr = noAttr
    noHandle = noHandle
    noIno = noIno
    Users <- MCUsers
    GidOf <- MCGidOf
    GroupsOf <- MCGroupsOf
    Inos <- MCInos
    RootIno <- root
    NoIno <- noIno
    Names <- MCNames
    Fhs = {1}
    MaxSize = 1
    SuidSupport = FALSE
    FileModes <- MCFileModes
    DirModes <- MCDirModes
    SetAttrs <- MCSetAttrs
    OpenFlags <- MCOpenFlags
    Unset <- unset
    NoAttr <- noAttr
    NoHandle <- noHandle
SPECIFICATION Spec
SYMMETRY MCSymmetry
VIEW MCView
PROPERTY KillPrivOnRelease
