CONSTANTS
    s1 = s1
    s2 = s2
    a1 = a1
    Lobby = Lobby
    Echo = Echo
    NoZone = NoZone
    NoSession = NoSession
    NoAccount = NoAccount
    Sessions <- MCSessions
    Accounts <- MCAccounts
    Zones <- MCZones
SPECIFICATION Spec
INVARIANTS NothingLeft  LoginsKnown
PROPERTIES EveryoneLeaves
