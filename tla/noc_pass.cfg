\* Two hosts, a random policy and a manual one, the rotator and one request at a time, over a midnight.
SPECIFICATION Spec
CONSTANTS
    adm1 = adm1  adm2 = adm2  fiberx = fiberx  support = support  devUser = devUser
    kept = kept  jo = jo  m1 = m1  own = own  typed = typed  earlier = earlier
    rotator = rotator  req = req  none = none
    MaxPolicies = 3
    Host = {1, 2}
    Attribute <- TwoHosts
    Mikrotik = {2}
    User = {adm1, adm2, fiberx, support, devUser, kept, jo}
    Fiberx = fiberx
    Support = support
    Dev = devUser
    Setup = {adm1, adm2}
    Targets <- TwoTargets
    SavedInputs <- UsersOnMikrotik
    Keepable = {kept}
    ManualPassword = {m1}
    Own = own
    Typed = typed
    InitialPolicies <- TwoPolicies
    Earlier = earlier
    RotatedBefore = {1}
    InitialUsers = {adm1, adm2, kept}
    Rotator = rotator
    Request = {req}
    None = none
    MaxDays = 2
    MaxPasswords = 6
    MaxEvents = 2
INVARIANTS ConfirmedIsActual PasswordOnRecord NotLockedOut EditsSurvive
PROPERTIES KeptUsersStay
SYMMETRY SetupSymmetry
