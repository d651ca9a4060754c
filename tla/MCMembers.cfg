SPECIFICATION Spec
CONSTANTS
    r1 = r1
    r2 = r2
    ann = ann
    bob = bob
    Nobody = Nobody
    Requests = {r1, r2}
    Users = {ann, bob}
    Founder = ann
    i1 = i1
    i2 = i2
    Invitations = {i1, i2}
    InvitedRoles = {"client"}
    Places = {"company"}
SYMMETRY
    Interchangeable
INVARIANTS
    AdminUnlessRace
    AdmitsOnce
    NoStrayAccess
CHECK_DEADLOCK FALSE
