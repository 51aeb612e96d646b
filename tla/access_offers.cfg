SPECIFICATION OneAtATime
CONSTANTS
    founder = founder
    ann = ann
    ANN = ANN
    home = home
    new = new
    u1 = u1  u2 = u2  g1 = g1  a = a  b = b
    Focus = {"access"}
    Persons = {u1, u2}  Groups = {g1}  AppRoles = {a, b}
    Machines <- MCMachines  Contents <- MCContents  Starts <- MCStarts
    MaxChanges = 2  Overlap = {TRUE, FALSE}
    Nil = Nil
    Emails = {founder, ann, ANN}
    Workspaces = {home, new}
    Invitations = {i1}
    Requests = {r1, r2}
    Lower <- MCLower
    Offers <- MCOffers
    Home = home
    Founder = founder
    MaxLinks = 2
    MaxSessions = 1
SYMMETRY Symmetric
INVARIANTS OffersHonoured
