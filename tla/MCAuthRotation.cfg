\* The documented rotation.
CONSTANTS
    Nil = Nil
    r1 = r1
    r2 = r2
    r3 = r3
    e1 = e1
    e2 = e2
    AuthRequests = {r1, r2, r3}
    Emails = {e1}
    Lifetime = 1
    MaxTime = 2
SPECIFICATION AuthSafety
INVARIANTS
    TokenReplacedOnce
