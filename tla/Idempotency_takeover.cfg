SPECIFICATION Spec
CONSTANTS
    r1 = r1 r2 = r2 r3 = r3 r4 = r4
    Request = {r1, r2, r3, r4}
    None = None
    Fingerprint = {"a", "b"}
    FpOf <- ThreeSameBody
    Ttl = 1
    Faults = {"upstream"}
INVARIANT OneInFlight
