\* Two concurrent requests on one customer, one failing audit insert.
SPECIFICATION Spec
CONSTANTS
    Customers = {c1}
    Updates = {u1, u2}
    MaxFaults = 1
INVARIANTS
    TypeOK
    StatusIsAudited
