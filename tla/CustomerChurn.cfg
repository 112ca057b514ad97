\* Two concurrent requests on one customer; nothing fails.
SPECIFICATION Spec
CONSTANTS
    Customers = {c1}
    Updates = {u1, u2}
    MaxFaults = 0
PROPERTIES
    ChurnedIsTerminal
