CONSTANTS
    us = us
    p1 = p1
    p2 = p2
    m1 = m1
    m2 = m2
    Routers = {us, p1, p2}
    MsgIds = {m1}
    Sends <- SendsSameId
SPECIFICATION Spec
INVARIANTS
    DeliveryIntegrity
