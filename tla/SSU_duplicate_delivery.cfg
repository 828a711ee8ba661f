CONSTANTS
    us = us
    p1 = p1
    p2 = p2
    m1 = m1
    m2 = m2
    Routers = {us, p1}
    MsgIds = {m1}
    Sends <- SendsOneFrag
SPECIFICATION Spec
INVARIANTS
    AtMostOnceDelivery
