SPECIFICATION Spec
CONSTANTS
    m1 = m1
    os = os
    dns = dns
    Machine = {m1}
    OsName = os
    Name = {os, dns}
    MaxUpsets = 2
    MaxCuts = 1
PROPERTY ExpiredGo
