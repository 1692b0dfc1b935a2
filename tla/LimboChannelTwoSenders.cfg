\* Two threads send on the same channel (two concurrent cogdiod_set_tv calls).
CONSTANTS
    Message = {m1, m2}
    NoMessage = NoMessage
    BufMax = 3
    Senders = {s1, s2}
    Collectors = {}
    Receivers = {r1}
    Workers = {}
SPECIFICATION Spec
PROPERTY SendDelivers
