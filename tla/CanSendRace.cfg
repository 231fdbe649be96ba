\* close while another thread sends.
SPECIFICATION Spec
CONSTANTS
    control = control
    worker = worker
    Users = {control, worker}
    Ops <- OneController
    Reopen = FALSE
    Fds = {1, 2}
    MaxInits = 1
    MaxFrames = 1
    NoThread = NoThread
INVARIANTS
    SentOnBus
