\* One thread opens and closes the interface, an open one too, while another
\* sends and receives.  init on an open interface can end in std::terminate, so deadlock is not checked.
SPECIFICATION FairSpec
CONSTANTS
    control = control
    worker = worker
    Users = {control, worker}
    Ops <- OneController
    Reopen = TRUE
    Fds = {1, 2}
    MaxInits = 2
    MaxFrames = 2
    NoThread = NoThread
INVARIANTS
    QueueFollowsCallback
    QuietAfterClose
    NothingLeaked
    ReadsOwnSocket
PROPERTIES
    CloseReturns
CHECK_DEADLOCK FALSE
