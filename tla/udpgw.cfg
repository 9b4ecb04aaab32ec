SPECIFICATION FairSpec
CONSTANTS
    Locals = {"l1", "l2"}
    Remotes = {"r1", "r2"}
    max_connections = 2
    max_connections_for_client = 1
    send_buffer_size = 1
    CONNECTION_CLIENT_BUFFER_SIZE = 1
    Wire = 1
    MaxSends = 3
    MaxLosses = 1
INVARIANTS FirstDataIntact PrivateSocket OwnAnswers EndsAgree
PROPERTIES Reconnects
CHECK_DEADLOCK FALSE
