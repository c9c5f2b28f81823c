CONSTANTS
    server = server
    update = update
    short = short
    full = full
    Hosts = {server}
    Messages = {update}
    Datagrams <- MCDatagrams
    Size <- MCSize
    MODEM_SOCKET_RECV_MAX = 2
    RECV_QIURC_LENS_BUF_SIZE = 1
    Backlog = 2
    Received = 3

SPECIFICATION Spec

INVARIANTS
    TypeOK
    DoneIsDone
    PayloadOnlyInDataMode
    InStepWhileOrderly
    CommandsStayCommands
    FreedMeansClosed

PROPERTIES
    NoAnswerLeft
    OperationsEnd
