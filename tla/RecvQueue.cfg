CONSTANTS
    a = a
    b = b
    Byte <- MCByte
    Zero = a
    MODEM_SOCKET_RECV_MAX = 4
    RECV_QIURC_LENS_BUF_SIZE = 3
    Datagrams <- MCDatagrams
    BufLens = {1, 4}

SPECIFICATION Spec

INVARIANTS
    TypeOK
    LensAddUp

PROPERTY ImplementsQueue
