SPECIFICATION Spec
CONSTANTS
    Offered = {"no_auth", "password"}
    TCP_WND = 3
    TCP_SND_BUF = 2
    RecvBuf = 3
    MaxUp = 4
    MaxDown = 5
INVARIANTS HandshakeExact BooksAgree NoStall OrderlyEndDelivers
PROPERTIES ReturnsLivePcb HalfClosedReclaimed
