\* A ring of three bytes; and the line: every order of calls, interrupts and bytes on the line.
SPECIFICATION MCSpec
CONSTANTS
    maxsize = 3
    Bytes = {0, 1}
    Zero = 0
    WBUFSIZ = 2
    RBUFSIZ = 2
    Ids = {1, 2}
    x = x
    nl = nl
    cr = cr
    none = none
    Chars <- AllChars
    NL <- nl
    CR <- cr
    None <- none
    MaxWrite = 3
    MaxAccepted = 4
    MaxArrived = 4
INVARIANTS NoneLostInOrder ReadInOrder
PROPERTIES FifoSpec WritesDrain
