--------------------------- MODULE MCFileSession ---------------------------
\* Instances of FileSession: the requests of the programs that are checked.
EXTENDS FileSession

Ask(op, name) == [op |-> op, name |-> name, to |-> name, mode |-> {}, n |-> 0,
                  parts |-> <<>>]
Open(name, mode) == [Ask("open", name) EXCEPT !.mode = mode]
Read(n) == [Ask("read", FirstFile) EXCEPT !.n = n]
Write(parts) == [Ask("write", FirstFile) EXCEPT !.parts = parts]

\* Every operation; a write of a small first message and two large ones.
AnyRequest ==
    {Open("a", {"read", "write"}), Open("b", {"write", "create", "trunc"}),
     Ask("close", "a"), Read(2), Write(<<1, 2>>), Ask("seek", "a"),
     Ask("delete", "a"), Ask("create", "b"),
     Ask("set", "b"), Ask("path", "a"),
     [Ask("rename", "a") EXCEPT !.to = "b"]}

\* A program that stores a file: smashftp put.
PutRequest == {Open("b", {"write", "create"}), Write(<<2>>)}
=============================================================================
