CONSTANTS
    c1 = c1
    c2 = c2
    Clients = {c1, c2}
    MaxLines <- MCMaxLines
    BufferLines = 1
    SendBuffer = 1
    AnswerBuffer = 1
    MaxLinks = 3
    MaxRestarts = 1
    MaxDrops = 1
SPECIFICATION Spec
PROPERTY Reconnects
