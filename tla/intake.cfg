CONSTANTS
    s1 = s1
    s2 = s2
    Senders = {s1, s2}
    Mode <- MCMode
    MaxLines <- MCMaxLines
    MaxRaw = 1
    MaxRestarts = 1
SPECIFICATION Spec
PROPERTY SendersEnd
INVARIANTS TypeOK  InOrder CountedIsPushed
