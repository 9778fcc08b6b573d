SPECIFICATION Spec
CONSTANTS
    Texts = {"", "text", "?"}
    EmptyText = ""
    Garbled = "!"
    Repaired = "?"
    Numbers = {0, 7}
    Nodes = {node}
    Failures = {13}
    UnknownIds = {11, 14, 26}
    UnknownReasons = {1, 6}
    MaxArgs = 2
    Versions = {65643, 65644, 131072}
    Fault = Fault
INVARIANT DecodedAsHappened
