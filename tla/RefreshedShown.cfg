\* Two messages, pages of one row: a tail overlaps a refresh.
SPECIFICATION Spec
CONSTANTS
    MaxId = 2
    Limit = 1
PROPERTY RefreshedShown
