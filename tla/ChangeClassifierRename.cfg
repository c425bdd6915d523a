SPECIFICATION Spec
CONSTANTS
    script = script
    fixture = fixture
    doc = doc
    unknown = unknown
    intent = intent
    x = x
    Path = {script, fixture, doc, unknown, intent}
    IntentPath = intent
    Material = {script, fixture}
    Fast = {fixture, doc}
    Hashed = {script, fixture}
    Blob = {x}
    Absent = Absent
    Similar <- MCSimilar
    Version = {1}
    Worktree = {}
    MaxEdits = 3
PROPERTY FastIsInert
