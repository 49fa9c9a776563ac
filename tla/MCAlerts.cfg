SPECIFICATION MCSpec
CONSTANTS
    Rules = {r1}
    Series = {g0}
    Duration = 2
    Cooldown = 3
    MaxRestarts = 1
    Metrics = {"fan_speed", "process_vram"}
    Levels = {0, 5}
    Presets <- MCPresets
    Empty = Empty
    MaxRules = 2
    MaxEvents = 1
    MaxClicks = 3
    MaxTurns = 1
    Tabs = {"A", "B"}
    Admins = {"A", "B"}
    Cards = {"x", "y"}
    Lines = {"pow"}
    Values = {0, 20}
    MaxValue = 10
    Limit <- MCLimit
    Default = 9
    Browser <- MCBrowser
    NoLine = NoLine
    MaxEdits = 2
    MaxBreaks = 1
INVARIANT OthersKept
PROPERTIES EventsTrue ResolvesWhenClear PresetsOnce OtherLinesKept
CHECK_DEADLOCK FALSE
